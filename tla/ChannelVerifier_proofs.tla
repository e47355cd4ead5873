------------------------ MODULE ChannelVerifier_proofs ------------------------
(***************************************************************************)
(* Theorems of ChannelVerifier, for any calls, contents, engines and       *)
(* workers and any number of slots: no task is lost or doubled, no content *)
(* stays PENDING with nobody seeing to it, every slot is given back.       *)
(***************************************************************************)
EXTENDS ChannelVerifier, FiniteSetTheorems, TLAPS

OnQueue(q, k) == \E i \in DOMAIN q : q[i] = k
Distinct(q) == \A i, j \in DOMAIN q : q[i] = q[j] => i = j

Idle == {"look", "asleep", "paused", "gone"}

CallType == [Calls -> [pc : CallSteps, content : Contents \cup {NoContent}, force : BOOLEAN]]

WorkerRecord == [pc : WorkerSteps, task : Calls \cup {NoCall},
                 session : Engines \cup {NoEngine}, command : Engines \cup {NoEngine}]
WorkerType == [Workers -> WorkerRecord]

Pipeline == {w \in Workers : InPipeline(w)}

\* A worker has a task exactly while it carries one out.
Attached == \A w \in Workers : worker[w].task = NoCall <=> worker[w].pc \in Idle

\* A worker that tries a host that stands in knows which.
Asked == \A w \in Workers : worker[w].pc = "fallback" => worker[w].session \in Engines

\* Only what was pushed is anywhere, and every call made names its content.
Pushed ==
  \A k \in Calls :
    /\ call[k].pc # "unmade" => call[k].content \in Contents
    /\ Queued(k) \/ Held(k) \/ k \in called => call[k].pc \in {"notify", "wait", "done"}

\* The destructor comes after the last call, and workers leave after it began.
Ended ==
  /\ stop_ => \A k \in Calls : call[k].pc \in {"unmade", "done"}
  /\ \A w \in Workers : worker[w].pc = "gone" => stop_

IInv ==
  /\ TypeOK /\ SlotsAreReturned /\ Attached /\ Asked /\ Pushed /\ Ended
  /\ TaskInOnePlace /\ QueueIsAttended /\ PendingIsWorkedOn

-----------------------------------------------------------------------------
(***************************************************************************)
(* Queues and slots.                                                       *)
(***************************************************************************)
LEMMA AppendAdds ==
  ASSUME NEW q \in Seq(Calls), NEW k \in Calls
  PROVE  /\ Append(q, k) \in Seq(Calls) /\ Append(q, k) # <<>>
         /\ \A m : OnQueue(Append(q, k), m) <=> OnQueue(q, m) \/ m = k
         /\ Distinct(q) /\ ~OnQueue(q, k) => Distinct(Append(q, k))
<1>1. /\ Append(q, k) \in Seq(Calls) /\ Len(q) \in Nat
      /\ DOMAIN q = 1..Len(q) /\ DOMAIN Append(q, k) = 1..(Len(q) + 1)
      /\ (\A i \in 1..Len(q) : Append(q, k)[i] = q[i])
      /\ Append(q, k)[Len(q) + 1] = k
  OBVIOUS
<1>2. Append(q, k) # <<>>
  BY <1>1
<1>3. \A m : OnQueue(Append(q, k), m) <=> OnQueue(q, m) \/ m = k
  <2> SUFFICES ASSUME NEW m PROVE OnQueue(Append(q, k), m) <=> OnQueue(q, m) \/ m = k
    OBVIOUS
  <2>1. ASSUME NEW i \in 1..Len(q), q[i] = m PROVE OnQueue(Append(q, k), m)
    BY <1>1, <2>1 DEF OnQueue
  <2>2. OnQueue(Append(q, k), k)
    BY <1>1 DEF OnQueue
  <2>3. ASSUME NEW i \in 1..(Len(q) + 1), Append(q, k)[i] = m, m # k
        PROVE  OnQueue(q, m)
    <3>1. i \in 1..Len(q)
      BY <1>1, <2>3
    <3> QED BY <1>1, <2>3, <3>1 DEF OnQueue
  <2> QED BY <1>1, <2>1, <2>2, <2>3 DEF OnQueue
<1>4. ASSUME Distinct(q), ~OnQueue(q, k) PROVE Distinct(Append(q, k))
  BY <1>1, <1>4 DEF Distinct, OnQueue
<1> QED BY <1>1, <1>2, <1>3, <1>4

LEMMA TailRemoves ==
  ASSUME NEW q \in Seq(Calls), q # <<>>
  PROVE  /\ Tail(q) \in Seq(Calls) /\ Head(q) \in Calls
         /\ \A m : OnQueue(q, m) <=> OnQueue(Tail(q), m) \/ m = Head(q)
         /\ Distinct(q) => Distinct(Tail(q)) /\ ~OnQueue(Tail(q), Head(q))
<1>1. /\ Tail(q) \in Seq(Calls) /\ Len(q) \in Nat \ {0} /\ Head(q) = q[1] /\ q[1] \in Calls
      /\ DOMAIN q = 1..Len(q) /\ DOMAIN Tail(q) = 1..(Len(q) - 1)
      /\ \A i \in 1..(Len(q) - 1) : Tail(q)[i] = q[i + 1]
  OBVIOUS
<1>2. \A m : OnQueue(q, m) <=> OnQueue(Tail(q), m) \/ m = Head(q)
  <2> SUFFICES ASSUME NEW m PROVE OnQueue(q, m) <=> OnQueue(Tail(q), m) \/ m = Head(q)
    OBVIOUS
  <2>1. ASSUME NEW i \in 1..Len(q), q[i] = m, m # Head(q) PROVE OnQueue(Tail(q), m)
    <3>1. i - 1 \in 1..(Len(q) - 1) /\ (i - 1) + 1 = i
      BY <1>1, <2>1
    <3>2. Tail(q)[i - 1] = m
      BY <1>1, <2>1, <3>1
    <3> QED BY <1>1, <3>1, <3>2 DEF OnQueue
  <2>2. ASSUME NEW i \in 1..(Len(q) - 1), Tail(q)[i] = m PROVE OnQueue(q, m)
    <3>1. i + 1 \in 1..Len(q) /\ q[i + 1] = m
      BY <1>1, <2>2
    <3> QED BY <1>1, <3>1 DEF OnQueue
  <2>3. OnQueue(q, Head(q))
    <3>1. 1 \in DOMAIN q
      BY <1>1
    <3> QED BY <1>1, <3>1 DEF OnQueue
  <2> QED BY <1>1, <2>1, <2>2, <2>3 DEF OnQueue
<1>3. ASSUME Distinct(q) PROVE Distinct(Tail(q)) /\ ~OnQueue(Tail(q), Head(q))
  <2>1. \A i \in 1..(Len(q) - 1) : i + 1 \in 1..Len(q) /\ Tail(q)[i] = q[i + 1] /\ i + 1 # 1
    BY <1>1
  <2>2. 1 \in 1..Len(q)
    BY <1>1
  <2>3. \A i, j \in 1..(Len(q) - 1) : i + 1 = j + 1 => i = j
    OBVIOUS
  <2> QED BY <1>1, <1>3, <2>1, <2>2, <2>3 DEF Distinct, OnQueue
<1> QED BY <1>1, <1>2, <1>3

\* A worker that moves, and changes its task or its session, is a worker.
LEMMA WorkerMoves ==
  ASSUME NEW f \in WorkerType, NEW w \in Workers, NEW pc \in WorkerSteps,
         NEW t \in Calls \cup {NoCall}, NEW s \in Engines \cup {NoEngine},
         NEW c \in Engines \cup {NoEngine}
  PROVE  /\ [f EXCEPT ![w].pc = pc, ![w].task = t] \in WorkerType
         /\ [f EXCEPT ![w].pc = pc, ![w].session = s] \in WorkerType
         /\ [f EXCEPT ![w].pc = pc, ![w].command = c] \in WorkerType
         /\ [f EXCEPT ![w].pc = pc, ![w].session = s, ![w].command = c] \in WorkerType
<1>1. ASSUME NEW r \in WorkerRecord PROVE [f EXCEPT ![w] = r] \in WorkerType
  BY <1>1 DEF WorkerType
<1>2. [f EXCEPT ![w].pc = pc, ![w].task = t] \in WorkerType
  <2>1. [f EXCEPT ![w].pc = pc, ![w].task = t] = [f EXCEPT ![w] = [f[w] EXCEPT !.pc = pc, !.task = t]]
    BY DEF WorkerType, WorkerRecord
  <2>2. [f[w] EXCEPT !.pc = pc, !.task = t] \in WorkerRecord
    BY DEF WorkerType, WorkerRecord
  <2> QED BY <1>1, <2>1, <2>2
<1>3. [f EXCEPT ![w].pc = pc, ![w].session = s] \in WorkerType
  <2>1. [f EXCEPT ![w].pc = pc, ![w].session = s] = [f EXCEPT ![w] = [f[w] EXCEPT !.pc = pc, !.session = s]]
    BY DEF WorkerType, WorkerRecord
  <2>2. [f[w] EXCEPT !.pc = pc, !.session = s] \in WorkerRecord
    BY DEF WorkerType, WorkerRecord
  <2> QED BY <1>1, <2>1, <2>2
<1>4. [f EXCEPT ![w].pc = pc, ![w].command = c] \in WorkerType
  <2>1. [f EXCEPT ![w].pc = pc, ![w].command = c] = [f EXCEPT ![w] = [f[w] EXCEPT !.pc = pc, !.command = c]]
    BY DEF WorkerType, WorkerRecord
  <2>2. [f[w] EXCEPT !.pc = pc, !.command = c] \in WorkerRecord
    BY DEF WorkerType, WorkerRecord
  <2> QED BY <1>1, <2>1, <2>2
<1>5. [f EXCEPT ![w].pc = pc, ![w].session = s, ![w].command = c] \in WorkerType
  <2>1. [f EXCEPT ![w].pc = pc, ![w].session = s, ![w].command = c]
          = [f EXCEPT ![w] = [f[w] EXCEPT !.pc = pc, !.session = s, !.command = c]]
    BY DEF WorkerType, WorkerRecord
  <2>2. [f[w] EXCEPT !.pc = pc, !.session = s, !.command = c] \in WorkerRecord
    BY DEF WorkerType, WorkerRecord
  <2> QED BY <1>1, <2>1, <2>2
<1> QED BY <1>2, <1>3, <1>4, <1>5

LEMMA PipelineFinite == IsFiniteSet(Pipeline) /\ Cardinality(Pipeline) \in Nat
<1>1. Pipeline \in SUBSET Workers
  BY DEF Pipeline
<1>2. IsFiniteSet(Pipeline)
  BY <1>1, FS_Subset, VerifierAssumption
<1> QED BY <1>2, FS_CardinalityType

\* A slot taken, and a slot given back.
LEMMA SlotTaken ==
  ASSUME TypeOK, SlotsAreReturned, NEW w \in Workers, w \notin Pipeline,
         semaphore_ > 0, semaphore_' = semaphore_ - 1, Pipeline' = Pipeline \cup {w}
  PROVE  SlotsAreReturned' /\ semaphore_' \in 0..Slots
<1>1. Cardinality(Pipeline \cup {w}) = Cardinality(Pipeline) + 1
  BY PipelineFinite, FS_AddElement
<1>2. Cardinality(Pipeline') = Cardinality(Pipeline) + 1
  BY <1>1
<1> QED BY <1>2, PipelineFinite, VerifierAssumption DEF SlotsAreReturned, Pipeline, TypeOK

LEMMA SlotGivenBack ==
  ASSUME TypeOK, SlotsAreReturned, NEW w \in Pipeline,
         semaphore_' = semaphore_ + 1, Pipeline' = Pipeline \ {w}
  PROVE  SlotsAreReturned' /\ semaphore_' \in 0..Slots
<1>1. Cardinality(Pipeline \ {w}) = Cardinality(Pipeline) - 1
  BY PipelineFinite, FS_RemoveElement
<1>2. Cardinality(Pipeline') = Cardinality(Pipeline) - 1
  BY <1>1
<1>3. Cardinality(Pipeline) > 0
  BY PipelineFinite, FS_EmptySet
<1> QED BY <1>2, <1>3, PipelineFinite, VerifierAssumption DEF SlotsAreReturned, Pipeline, TypeOK

LEMMA SlotsAlone ==
  ASSUME SlotsAreReturned, semaphore_' = semaphore_,
         \A w \in Workers : InPipeline(w)' <=> InPipeline(w)
  PROVE  SlotsAreReturned'
<1>1. {w \in Workers : InPipeline(w)}' = {w \in Workers : InPipeline(w)}
  OBVIOUS
<1> QED BY <1>1 DEF SlotsAreReturned

-----------------------------------------------------------------------------
LEMMA InitHolds == Init => IInv
<1> SUFFICES ASSUME Init PROVE IInv
  OBVIOUS
<1>1. task_queue_ = <<>> /\ DOMAIN task_queue_ = {} /\ task_queue_ \in Seq(Calls)
  BY DEF Init
<1>2. TypeOK
  <2>1. call \in CallType
    BY DEF Init, CallSteps, CallType
  <2>2. worker \in WorkerType
    BY DEF Init, WorkerSteps, WorkerType, WorkerRecord
  <2>3. semaphore_ \in 0..Slots
    BY VerifierAssumption DEF Init
  <2> QED BY <1>1, <2>1, <2>2, <2>3 DEF Init, TypeOK, CallType, WorkerType, WorkerRecord
<1>3. SlotsAreReturned
  <2>1. {w \in Workers : InPipeline(w)} = {}
    BY DEF Init, InPipeline
  <2>2. semaphore_ = Slots /\ Slots + 0 = Slots
    BY VerifierAssumption DEF Init
  <2> QED BY <2>1, <2>2, FS_EmptySet DEF SlotsAreReturned
<1>4. Attached /\ Asked /\ Pushed /\ Ended /\ TaskInOnePlace /\ QueueIsAttended /\ PendingIsWorkedOn
  BY <1>1, VerifierAssumption
  DEF Init, Attached, Asked, Pushed, Ended, TaskInOnePlace, QueueIsAttended, PendingIsWorkedOn,
      Queued, Held, Idle
<1> QED BY <1>2, <1>3, <1>4 DEF IInv

-----------------------------------------------------------------------------
(***************************************************************************)
(* Steps that move one caller, or one worker, and leave the tasks where    *)
(* they are.                                                               *)
(***************************************************************************)
\* No call and no worker moves; nothing becomes PENDING.
LEMMA OutsideKeeps ==
  ASSUME IInv, UNCHANGED <<queue, semaphore_, call, called, worker>>, TypeOK',
         \A c \in Contents : state_'[c] = "PENDING" => state_[c] = "PENDING"
  PROVE  IInv'
<1> USE DEF IInv, queue
<1>1. SlotsAreReturned'
  BY SlotsAlone DEF InPipeline
<1>2. Attached' /\ Asked' /\ Pushed' /\ Ended' /\ TaskInOnePlace' /\ QueueIsAttended'
  BY DEF Attached, Asked, Pushed, Ended, TaskInOnePlace, QueueIsAttended, Queued, Held
<1>3. PendingIsWorkedOn'
  BY DEF PendingIsWorkedOn, Queued, Content
<1> QED BY <1>1, <1>2, <1>3

\* A caller moves, other than to push or to notify.
LEMMA CallerKeeps ==
  ASSUME IInv, UNCHANGED <<queue, engine, called, worker>>, TypeOK', NEW k \in Calls,
         \A m \in Calls \ {k} : call'[m] = call[m],
         call[k].pc \notin {"push", "notify", "done"},
         call[k].pc = "unmade" => ~stop_,
         call'[k].pc \notin {"unmade", "notify", "wait"},
         call[k].pc = "wait" => call'[k].pc = "done",
         call'[k].content \in Contents,
         call[k].pc # "unmade" => call'[k].content = call[k].content,
         \A c \in Contents : state_'[c] = "PENDING" =>
           state_[c] = "PENDING" \/ (call'[k].pc = "push" /\ call'[k].content = c)
  PROVE  IInv'
<1> USE DEF IInv, queue, engine
<1>1. SlotsAreReturned'
  BY SlotsAlone DEF InPipeline
<1>2. Queued(k) \/ Held(k) \/ k \in called => call[k].pc = "wait"
  BY DEF Pushed
<1>3. ~stop_
  BY DEF Ended
<1>4. Attached' /\ Asked' /\ Ended'
  BY <1>3 DEF Attached, Asked, Ended
<1>5. Pushed'
  BY <1>2 DEF Pushed, Queued, Held
<1>6. TaskInOnePlace'
  BY DEF TaskInOnePlace, Queued, Held
<1>7. QueueIsAttended'
  BY DEF QueueIsAttended
<1>8. PendingIsWorkedOn'
  <2> SUFFICES ASSUME NEW c \in Contents, state_'[c] = "PENDING",
                      ~(call'[k].pc = "push" /\ call'[k].content = c)
               PROVE  \/ \E m \in Calls : call'[m].content = c /\ (call'[m].pc = "push" \/ Queued(m))
                      \/ \E w \in Workers : worker[w].task # NoCall /\ call'[worker[w].task].content = c
                                            /\ worker[w].pc # "callback"
    BY DEF PendingIsWorkedOn, Queued, Content
  <2>1. state_[c] = "PENDING"
    OBVIOUS
  <2>2. CASE \E m \in Calls : call[m].content = c /\ (call[m].pc = "push" \/ Queued(m))
    BY <1>2, <2>2
  <2>3. CASE \E w \in Workers : worker[w].task # NoCall /\ call[worker[w].task].content = c
                                /\ worker[w].pc # "callback"
    <3>1. PICK w \in Workers : worker[w].task # NoCall /\ call[worker[w].task].content = c
                               /\ worker[w].pc # "callback"
      BY <2>3
    <3>2. worker[w].task \in Calls /\ Held(worker[w].task)
      BY <3>1 DEF TypeOK, Held
    <3>3. call'[worker[w].task].content = c
      BY <1>2, <3>1, <3>2
    <3> QED BY <3>1, <3>3
  <2> QED BY <2>1, <2>2, <2>3 DEF PendingIsWorkedOn, Content
<1> QED BY <1>1, <1>4, <1>5, <1>6, <1>7, <1>8

\* A worker moves and keeps its task, and does not write its result.
LEMMA WorkerKeeps ==
  ASSUME IInv, UNCHANGED <<table, queue, call, called>>, TypeOK', SlotsAreReturned',
         NEW w \in Workers,
         \A v \in Workers \ {w} : worker'[v] = worker[v],
         worker'[w].task = worker[w].task,
         worker'[w].pc \in Idle <=> worker[w].pc \in Idle,
         worker'[w].pc # "callback",
         worker'[w].pc \in {"asleep", "gone"} => task_queue_ = <<>>,
         worker'[w].pc = "gone" => stop_,
         worker'[w].pc = "fallback" => worker'[w].session \in Engines
  PROVE  IInv'
<1> USE DEF IInv, queue, table
<1>1. Attached' /\ Asked' /\ Ended'
  BY DEF Attached, Asked, Ended
<1>2. \A v \in Workers : worker'[v].task = worker[v].task
  OBVIOUS
<1>3. \A m : Held(m)' <=> Held(m)
  BY <1>2 DEF Held
<1>4. Pushed' /\ TaskInOnePlace'
  BY <1>2, <1>3 DEF Pushed, TaskInOnePlace, Queued
<1>5. QueueIsAttended'
  BY DEF QueueIsAttended
<1>6. PendingIsWorkedOn'
  BY <1>2 DEF PendingIsWorkedOn, Queued, Content
<1> QED BY <1>1, <1>4, <1>5, <1>6

-----------------------------------------------------------------------------
LEMMA PushKeeps ==
  ASSUME IInv, NEW k \in Calls, Push(k)
  PROVE  IInv'
<1> USE DEF IInv
<1>1. /\ call[k].pc = "push" /\ call'[k].pc = "notify" /\ call'[k].content = call[k].content
      /\ \A m \in Calls \ {k} : call'[m] = call[m]
      /\ call' \in CallType
      /\ \A m \in Calls : call'[m].content = call[m].content
      /\ task_queue_' = Append(task_queue_, k)
      /\ UNCHANGED <<state_, aged, stop_, semaphore_, ace_host_, called, worker, streaming>>
  BY DEF Push, Goes, TypeOK, CallType, WorkerType, WorkerRecord, CallSteps, table, engine
<1>2. /\ task_queue_' \in Seq(Calls) /\ task_queue_' # <<>>
      /\ \A m : Queued(m)' <=> Queued(m) \/ m = k
  <2>1. task_queue_ \in Seq(Calls)
    BY DEF TypeOK, CallType, WorkerType, WorkerRecord
  <2>2. /\ Append(task_queue_, k) \in Seq(Calls) /\ Append(task_queue_, k) # <<>>
        /\ \A m : OnQueue(Append(task_queue_, k), m) <=> OnQueue(task_queue_, m) \/ m = k
    BY <2>1, AppendAdds
  <2>3. \A m : (Queued(m) <=> OnQueue(task_queue_, m)) /\ (Queued(m)' <=> OnQueue(task_queue_', m))
    BY DEF Queued, OnQueue
  <2> QED BY <1>1, <2>2, <2>3
<1>3. TypeOK'
  BY <1>1, <1>2 DEF TypeOK, CallType, WorkerType, WorkerRecord
<1>4. SlotsAreReturned'
  BY <1>1, SlotsAlone DEF InPipeline
<1>5. ~Queued(k) /\ ~Held(k) /\ k \notin called /\ ~stop_
  BY <1>1 DEF Pushed, Ended
<1>6. Attached' /\ Asked' /\ Ended'
  BY <1>1, <1>5 DEF Attached, Asked, Ended
<1>7. \A m : Held(m)' <=> Held(m)
  BY <1>1 DEF Held
<1>8. Pushed'
  BY <1>1, <1>2, <1>7 DEF Pushed
<1>9. TaskInOnePlace'
  <2>1. Distinct(task_queue_')
    BY <1>1, <1>5, AppendAdds DEF TypeOK, CallType, WorkerType, WorkerRecord, TaskInOnePlace, Distinct, Queued, OnQueue
  <2> QED BY <1>1, <1>2, <1>5, <1>7, <2>1 DEF TaskInOnePlace, Distinct
<1>10. QueueIsAttended'
  BY <1>1 DEF QueueIsAttended
<1>11. PendingIsWorkedOn'
  <2> SUFFICES ASSUME NEW c \in Contents, state_[c] = "PENDING"
               PROVE  \/ \E m \in Calls : call'[m].content = c /\ (call'[m].pc = "push" \/ Queued(m)')
                      \/ \E w \in Workers : worker[w].task # NoCall /\ call'[worker[w].task].content = c
                                            /\ worker[w].pc # "callback"
    BY <1>1 DEF PendingIsWorkedOn, Content
  <2>1. \A w \in Workers : worker[w].task # NoCall => worker[w].task \in Calls
    BY DEF TypeOK, CallType, WorkerType, WorkerRecord
  <2> QED BY <1>1, <1>2, <2>1 DEF PendingIsWorkedOn, Content
<1> QED BY <1>3, <1>4, <1>6, <1>8, <1>9, <1>10, <1>11

\* Whoever is woken, or not, somebody is there for the queue.
LEMMA NotifyKeeps ==
  ASSUME IInv, NEW k \in Calls, Notify(k)
  PROVE  IInv'
<1> USE DEF IInv
<1>1. /\ call[k].pc = "notify" /\ call'[k].pc \in {"wait", "done"}
      /\ \A m \in Calls : m # k => call'[m] = call[m]
      /\ \A m \in Calls : call'[m].content = call[m].content
      /\ call' \in CallType
      /\ UNCHANGED <<state_, aged, task_queue_, stop_, semaphore_, ace_host_, called, streaming>>
  BY DEF Notify, Goes, TypeOK, CallType, WorkerType, WorkerRecord, CallSteps, table, engine, queue
<1>2. ~stop_ /\ \A w \in Workers : worker[w].pc # "gone"
  BY <1>1 DEF Ended
<1>3. /\ worker' \in WorkerType
      /\ \A w \in Workers : worker'[w].task = worker[w].task
      /\ \A w \in Workers : worker'[w] = worker[w]
                            \/ (worker[w].pc = "asleep" /\ worker'[w].pc = "look")
  <2>1. CASE worker' = worker
    <3>1. worker \in WorkerType
      BY DEF TypeOK, CallType, WorkerType, WorkerRecord
    <3> QED BY <2>1, <3>1
  <2>2. CASE \E w \in Workers : worker[w].pc = "asleep" /\ worker' = [worker EXCEPT ![w].pc = "look"]
    <3>1. PICK w \in Workers : worker[w].pc = "asleep" /\ worker' = [worker EXCEPT ![w].pc = "look"]
      BY <2>2
    <3>2. worker' \in WorkerType
      BY <3>1 DEF TypeOK, CallType, WorkerType, WorkerRecord, WorkerSteps
    <3>3. \A v \in Workers : v # w => worker'[v] = worker[v]
      BY <3>1 DEF TypeOK, CallType, WorkerType, WorkerRecord
    <3>4. worker'[w].pc = "look" /\ worker'[w].task = worker[w].task
      BY <3>1 DEF TypeOK, CallType, WorkerType, WorkerRecord
    <3> QED BY <3>1, <3>2, <3>3, <3>4
  <2> QED BY <2>1, <2>2 DEF Notify, NotifyOne
<1>4. \E w \in Workers : worker'[w].pc \notin {"asleep", "gone"}
  <2>1. CASE \E w \in Workers : worker[w].pc = "asleep" /\ worker' = [worker EXCEPT ![w].pc = "look"]
    BY <2>1 DEF TypeOK, CallType, WorkerType, WorkerRecord
  <2>2. CASE worker' = worker /\ \E w \in Workers : worker[w].pc = "paused"
    BY <2>2
  <2>3. CASE worker' = worker /\ \A w \in Workers : worker[w].pc # "asleep"
    BY <1>2, <2>3, VerifierAssumption
  <2> QED BY <2>1, <2>2, <2>3 DEF Notify, NotifyOne
<1>5. TypeOK'
  BY <1>1, <1>3 DEF TypeOK, CallType, WorkerType, WorkerRecord
<1>6. SlotsAreReturned'
  BY <1>1, <1>3, SlotsAlone DEF InPipeline
<1>7. Attached' /\ Asked' /\ Ended'
  BY <1>1, <1>2, <1>3 DEF Attached, Asked, Ended, Idle
<1>8. \A m : (Held(m)' <=> Held(m)) /\ (Queued(m)' <=> Queued(m))
  BY <1>1, <1>3 DEF Held, Queued
<1>9. Pushed'
  BY <1>1, <1>8 DEF Pushed
<1>10. TaskInOnePlace'
  BY <1>1, <1>3, <1>8 DEF TaskInOnePlace
<1>11. QueueIsAttended'
  BY <1>4 DEF QueueIsAttended
<1>12. PendingIsWorkedOn'
  <2>1. \A w \in Workers : worker[w].task # NoCall => worker[w].task \in Calls
    BY DEF TypeOK, CallType, WorkerType, WorkerRecord
  <2>2. \A m \in Calls : call[m].pc = "push" => call'[m].pc = "push"
    BY <1>1
  <2>3. \A w \in Workers : worker[w].pc # "callback" => worker'[w].pc # "callback"
    BY <1>3
  <2> QED BY <1>1, <1>3, <1>8, <2>1, <2>2, <2>3 DEF PendingIsWorkedOn, Content
<1> QED BY <1>5, <1>6, <1>7, <1>9, <1>10, <1>11, <1>12

LEMMA TakeKeeps ==
  ASSUME IInv, NEW w \in Workers, Take(w)
  PROVE  IInv'
<1> USE DEF IInv
<1>0. PICK k \in Calls : k = Head(task_queue_)
  BY TailRemoves DEF Take, TypeOK, CallType, WorkerType, WorkerRecord
<1>1. /\ k \in Calls /\ task_queue_' \in Seq(Calls)
      /\ \A m : Queued(m) <=> Queued(m)' \/ m = k
      /\ Distinct(task_queue_)
      /\ Distinct(task_queue_') /\ ~Queued(k)'
  <2>1. task_queue_ \in Seq(Calls) /\ task_queue_ # <<>> /\ task_queue_' = Tail(task_queue_)
    BY DEF Take, TypeOK, CallType, WorkerType, WorkerRecord
  <2>2. Distinct(task_queue_)
    BY DEF TaskInOnePlace, Distinct
  <2>3. /\ Tail(task_queue_) \in Seq(Calls) /\ k \in Calls
        /\ \A m : OnQueue(task_queue_, m) <=> OnQueue(Tail(task_queue_), m) \/ m = k
        /\ Distinct(Tail(task_queue_)) /\ ~OnQueue(Tail(task_queue_), k)
    BY <1>0, <2>1, <2>2, TailRemoves
  <2>4. \A m : (Queued(m) <=> OnQueue(task_queue_, m)) /\ (Queued(m)' <=> OnQueue(task_queue_', m))
    BY DEF Queued, OnQueue
  <2> QED BY <2>1, <2>2, <2>3, <2>4
<1>2. /\ worker[w].pc = "look" /\ worker'[w].pc = "taken" /\ worker'[w].task = k
      /\ \A v \in Workers \ {w} : worker'[v] = worker[v]
      /\ worker' \in WorkerType
      /\ UNCHANGED <<state_, aged, stop_, semaphore_, ace_host_, call, called, streaming>>
  <2>1. worker' \in WorkerType
    <3>1. worker \in WorkerType /\ "taken" \in WorkerSteps
      BY DEF TypeOK, WorkerType, WorkerRecord, WorkerSteps
    <3> QED BY <1>0, <3>1, WorkerMoves DEF Take
  <2>2. worker[w].pc = "look" /\ worker'[w].pc = "taken" /\ worker'[w].task = k
    BY <1>0 DEF Take, TypeOK
  <2>3. \A v \in Workers \ {w} : worker'[v] = worker[v]
    BY DEF Take, TypeOK
  <2> QED BY <2>1, <2>2, <2>3 DEF Take, table, engine
<1>3. TypeOK'
  BY <1>1, <1>2 DEF TypeOK, CallType, WorkerType, WorkerRecord
<1>4. SlotsAreReturned'
  BY <1>2, SlotsAlone DEF InPipeline
<1>5. k # NoCall /\ worker[w].task = NoCall
  BY <1>1, <1>2, VerifierAssumption DEF Attached, Idle
<1>6. Attached' /\ Asked' /\ Ended'
  BY <1>2, <1>5 DEF Attached, Asked, Ended, Idle
<1>7. \A m \in Calls : Held(m)' <=> Held(m) \/ m = k
  BY <1>2, <1>5, VerifierAssumption DEF Held
<1>8. ~Held(k) /\ k \notin called
  BY <1>1 DEF TaskInOnePlace
<1>9. Pushed'
  BY <1>1, <1>2, <1>7 DEF Pushed
<1>10. TaskInOnePlace'
  <2>1. \A u, v \in Workers : worker'[u].task = worker'[v].task => u = v \/ worker'[u].task = NoCall
    BY <1>2, <1>8 DEF TaskInOnePlace, Held
  <2>2. \A m \in Calls : /\ ~(Queued(m)' /\ Held(m)')
                         /\ m \in called => ~Queued(m)' /\ ~Held(m)'
                         /\ call[m].pc \in {"notify", "wait"} => Queued(m)' \/ Held(m)' \/ m \in called
    <3>1. \A m \in Calls : /\ ~(Queued(m) /\ Held(m))
                           /\ m \in called => ~Queued(m) /\ ~Held(m)
                           /\ call[m].pc \in {"notify", "wait"} => Queued(m) \/ Held(m) \/ m \in called
      BY DEF TaskInOnePlace
    <3> QED BY <1>1, <1>7, <1>8, <3>1
  <2> QED BY <1>1, <1>2, <2>1, <2>2 DEF TaskInOnePlace, Distinct
<1>11. QueueIsAttended'
  BY <1>2 DEF QueueIsAttended
<1>12. PendingIsWorkedOn'
  <2> SUFFICES ASSUME NEW c \in Contents, state_[c] = "PENDING"
               PROVE  \/ \E m \in Calls : call[m].content = c /\ (call[m].pc = "push" \/ Queued(m)')
                      \/ \E v \in Workers : worker'[v].task # NoCall /\ call[worker'[v].task].content = c
                                            /\ worker'[v].pc # "callback"
    BY <1>2 DEF PendingIsWorkedOn, Content
  <2>1. CASE \E m \in Calls : call[m].content = c /\ (call[m].pc = "push" \/ Queued(m))
    BY <1>1, <1>2, <1>5, <2>1
  <2>2. CASE \E v \in Workers : worker[v].task # NoCall /\ call[worker[v].task].content = c
                                /\ worker[v].pc # "callback"
    BY <1>2, <1>5, <2>2
  <2> QED BY <2>1, <2>2 DEF PendingIsWorkedOn, Content
<1> QED BY <1>3, <1>4, <1>6, <1>9, <1>10, <1>11, <1>12

LEMMA PutBackKeeps ==
  ASSUME IInv, NEW w \in Workers, PutBack(w)
  PROVE  IInv'
<1> USE DEF IInv
<1> DEFINE k == worker[w].task
<1>1. k \in Calls /\ k # NoCall /\ Held(k) /\ worker[w].pc = "return"
  BY DEF PutBack, Attached, Idle, TypeOK, CallType, WorkerType, WorkerRecord, Held
<1>2. ~Queued(k) /\ k \notin called
  BY <1>1 DEF TaskInOnePlace
<1>3. /\ task_queue_' \in Seq(Calls)
      /\ \A m : Queued(m)' <=> Queued(m) \/ m = k
      /\ Distinct(task_queue_')
  <2>1. task_queue_' = Append(task_queue_, k) /\ Distinct(task_queue_) /\ ~OnQueue(task_queue_, k)
    BY <1>2 DEF PutBack, TaskInOnePlace, Distinct, OnQueue, Queued
  <2>2. task_queue_ \in Seq(Calls)
    BY DEF TypeOK, CallType, WorkerType, WorkerRecord
  <2>3. /\ Append(task_queue_, k) \in Seq(Calls) /\ Distinct(Append(task_queue_, k))
        /\ \A m : OnQueue(Append(task_queue_, k), m) <=> OnQueue(task_queue_, m) \/ m = k
    BY <1>1, <2>1, <2>2, AppendAdds
  <2>4. \A m : (Queued(m) <=> OnQueue(task_queue_, m)) /\ (Queued(m)' <=> OnQueue(task_queue_', m))
    BY DEF Queued, OnQueue
  <2> QED BY <2>1, <2>3, <2>4
<1>4. /\ worker'[w].pc = "paused" /\ worker'[w].task = NoCall
      /\ \A v \in Workers \ {w} : worker'[v] = worker[v]
      /\ worker' \in WorkerType
      /\ UNCHANGED <<state_, aged, stop_, semaphore_, ace_host_, call, called, streaming>>
  <2>1. worker' \in WorkerType
    <3>1. worker \in WorkerType /\ "paused" \in WorkerSteps
      BY DEF TypeOK, WorkerType, WorkerRecord, WorkerSteps
    <3> QED BY <3>1, WorkerMoves DEF PutBack
  <2>2. worker'[w].pc = "paused" /\ worker'[w].task = NoCall
    BY DEF PutBack, TypeOK
  <2>3. \A v \in Workers \ {w} : worker'[v] = worker[v]
    BY DEF PutBack, TypeOK
  <2> QED BY <2>1, <2>2, <2>3 DEF PutBack, table, engine
<1>5. TypeOK'
  BY <1>3, <1>4 DEF TypeOK, CallType, WorkerType, WorkerRecord
<1>6. SlotsAreReturned'
  BY <1>1, <1>4, SlotsAlone DEF InPipeline
<1>7. Attached' /\ Asked' /\ Ended'
  BY <1>4 DEF Attached, Asked, Ended, Idle
<1>8. \A m \in Calls : Held(m)' <=> Held(m) /\ m # k
  <2>1. \A v \in Workers : worker[v].task = k => v = w
    BY <1>1 DEF TaskInOnePlace
  <2> QED BY <1>1, <1>4, <2>1, VerifierAssumption DEF Held
<1>9. Pushed'
  BY <1>1, <1>3, <1>4, <1>8 DEF Pushed
<1>10. TaskInOnePlace'
  <2>1. \A u, v \in Workers : worker'[u].task = worker'[v].task => u = v \/ worker'[u].task = NoCall
    BY <1>4 DEF TaskInOnePlace
  <2>2. \A m \in Calls : /\ ~(Queued(m)' /\ Held(m)')
                         /\ m \in called => ~Queued(m)' /\ ~Held(m)'
                         /\ call[m].pc \in {"notify", "wait"} => Queued(m)' \/ Held(m)' \/ m \in called
    BY <1>2, <1>3, <1>8 DEF TaskInOnePlace
  <2> QED BY <1>3, <1>4, <2>1, <2>2 DEF TaskInOnePlace, Distinct
<1>11. QueueIsAttended'
  BY <1>4 DEF QueueIsAttended
<1>12. PendingIsWorkedOn'
  <2> SUFFICES ASSUME NEW c \in Contents, state_[c] = "PENDING"
               PROVE  \/ \E m \in Calls : call[m].content = c /\ (call[m].pc = "push" \/ Queued(m)')
                      \/ \E v \in Workers : worker'[v].task # NoCall /\ call[worker'[v].task].content = c
                                            /\ worker'[v].pc # "callback"
    BY <1>4 DEF PendingIsWorkedOn, Content
  <2>1. CASE \E m \in Calls : call[m].content = c /\ (call[m].pc = "push" \/ Queued(m))
    BY <1>3, <2>1
  <2>2. CASE \E v \in Workers : worker[v].task # NoCall /\ call[worker[v].task].content = c
                                /\ worker[v].pc # "callback"
    <3>1. PICK v \in Workers : worker[v].task # NoCall /\ call[worker[v].task].content = c
                               /\ worker[v].pc # "callback"
      BY <2>2
    <3>2. CASE v = w
      BY <1>1, <1>3, <3>1, <3>2
    <3>3. CASE v # w
      BY <1>4, <3>1, <3>3
    <3> QED BY <3>2, <3>3
  <2> QED BY <2>1, <2>2 DEF PendingIsWorkedOn, Content
<1> QED BY <1>5, <1>6, <1>7, <1>9, <1>10, <1>11, <1>12

\* The result is written, so that the content is no longer PENDING.
LEMMA PublishKeeps ==
  ASSUME IInv, NEW w \in Workers, Publish(w)
  PROVE  IInv'
<1> USE DEF IInv
<1>1. /\ worker[w].pc = "publish" /\ worker'[w].pc = "callback" /\ worker'[w].task = worker[w].task
      /\ \A v \in Workers \ {w} : worker'[v] = worker[v]
      /\ \A v \in Workers : worker'[v].task = worker[v].task
      /\ worker' \in WorkerType
      /\ state_' = [state_ EXCEPT ![Content(w)] = "KNOWN"] /\ aged' \subseteq aged
      /\ UNCHANGED <<task_queue_, stop_, semaphore_, ace_host_, call, called, streaming>>
  BY DEF Publish, Moves, Know, TypeOK, CallType, WorkerType, WorkerRecord, WorkerSteps, queue, engine
<1>2. TypeOK'
  BY <1>1 DEF TypeOK, CallType, WorkerType, WorkerRecord
<1>3. SlotsAreReturned'
  BY <1>1, SlotsAlone DEF InPipeline
<1>4. Attached' /\ Asked' /\ Ended'
  BY <1>1 DEF Attached, Asked, Ended, Idle
<1>5. \A m : (Held(m)' <=> Held(m)) /\ (Queued(m)' <=> Queued(m))
  BY <1>1 DEF Held, Queued
<1>6. Pushed' /\ TaskInOnePlace'
  BY <1>1, <1>5 DEF Pushed, TaskInOnePlace
<1>7. QueueIsAttended'
  BY <1>1 DEF QueueIsAttended
<1>8. PendingIsWorkedOn'
  <2>1. \A c \in Contents : state_'[c] = "PENDING" => state_[c] = "PENDING" /\ c # Content(w)
    BY <1>1 DEF TypeOK, CallType, WorkerType, WorkerRecord
  <2> QED BY <1>1, <1>5, <2>1 DEF PendingIsWorkedOn, Content
<1> QED BY <1>2, <1>3, <1>4, <1>6, <1>7, <1>8

LEMMA CallbackKeeps ==
  ASSUME IInv, NEW w \in Workers, Callback(w)
  PROVE  IInv'
<1> USE DEF IInv
<1> DEFINE k == worker[w].task
<1>1. k \in Calls /\ k # NoCall /\ Held(k) /\ worker[w].pc = "callback"
  BY DEF Callback, Attached, Idle, TypeOK, CallType, WorkerType, WorkerRecord, Held
<1>2. ~Queued(k) /\ k \notin called
  BY <1>1 DEF TaskInOnePlace
<1>3. /\ worker'[w].pc = "look" /\ worker'[w].task = NoCall
      /\ \A v \in Workers \ {w} : worker'[v] = worker[v]
      /\ worker' \in WorkerType
      /\ called' = called \cup {k}
      /\ UNCHANGED <<state_, aged, task_queue_, stop_, semaphore_, ace_host_, call, streaming>>
  <2>1. worker' \in WorkerType
    <3>1. worker \in WorkerType /\ "look" \in WorkerSteps
      BY DEF TypeOK, WorkerType, WorkerRecord, WorkerSteps
    <3> QED BY <3>1, WorkerMoves DEF Callback
  <2>2. worker'[w].pc = "look" /\ worker'[w].task = NoCall
    BY DEF Callback, TypeOK
  <2>3. \A v \in Workers \ {w} : worker'[v] = worker[v]
    BY DEF Callback, TypeOK
  <2> QED BY <2>1, <2>2, <2>3 DEF Callback, table, engine, queue
<1>4. TypeOK'
  BY <1>1, <1>3 DEF TypeOK, CallType, WorkerType, WorkerRecord
<1>5. SlotsAreReturned'
  BY <1>1, <1>3, SlotsAlone DEF InPipeline
<1>6. Attached' /\ Asked' /\ Ended'
  BY <1>3 DEF Attached, Asked, Ended, Idle
<1>7. (\A m \in Calls : Held(m)' <=> Held(m) /\ m # k) /\ \A m : Queued(m)' <=> Queued(m)
  <2>1. \A v \in Workers : worker[v].task = k => v = w
    BY <1>1 DEF TaskInOnePlace
  <2> QED BY <1>1, <1>3, <2>1, VerifierAssumption DEF Held, Queued
<1>8. Pushed'
  BY <1>1, <1>3, <1>7 DEF Pushed
<1>9. TaskInOnePlace'
  <2>1. \A u, v \in Workers : worker'[u].task = worker'[v].task => u = v \/ worker'[u].task = NoCall
    BY <1>3 DEF TaskInOnePlace
  <2>2. \A m \in Calls : /\ ~(Queued(m)' /\ Held(m)')
                         /\ m \in called' => ~Queued(m)' /\ ~Held(m)'
                         /\ call[m].pc \in {"notify", "wait"} => Queued(m)' \/ Held(m)' \/ m \in called'
    BY <1>2, <1>3, <1>7 DEF TaskInOnePlace
  <2> QED BY <1>3, <2>1, <2>2 DEF TaskInOnePlace
<1>10. QueueIsAttended'
  BY <1>3 DEF QueueIsAttended
<1>11. PendingIsWorkedOn'
  <2>1. \A v \in Workers : worker[v].pc # "callback" => worker'[v] = worker[v]
    BY <1>1, <1>3
  <2> QED BY <1>3, <1>7, <2>1 DEF PendingIsWorkedOn, Content
<1> QED BY <1>4, <1>5, <1>6, <1>8, <1>9, <1>10, <1>11

LEMMA StopKeeps ==
  ASSUME IInv, Stop
  PROVE  IInv'
<1> USE DEF IInv
<1>1. /\ stop_' = TRUE /\ \A k \in Calls : call[k].pc \in {"unmade", "done"}
      /\ UNCHANGED <<state_, aged, task_queue_, semaphore_, ace_host_, call, called, streaming>>
      /\ worker' \in WorkerType
      /\ \A w \in Workers : worker'[w].task = worker[w].task
      /\ \A w \in Workers : worker'[w].pc = IF worker[w].pc = "asleep" THEN "look" ELSE worker[w].pc
      /\ \A w \in Workers : worker[w].pc # "asleep" => worker'[w] = worker[w]
  <2>1. worker' \in WorkerType
    <3>1. ASSUME NEW w \in Workers
          PROVE  (IF worker[w].pc = "asleep" THEN [worker[w] EXCEPT !.pc = "look"] ELSE worker[w]) \in WorkerRecord
      BY DEF TypeOK, WorkerRecord, WorkerSteps
    <3> QED BY <3>1 DEF Stop, WorkerType
  <2>2. \A w \in Workers : worker'[w] =
          IF worker[w].pc = "asleep" THEN [worker[w] EXCEPT !.pc = "look"] ELSE worker[w]
    BY DEF Stop
  <2>3. \A w \in Workers : worker'[w].task = worker[w].task
    BY <2>2 DEF TypeOK
  <2>4. \A w \in Workers : worker'[w].pc = IF worker[w].pc = "asleep" THEN "look" ELSE worker[w].pc
    BY <2>2 DEF TypeOK
  <2> QED BY <2>1, <2>2, <2>3, <2>4 DEF Stop, table, engine
<1>2. TypeOK'
  BY <1>1 DEF TypeOK, CallType, WorkerType, WorkerRecord
<1>3. SlotsAreReturned'
  BY <1>1, SlotsAlone DEF InPipeline
<1>4. Attached' /\ Asked' /\ Ended'
  BY <1>1 DEF Attached, Asked, Ended, Idle
<1>5. \A m : (Held(m)' <=> Held(m)) /\ (Queued(m)' <=> Queued(m))
  BY <1>1 DEF Held, Queued
<1>6. Pushed' /\ TaskInOnePlace'
  BY <1>1, <1>5 DEF Pushed, TaskInOnePlace
<1>7. QueueIsAttended'
  BY <1>1, VerifierAssumption DEF QueueIsAttended, Ended, Stop
<1>8. PendingIsWorkedOn'
  BY <1>1, <1>5 DEF PendingIsWorkedOn, Content
<1> QED BY <1>2, <1>3, <1>4, <1>6, <1>7, <1>8
-----------------------------------------------------------------------------
LEMMA CallerStepKeeps ==
  ASSUME IInv, NEW k \in Calls, Caller(k)
  PROVE  IInv'
<1> USE DEF IInv
<1> DEFINE c == call[k].content
<1>1. call[k].pc # "unmade" => c \in Contents
  BY DEF Pushed
<1>2. ASSUME Goes(k, "done") \/ Goes(k, "push") \/ Goes(k, "await") \/ Goes(k, "write"),
             call[k].pc \notin {"unmade", "push", "notify", "done"},
             call[k].pc = "wait" => Goes(k, "done"),
             UNCHANGED <<queue, engine, called, worker, streaming>>,
             table' = table \/ Know(c) \/ (MarkPending(c) /\ Goes(k, "push"))
      PROVE  IInv'
  <2>1. /\ \A m \in Calls \ {k} : call'[m] = call[m]
        /\ call'[k].pc \in {"done", "push", "await", "write"} /\ call'[k].content = c
        /\ call[k].pc = "wait" => call'[k].pc = "done"
        /\ call' \in CallType
    BY <1>2 DEF Goes, TypeOK, CallType, CallSteps
  <2>2. /\ state_' \in [Contents -> {"UNKNOWN", "PENDING", "KNOWN"}] /\ aged' \subseteq aged
        /\ \A d \in Contents : state_'[d] = "PENDING" =>
             state_[d] = "PENDING" \/ (call'[k].pc = "push" /\ d = c)
    BY <1>2 DEF Know, MarkPending, Goes, TypeOK, table
  <2>3. TypeOK'
    BY <1>2, <2>1, <2>2 DEF TypeOK, CallType, queue, engine
  <2> QED BY <1>1, <1>2, <2>1, <2>2, <2>3, CallerKeeps
<1>3. CASE Join(k)
  BY <1>2, <1>3 DEF Join
<1>4. CASE Mark(k)
  BY <1>2, <1>4 DEF Mark
<1>5. CASE AwaitEnds(k)
  BY <1>2, <1>5 DEF AwaitEnds
<1>6. CASE AwaitTimesOut(k)
  BY <1>2, <1>6 DEF AwaitTimesOut
<1>7. CASE MarkUnlocked(k)
  BY <1>2, <1>7 DEF MarkUnlocked
<1>8. CASE Answered(k)
  BY <1>2, <1>8 DEF Answered
<1>9. CASE TimesOut(k)
  BY <1>2, <1>9 DEF TimesOut
<1> QED BY <1>3, <1>4, <1>5, <1>6, <1>7, <1>8, <1>9, PushKeeps, NotifyKeeps DEF Caller

LEMMA AskKeeps ==
  ASSUME IInv, NEW k \in Calls, NEW c \in Contents,
         AskCached(k, c) \/ \E force \in BOOLEAN : AskActive(k, c, force) \/ Ask(k, c, force)
  PROVE  IInv'
<1> USE DEF IInv
<1>1. PICK force \in BOOLEAN, pc \in {"done", "decide"} :
        /\ Starts(k, c, force, pc)
        /\ UNCHANGED <<queue, engine, called, worker, streaming>>
        /\ table' = table \/ Know(c)
  BY DEF AskCached, AskActive, Ask
<1>2. /\ ~stop_ /\ call[k].pc = "unmade"
      /\ \A m \in Calls \ {k} : call'[m] = call[m]
      /\ call'[k].pc \in {"done", "decide"} /\ call'[k].content = c
      /\ call' \in CallType
  BY <1>1 DEF Starts, TypeOK, CallType, CallSteps
<1>3. /\ state_' \in [Contents -> {"UNKNOWN", "PENDING", "KNOWN"}] /\ aged' \subseteq aged
      /\ \A d \in Contents : state_'[d] = "PENDING" => state_[d] = "PENDING"
  BY <1>1 DEF Know, TypeOK, table
<1>4. TypeOK'
  BY <1>1, <1>2, <1>3 DEF TypeOK, CallType, queue, engine
<1> QED BY <1>1, <1>2, <1>3, <1>4, CallerKeeps

LEMMA EnvironmentKeeps ==
  ASSUME IInv, Environment
  PROVE  IInv'
<1> USE DEF IInv
<1>1. ASSUME NEW c \in Contents, Age(c) PROVE IInv'
  <2>1. TypeOK'
    BY <1>1 DEF Age, TypeOK, queue, engine
  <2> QED BY <1>1, <2>1, OutsideKeeps DEF Age, engine
<1>2. ASSUME NEW c \in Contents, UpdateState(c) PROVE IInv'
  <2>1. TypeOK'
    BY <1>2 DEF UpdateState, Know, TypeOK, queue, engine
  <2>2. \A d \in Contents : state_'[d] = "PENDING" => state_[d] = "PENDING"
    BY <1>2 DEF UpdateState, Know, TypeOK
  <2> QED BY <1>2, <2>1, <2>2, OutsideKeeps DEF UpdateState, engine
<1>3. ASSUME NEW S, ClearState(S) PROVE IInv'
  <2>1. TypeOK'
    BY <1>3 DEF ClearState, TypeOK, queue, engine
  <2>2. \A d \in Contents : state_'[d] = "PENDING" => state_[d] = "PENDING"
    BY <1>3 DEF ClearState, TypeOK
  <2> QED BY <1>3, <2>1, <2>2, OutsideKeeps DEF ClearState, engine
<1>4. ASSUME NEW e \in Engines, SetEngine(e) PROVE IInv'
  <2>1. TypeOK'
    BY <1>4 DEF SetEngine, TypeOK, queue, table
  <2> QED BY <1>4, <2>1, OutsideKeeps DEF SetEngine, table
<1>5. CASE Watch \/ Unwatch
  <2>1. TypeOK'
    BY <1>5 DEF Watch, Unwatch, TypeOK, queue, table, engine
  <2> QED BY <1>5, <2>1, OutsideKeeps DEF Watch, Unwatch, table, engine
<1> QED BY <1>1, <1>2, <1>3, <1>4, <1>5, StopKeeps DEF Environment

-----------------------------------------------------------------------------
\* A worker between look and the semaphore, or gone: no slot is concerned.
LEMMA WorkerBeforeKeeps ==
  ASSUME IInv, NEW w \in Workers,
         \/ Sleep(w) \/ Pause(w) \/ PauseEnds(w) \/ Leave(w) \/ LookAgain(w)
         \/ Bypass(w) \/ NeedsEngine(w) \/ AcquireTimesOut(w)
  PROVE  IInv'
<1> USE DEF IInv
<1>1. PICK pc \in WorkerSteps :
        /\ Moves(w, pc) /\ UNCHANGED <<table, queue, engine, call, called, streaming>>
        /\ pc \notin {"connect", "fallback", "opened", "observe", "release", "callback"}
        /\ worker[w].pc \in {"look", "paused", "taken", "bypass", "acquire"}
        /\ pc \in Idle <=> worker[w].pc \in Idle
        /\ pc \in {"asleep", "gone"} => task_queue_ = <<>>
        /\ pc = "gone" => stop_
  BY DEF Sleep, Pause, PauseEnds, Leave, LookAgain, Bypass, NeedsEngine, AcquireTimesOut,
         WorkerSteps, Idle
<1>2. /\ worker' \in WorkerType
      /\ \A v \in Workers \ {w} : worker'[v] = worker[v]
      /\ worker'[w].pc = pc /\ worker'[w].task = worker[w].task
  BY <1>1 DEF Moves, TypeOK, WorkerType, WorkerRecord
<1>3. TypeOK'
  BY <1>1, <1>2 DEF TypeOK, WorkerType, WorkerRecord, table, queue, engine
<1>4. SlotsAreReturned'
  BY <1>1, <1>2, SlotsAlone DEF InPipeline, engine
<1> QED BY <1>1, <1>2, <1>3, <1>4, WorkerKeeps DEF Idle

\* A worker in the pipeline, which keeps its slot.
LEMMA PipelineKeeps ==
  ASSUME IInv, NEW w \in Workers,
         \/ Opens(w) \/ TriesFallback(w) \/ FallsBack(w) \/ HandshakeFails(w)
         \/ HandshakeThrows(w) \/ HandshakeReturns(w) \/ StopSession(w)
  PROVE  IInv'
<1> USE DEF IInv
<1>1. /\ worker[w].pc \in {"connect", "fallback", "opened", "observe"}
      /\ worker' \in WorkerType
      /\ \A v \in Workers \ {w} : worker'[v] = worker[v]
      /\ worker'[w].pc \in {"fallback", "opened", "observe", "release"}
      /\ worker'[w].task = worker[w].task
      /\ worker'[w].pc = "fallback" => worker'[w].session \in Engines
      /\ UNCHANGED <<table, queue, semaphore_, call, called, streaming>>
  <2>1. CASE Opens(w)
    BY <2>1 DEF Opens, Moves, TypeOK, WorkerType, WorkerRecord, WorkerSteps, engine
  <2>2. CASE TriesFallback(w)
    <3>1. StandIn(ace_host_) \in Engines
      BY VerifierAssumption DEF StandIn
    <3>2. worker' \in WorkerType
      <4>1. worker \in WorkerType /\ "fallback" \in WorkerSteps
        BY DEF TypeOK, WorkerType, WorkerRecord, WorkerSteps
      <4> QED BY <2>2, <3>1, <4>1, WorkerMoves DEF TriesFallback
    <3>3. worker'[w].pc = "fallback" /\ worker'[w].task = worker[w].task
          /\ worker'[w].session \in Engines
      BY <2>2, <3>1 DEF TriesFallback, TypeOK
    <3>4. \A v \in Workers \ {w} : worker'[v] = worker[v]
      BY <2>2 DEF TriesFallback, TypeOK
    <3> QED BY <2>2, <3>2, <3>3, <3>4 DEF TriesFallback, engine
  <2>3. CASE FallsBack(w)
    BY <2>3 DEF FallsBack, Moves, TypeOK, WorkerType, WorkerRecord, WorkerSteps
  <2>4. CASE HandshakeFails(w)
    <3>2. worker' \in WorkerType
      <4>1. worker \in WorkerType /\ "release" \in WorkerSteps
        BY DEF TypeOK, WorkerType, WorkerRecord, WorkerSteps
      <4> QED BY <2>4, <4>1, WorkerMoves DEF HandshakeFails
    <3>3. worker'[w].pc = "release" /\ worker'[w].task = worker[w].task
      BY <2>4 DEF HandshakeFails, TypeOK
    <3>4. \A v \in Workers \ {w} : worker'[v] = worker[v]
      BY <2>4 DEF HandshakeFails, TypeOK
    <3> QED BY <2>4, <3>2, <3>3, <3>4 DEF HandshakeFails, engine
  <2>5. CASE HandshakeThrows(w)
    BY <2>5 DEF HandshakeThrows, Moves, TypeOK, WorkerType, WorkerRecord, WorkerSteps, engine
  <2>6. CASE HandshakeReturns(w)
    <3>1. worker \in WorkerType /\ "observe" \in WorkerSteps /\ ace_host_ \in Engines
      BY DEF TypeOK, WorkerType, WorkerRecord, WorkerSteps
    <3>2. worker' \in WorkerType
      BY <2>6, <3>1, WorkerMoves DEF HandshakeReturns
    <3>3. worker'[w].pc = "observe" /\ worker'[w].task = worker[w].task
      BY <2>6 DEF HandshakeReturns, TypeOK
    <3>4. \A v \in Workers \ {w} : worker'[v] = worker[v]
      BY <2>6 DEF HandshakeReturns, TypeOK
    <3> QED BY <2>6, <3>2, <3>3, <3>4 DEF HandshakeReturns, engine
  <2>7. CASE StopSession(w)
    BY <2>7 DEF StopSession, Moves, TypeOK, WorkerType, WorkerRecord, WorkerSteps, engine
  <2> QED BY <2>1, <2>2, <2>3, <2>4, <2>5, <2>6, <2>7
<1>2. ace_host_' \in Engines
  <2>1. CASE ace_host_' = ace_host_
    BY <2>1 DEF TypeOK
  <2>2. CASE FallsBack(w)
    BY <2>2 DEF FallsBack, Asked
  <2> QED BY <2>1, <2>2
  DEF Opens, TriesFallback, HandshakeFails, HandshakeThrows, HandshakeReturns, StopSession, engine
<1>3. TypeOK'
  BY <1>1, <1>2 DEF TypeOK, WorkerType, WorkerRecord, table, queue
<1>4. SlotsAreReturned'
  BY <1>1, SlotsAlone DEF InPipeline
<1> QED BY <1>1, <1>3, <1>4, WorkerKeeps DEF Idle

\* A slot is taken, and given back.
LEMMA SlotKeeps ==
  ASSUME IInv, NEW w \in Workers, Acquire(w) \/ Release(w)
  PROVE  IInv'
<1> USE DEF IInv
<1>1. CASE Acquire(w)
  <2>1. /\ worker[w].pc = "acquire" /\ worker'[w].pc = "connect" /\ worker'[w].task = worker[w].task
        /\ worker' \in WorkerType
        /\ \A v \in Workers \ {w} : worker'[v] = worker[v]
        /\ semaphore_ > 0 /\ semaphore_' = semaphore_ - 1
        /\ UNCHANGED <<table, queue, ace_host_, call, called, streaming>>
    <3>1. worker' \in WorkerType
      <4>1. worker \in WorkerType /\ "connect" \in WorkerSteps /\ ace_host_ \in Engines
        BY DEF TypeOK, WorkerType, WorkerRecord, WorkerSteps
      <4> QED BY <1>1, <4>1, WorkerMoves DEF Acquire
    <3>2. worker[w].pc = "acquire" /\ worker'[w].pc = "connect" /\ worker'[w].task = worker[w].task
      BY <1>1 DEF Acquire, TypeOK
    <3>3. \A v \in Workers \ {w} : worker'[v] = worker[v]
      BY <1>1 DEF Acquire, TypeOK
    <3> QED BY <1>1, <3>1, <3>2, <3>3 DEF Acquire
  <2>2. w \notin Pipeline /\ Pipeline' = Pipeline \cup {w}
    BY <2>1 DEF Pipeline, InPipeline
  <2>3. SlotsAreReturned' /\ semaphore_' \in 0..Slots
    BY <2>1, <2>2, SlotTaken
  <2>4. TypeOK'
    BY <2>1, <2>3 DEF TypeOK, WorkerType, WorkerRecord, table, queue
  <2> QED BY <2>1, <2>3, <2>4, WorkerKeeps DEF Idle
<1>2. CASE Release(w)
  <2>1. /\ worker[w].pc = "release" /\ worker'[w].pc = "publish" /\ worker'[w].task = worker[w].task
        /\ worker' \in WorkerType
        /\ \A v \in Workers \ {w} : worker'[v] = worker[v]
        /\ semaphore_' = semaphore_ + 1
        /\ UNCHANGED <<table, queue, ace_host_, call, called, streaming>>
    <3>1. worker' \in WorkerType
      <4>1. worker \in WorkerType /\ "publish" \in WorkerSteps /\ ace_host_ \in Engines
        BY DEF TypeOK, WorkerType, WorkerRecord, WorkerSteps
      <4> QED BY <1>2, <4>1, WorkerMoves DEF Release
    <3>2. worker[w].pc = "release" /\ worker'[w].pc = "publish" /\ worker'[w].task = worker[w].task
      BY <1>2 DEF Release, TypeOK
    <3>3. \A v \in Workers \ {w} : worker'[v] = worker[v]
      BY <1>2 DEF Release, TypeOK
    <3> QED BY <1>2, <3>1, <3>2, <3>3 DEF Release
  <2>2. w \in Pipeline /\ Pipeline' = Pipeline \ {w}
    BY <2>1 DEF Pipeline, InPipeline
  <2>3. SlotsAreReturned' /\ semaphore_' \in 0..Slots
    BY <2>1, <2>2, SlotGivenBack
  <2>4. TypeOK'
    BY <2>1, <2>3 DEF TypeOK, WorkerType, WorkerRecord, table, queue
  <2> QED BY <2>1, <2>3, <2>4, WorkerKeeps DEF Idle
<1> QED BY <1>1, <1>2

LEMMA NextKeeps == IInv /\ [Next]_vars => IInv'
<1> SUFFICES ASSUME IInv, [Next]_vars PROVE IInv'
  OBVIOUS
<1>1. CASE UNCHANGED vars
  <2>1. TypeOK'
    BY <1>1 DEF IInv, TypeOK, vars, table, queue, engine
  <2> QED BY <1>1, <2>1, OutsideKeeps DEF vars, table, queue, engine
<1>2. ASSUME NEW w \in Workers, Worker(w) PROVE IInv'
  BY <1>2, WorkerBeforeKeeps, PipelineKeeps, SlotKeeps, TakeKeeps, PutBackKeeps, PublishKeeps,
     CallbackKeeps DEF Worker
<1> QED BY <1>1, <1>2, AskKeeps, CallerStepKeeps, EnvironmentKeeps DEF Next

-----------------------------------------------------------------------------
\* The inductive invariant of the verifier.
THEOREM Invariance == Spec => []IInv
<1> QED BY InitHolds, NextKeeps, PTL DEF Spec

\* The types: semaphore_ stays between 0 and its capacity.
THEOREM Typing == Spec => []TypeOK
<1>1. IInv => TypeOK
  BY DEF IInv
<1> QED BY <1>1, Invariance, PTL

\* Whatever is marked PENDING by verify_sync or enqueue is seen to by somebody.
THEOREM NothingIsPendingForNobody == Spec => []PendingIsWorkedOn
<1>1. IInv => PendingIsWorkedOn
  BY DEF IInv
<1> QED BY <1>1, Invariance, PTL

\* A task pushed on task_queue_ is neither lost nor carried out twice.
THEOREM EveryTaskIsInOnePlace == Spec => []TaskInOnePlace
<1>1. IInv => TaskInOnePlace
  BY DEF IInv
<1> QED BY <1>1, Invariance, PTL

\* Workers that idle and workers that pause share queue_cv_, and no task is overlooked.
THEOREM TheQueueIsAttended == Spec => []QueueIsAttended
<1>1. IInv => QueueIsAttended
  BY DEF IInv
<1> QED BY <1>1, Invariance, PTL

\* The slots of semaphore_ and the workers in run_pipeline always add up to its capacity.
THEOREM SlotsAddUp == Spec => []SlotsAreReturned
<1>1. IInv => SlotsAreReturned
  BY DEF IInv
<1> QED BY <1>1, Invariance, PTL

\* ~ChannelVerifier returns with nothing left on the queue.
THEOREM DestructionDrains == Spec => []DestroyedIsDrained
<1>1. IInv => DestroyedIsDrained
  <2> SUFFICES ASSUME IInv, \A w \in Workers : worker[w].pc = "gone", NEW k \in Calls
               PROVE  ~Queued(k) /\ ~Held(k)
    BY DEF DestroyedIsDrained
  <2>1. stop_ /\ \A m \in Calls : call[m].pc # "notify"
    BY VerifierAssumption DEF IInv, Ended
  <2>2. task_queue_ = <<>>
    BY <2>1 DEF IInv, QueueIsAttended
  <2>3. ~Held(k)
    BY VerifierAssumption DEF IInv, Attached, Idle, Held
  <2> QED BY <2>2, <2>3 DEF Queued
<1> QED BY <1>1, Invariance, PTL
=============================================================================
