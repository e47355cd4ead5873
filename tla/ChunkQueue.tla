------------------------------ MODULE ChunkQueue ------------------------------
(***************************************************************************)
(* The queue between a broadcast and one of its clients (broadcast.cpp,    *)
(* ChunkQueue): a mutex and two condition variables. Stream threads push,  *)
(* the client's handler pops, whoever ends the session closes. A push to a *)
(* full queue may first wait for space; then it drops the oldest chunks.   *)
(*                                                                         *)
(* One action is one stay in the critical section: a thread that waits on  *)
(* a condition variable leaves it, and comes back when it has been         *)
(* notified or when its time is up.                                        *)
(***************************************************************************)
EXTENDS Naturals, Sequences, FiniteSets

CONSTANTS
  Producers,    \* stream threads; two of them while a client migrates
  Consumers,    \* threads that pop
  Patient,      \* those that call pop, the others call pop_timeout
  Sizes,        \* sizes of the chunks that are pushed
  MaxChunks,    \* max_chunks_
  MaxBytes,     \* max_bytes_
  MaxPushes,    \* bound of the model: how many chunks are ever pushed
  NoChunk

ASSUME QueueAssumption ==
  /\ Producers \cap Consumers = {}
  /\ IsFiniteSet(Producers) /\ IsFiniteSet(Consumers)
  /\ Patient \subseteq Consumers
  /\ Sizes \subseteq Nat \ {0}
  /\ MaxChunks \in Nat \ {0, 1} /\ MaxBytes \in Nat \ {0} /\ MaxPushes \in Nat

Threads == Producers \cup Consumers
Chunks  == [id : 1..MaxPushes, size : Sizes]

ASSUME NoChunkAssumption == NoChunk \notin Chunks

VARIABLES
  chunks_, total_bytes_, closed_,
  cv_data_,     \* the consumers that wait for a chunk
  cv_space_,    \* the producers that wait for room
  notified,     \* threads taken off a condition variable that do not run yet
  pending,      \* the chunk of each producer that waits inside push
  pushed        \* how many chunks have been pushed

queue == <<chunks_, total_bytes_, closed_>>
vars  == <<queue, cv_data_, cv_space_, notified, pending, pushed>>

\* Types, the limit on the number of chunks, and that a producer that waits has
\* its chunk with it.
TypeOK ==
  /\ chunks_ \in Seq(Chunks) /\ Len(chunks_) <= MaxChunks
  /\ closed_ \in BOOLEAN
  /\ cv_data_ \in SUBSET Consumers
  /\ cv_space_ \in SUBSET Producers
  /\ notified \in SUBSET (Threads \ (cv_data_ \cup cv_space_))
  /\ pending \in [Producers -> Chunks \cup {NoChunk}]
  /\ \A p \in cv_space_ \cup (notified \cap Producers) : pending[p] # NoChunk
  /\ pushed \in 0..MaxPushes

Init ==
  /\ chunks_ = <<>> /\ total_bytes_ = 0 /\ closed_ = FALSE
  /\ cv_data_ = {} /\ cv_space_ = {} /\ notified = {}
  /\ pending = [p \in Producers |-> NoChunk]
  /\ pushed = 0

\* Not inside push or pop.
Outside(t) == t \notin cv_data_ \cup cv_space_ \cup notified

HasRoom(chunk) == Len(chunks_) < MaxChunks /\ total_bytes_ + chunk.size <= MaxBytes

-----------------------------------------------------------------------------
\* Mutant: a woken consumer is not followed by anybody.
WakeNobody(t) == cv_data_' = cv_data_ \ {t} /\ notified' = notified \ {t}

\* cv_data_.notify_one by thread t, which has stopped waiting itself.
WakeConsumer(t) ==
  LET waiting == cv_data_ \ {t} IN
  IF waiting = {}
  THEN cv_data_' = {} /\ notified' = notified \ {t}
  ELSE \E c \in waiting :
         cv_data_' = waiting \ {c} /\ notified' = (notified \ {t}) \cup {c}

\* cv_space_.notify_one by thread t, which has stopped waiting itself.
WakeProducer(t) ==
  IF cv_space_ = {}
  THEN UNCHANGED cv_space_ /\ notified' = notified \ {t}
  ELSE \E p \in cv_space_ :
         cv_space_' = cv_space_ \ {p} /\ notified' = (notified \ {t}) \cup {p}

\* What total_bytes_ is once the n oldest chunks are dropped.
BytesAfterDropping(n) ==
  LET after[k \in 0..n] == IF k = 0 THEN total_bytes_ ELSE after[k - 1] - chunks_[k].size
  IN after[n]

\* Mutant: chunks are dropped once there are more of them than max_chunks_.
MakesWayTooLate(n, chunk) ==
  LET room(k) == Len(chunks_) - k <= MaxChunks
                 /\ BytesAfterDropping(k) + chunk.size <= MaxBytes
  IN /\ n = Len(chunks_) \/ room(n)
     /\ \A k \in 0..(n - 1) : ~room(k)

\* The n oldest chunks are dropped for the new one: one by one, as long as
\* there is one and the new one does not fit.
MakesWay(n, chunk) ==
  LET room(k) == Len(chunks_) - k < MaxChunks
                 /\ BytesAfterDropping(k) + chunk.size <= MaxBytes
  IN /\ n = Len(chunks_) \/ room(n)
     /\ \A k \in 0..(n - 1) : ~room(k)

\* Mutant: what is dropped stays in the account.
AcceptKeepsAccount(p, chunk) ==
  /\ \E n \in 0..Len(chunks_) :
       /\ MakesWay(n, chunk)
       /\ chunks_' = Append(SubSeq(chunks_, n + 1, Len(chunks_)), chunk)
  /\ total_bytes_' = total_bytes_ + chunk.size
  /\ pending' = [pending EXCEPT ![p] = NoChunk]
  /\ cv_space_' = cv_space_ \ {p}
  /\ WakeConsumer(p)

\* The end of push: room is made and the chunk is appended.
Accept(p, chunk) ==
  /\ \E n \in 0..Len(chunks_) :
       /\ MakesWay(n, chunk)
       /\ chunks_' = Append(SubSeq(chunks_, n + 1, Len(chunks_)), chunk)
       /\ total_bytes_' = BytesAfterDropping(n) + chunk.size
  /\ pending' = [pending EXCEPT ![p] = NoChunk]
  /\ cv_space_' = cv_space_ \ {p}
  /\ WakeConsumer(p)

\* The end of a pop that succeeds.
TakeFront(c) ==
  /\ total_bytes_' = total_bytes_ - chunks_[1].size
  /\ chunks_' = Tail(chunks_)
  /\ cv_data_' = cv_data_ \ {c}
  /\ WakeProducer(c)

\* A thread leaves push or pop empty-handed.
GiveUp(t) ==
  /\ cv_data_' = cv_data_ \ {t} /\ cv_space_' = cv_space_ \ {t}
  /\ notified' = notified \ {t}
  /\ pending' = [p \in Producers |-> IF p = t THEN NoChunk ELSE pending[p]]
  /\ UNCHANGED queue

-----------------------------------------------------------------------------
\* push, which waits for room if its caller allows it; on a closed queue the
\* chunk is refused.
Push(p, size, mayWait) ==
  LET chunk == [id |-> pushed + 1, size |-> size] IN
  /\ Outside(p) /\ pushed < MaxPushes
  /\ pushed' = pushed + 1
  /\ UNCHANGED closed_
  /\ IF closed_ THEN GiveUp(p)
     ELSE IF ~HasRoom(chunk) /\ mayWait
     THEN /\ cv_space_' = cv_space_ \cup {p}
          /\ pending' = [pending EXCEPT ![p] = chunk]
          /\ UNCHANGED <<chunks_, total_bytes_, cv_data_, notified>>
     ELSE Accept(p, chunk)

\* A notified producer finds no room, and its time is not up.
PushWaitsOn(p) ==
  /\ p \in notified /\ ~closed_ /\ ~HasRoom(pending[p])
  /\ cv_space_' = cv_space_ \cup {p} /\ notified' = notified \ {p}
  /\ UNCHANGED <<queue, cv_data_, pending, pushed>>

\* The wait is over: closed, room, or no time left.
PushGoesOn(p) ==
  /\ p \in cv_space_ \cup notified
  /\ IF closed_ THEN GiveUp(p) ELSE Accept(p, pending[p])
  /\ UNCHANGED <<closed_, pushed>>

\* Mutant: an empty queue is waited on, closed or not.
PopIgnoresClosed(c) ==
  /\ Outside(c)
  /\ IF chunks_ # <<>> THEN TakeFront(c)
     ELSE /\ cv_data_' = cv_data_ \cup {c}
          /\ UNCHANGED <<chunks_, total_bytes_, cv_space_, notified>>
  /\ UNCHANGED <<closed_, pending, pushed>>

\* pop and pop_timeout; on a closed and empty queue they return at once.
Pop(c) ==
  /\ Outside(c)
  /\ IF chunks_ # <<>> THEN TakeFront(c)
     ELSE /\ ~closed_
          /\ cv_data_' = cv_data_ \cup {c}
          /\ UNCHANGED <<chunks_, total_bytes_, cv_space_, notified>>
  /\ UNCHANGED <<closed_, pending, pushed>>

\* A notified consumer finds the queue empty again.
PopWaitsOn(c) ==
  /\ c \in notified /\ ~closed_ /\ chunks_ = <<>>
  /\ cv_data_' = cv_data_ \cup {c} /\ notified' = notified \ {c}
  /\ UNCHANGED <<queue, cv_space_, pending, pushed>>

PopGoesOn(c) ==
  /\ c \in notified
  /\ chunks_ # <<>> \/ closed_
  /\ IF chunks_ # <<>> THEN TakeFront(c) /\ UNCHANGED pending ELSE GiveUp(c)
  /\ UNCHANGED <<closed_, pushed>>

\* pop_timeout looks once more when its time is up.
PopTimesOut(c) ==
  /\ c \notin Patient /\ c \in cv_data_ \cup notified
  /\ IF chunks_ # <<>> THEN TakeFront(c) /\ UNCHANGED pending ELSE GiveUp(c)
  /\ UNCHANGED <<closed_, pushed>>

Close ==
  /\ closed_' = TRUE
  /\ notified' = notified \cup cv_data_ \cup cv_space_
  /\ cv_data_' = {} /\ cv_space_' = {}
  /\ UNCHANGED <<chunks_, total_bytes_, pending, pushed>>

-----------------------------------------------------------------------------
Produce(p) ==
  \/ \E size \in Sizes, mayWait \in BOOLEAN : Push(p, size, mayWait)
  \/ PushWaitsOn(p) \/ PushGoesOn(p)

Consume(c) == Pop(c) \/ PopWaitsOn(c) \/ PopGoesOn(c) \/ PopTimesOut(c)

Next == (\E p \in Producers : Produce(p)) \/ (\E c \in Consumers : Consume(c)) \/ Close

Spec == Init /\ [][Next]_vars

-----------------------------------------------------------------------------
\* Whatever the mutex, the two condition variables and the running byte account
\* do, the queue is a lossy channel: in order, bounded, losing only the oldest
\* chunks and no more than must go; a producer that waited is accepted or refused
\* at one point in time, and nothing is accepted once closed.
Channel == INSTANCE LossyChannel WITH buffer <- chunks_, shut <- closed_
ImplementsChannel == Channel!Spec

\* One notify_one per chunk is enough, with several consumers, with consumers
\* that come by without waiting, and with chunks that are dropped after they
\* were announced: when a consumer waits, each chunk in the queue has a consumer
\* on its way to it.
NoLostWakeup == cv_data_ # {} => Len(chunks_) <= Cardinality(notified \cap Consumers)

\* close leaves nobody on a condition variable, and nobody starts to wait
\* afterwards: a handler does not outlive its session on a wait without a limit.
ClosedReleases == closed_ => cv_data_ = {} /\ cv_space_ = {}
=============================================================================
