-------------------------- MODULE ChunkQueue_proofs --------------------------
(***************************************************************************)
(* That nobody is left waiting on the condition variables of a client's    *)
(* queue, that its account of bytes is right, and that it implements the   *)
(* LossyChannel: theorems of ChunkQueue for any limits, any finite sets of *)
(* producers and consumers, and any number of pushes.                      *)
(***************************************************************************)
EXTENDS ChunkQueue, FiniteSetTheorems, TLAPS

\* The consumers that have been woken and are on their way.
Coming == notified \cap Consumers

IInv == TypeOK /\ NoLostWakeup /\ ClosedReleases

\* Counting the consumers on their way when one more is woken, or one arrives.
LEMMA OneMore ==
  ASSUME NEW S, IsFiniteSet(S), NEW c, c \notin S
  PROVE  Cardinality(S \cup {c}) = Cardinality(S) + 1 /\ Cardinality(S) \in Nat
<1> QED BY FS_AddElement, FS_CardinalityType

LEMMA OneLess ==
  ASSUME NEW S, IsFiniteSet(S), NEW c
  PROVE  /\ Cardinality(S \ {c}) >= Cardinality(S) - 1
         /\ Cardinality(S \ {c}) \in Nat /\ Cardinality(S) \in Nat
<1>1. Cardinality(S) \in Nat
  BY FS_CardinalityType
<1>2. IsFiniteSet(S \ {c})
      /\ Cardinality(S \ {c}) = IF c \in S THEN Cardinality(S) - 1 ELSE Cardinality(S)
  BY FS_RemoveElement
<1>3. Cardinality(S \ {c}) \in Nat
  BY <1>2, FS_CardinalityType
<1> QED BY <1>1, <1>2, <1>3

LEMMA ComingFinite == ASSUME TypeOK PROVE IsFiniteSet(Coming)
<1>1. Coming \subseteq Consumers
  BY DEF Coming
<1> QED BY <1>1, QueueAssumption, FS_Subset

\* What is left of a sequence without its oldest elements, and with a new one.
LEMMA Replaced ==
  ASSUME NEW S, NEW s \in Seq(S), NEW n \in 0..Len(s), NEW e \in S
  PROVE  /\ Append(SubSeq(s, n + 1, Len(s)), e) \in Seq(S)
         /\ Len(Append(SubSeq(s, n + 1, Len(s)), e)) = Len(s) - n + 1
<1>1. SubSeq(s, n + 1, Len(s)) \in Seq(S) /\ Len(SubSeq(s, n + 1, Len(s))) = Len(s) - n
  OBVIOUS
<1> QED BY <1>1
-----------------------------------------------------------------------------
LEMMA AcceptKeeps ==
  ASSUME IInv, ~closed_, NEW p \in Producers, NEW chunk \in Chunks, Accept(p, chunk),
         UNCHANGED closed_, pushed' \in 0..MaxPushes
  PROVE  IInv'
<1> USE DEF IInv, TypeOK, Threads
<1>1. p \notin Consumers /\ p \notin cv_data_ /\ cv_data_ \ {p} = cv_data_
  BY QueueAssumption
<1>2. PICK n \in 0..Len(chunks_) :
        MakesWay(n, chunk) /\ chunks_' = Append(SubSeq(chunks_, n + 1, Len(chunks_)), chunk)
  BY DEF Accept
<1>3. /\ chunks_' \in Seq(Chunks) /\ Len(chunks_') \in Nat
      /\ Len(chunks_') <= Len(chunks_) + 1 /\ Len(chunks_') <= MaxChunks
  <2>1. n = Len(chunks_) \/ Len(chunks_) - n < MaxChunks
    BY <1>2 DEF MakesWay
  <2>2. chunks_' \in Seq(Chunks) /\ Len(chunks_') = Len(chunks_) - n + 1
    BY <1>2, Replaced
  <2> QED BY <2>1, <2>2, QueueAssumption
<1>4. /\ pending' = [pending EXCEPT ![p] = NoChunk]
      /\ cv_space_' = cv_space_ \ {p}
  BY DEF Accept
<1>5. CASE cv_data_ = {}
  <2>1. cv_data_' = {} /\ notified' = notified \ {p}
    BY <1>5 DEF Accept, WakeConsumer
  <2> QED BY <1>3, <1>4, <2>1 DEF NoLostWakeup, ClosedReleases
<1>6. CASE cv_data_ # {}
  <2>1. PICK c \in cv_data_ :
          cv_data_' = cv_data_ \ {c} /\ notified' = (notified \ {p}) \cup {c}
    BY <1>1, <1>6 DEF Accept, WakeConsumer
  <2>2. c \in Consumers /\ c \notin Coming /\ c \notin Producers
    BY <2>1, QueueAssumption DEF Coming
  <2>3. Coming' = Coming \cup {c}
    BY <1>1, <2>1, <2>2 DEF Coming
  <2>4. Cardinality(Coming') = Cardinality(Coming) + 1 /\ Cardinality(Coming) \in Nat
    BY <2>2, <2>3, ComingFinite, OneMore
  <2>5. Len(chunks_') <= Cardinality(Coming')
    BY <1>3, <1>6, <2>4 DEF NoLostWakeup, Coming
  <2>6. NoLostWakeup' /\ ClosedReleases'
    BY <2>5 DEF NoLostWakeup, ClosedReleases, Coming
  <2>7. TypeOK'
    BY <1>3, <1>4, <2>1, <2>2
  <2> QED BY <2>6, <2>7
<1> QED BY <1>5, <1>6

LEMMA TakeFrontKeeps ==
  ASSUME IInv, NEW c \in Consumers, chunks_ # <<>>, TakeFront(c),
         UNCHANGED <<closed_, pending, pushed>>
  PROVE  IInv'
<1> USE DEF IInv, TypeOK, Threads
<1>1. chunks_' \in Seq(Chunks) /\ Len(chunks_') = Len(chunks_) - 1 /\ Len(chunks_) \in Nat
  BY DEF TakeFront
<1>2. cv_data_' = cv_data_ \ {c} /\ c \notin Producers
  BY QueueAssumption DEF TakeFront
<1>3. \/ cv_space_ = {} /\ cv_space_' = {} /\ notified' = notified \ {c}
      \/ \E p \in cv_space_ :
           cv_space_' = cv_space_ \ {p} /\ notified' = (notified \ {c}) \cup {p}
  BY DEF TakeFront, WakeProducer
<1>4. Coming' = Coming \ {c}
  BY <1>3, QueueAssumption DEF Coming
<1>5. Cardinality(Coming') >= Cardinality(Coming) - 1
      /\ Cardinality(Coming) \in Nat /\ Cardinality(Coming') \in Nat
  BY <1>4, ComingFinite, OneLess
<1>6. cv_data_ # {} => Len(chunks_') <= Cardinality(Coming')
  BY <1>1, <1>5 DEF NoLostWakeup, Coming
<1>7. NoLostWakeup' /\ ClosedReleases'
  BY <1>2, <1>3, <1>6 DEF NoLostWakeup, ClosedReleases, Coming
<1>8. TypeOK'
  BY <1>1, <1>2, <1>3, QueueAssumption
<1> QED BY <1>7, <1>8

LEMMA GiveUpKeeps ==
  ASSUME IInv, NEW t \in Threads, GiveUp(t), pushed' \in 0..MaxPushes,
         t \in Producers \/ cv_data_ = {} \/ chunks_ = <<>>
  PROVE  IInv'
<1> USE DEF IInv, TypeOK, Threads, queue
<1>1. /\ chunks_' = chunks_ /\ closed_' = closed_
      /\ cv_data_' = cv_data_ \ {t} /\ cv_space_' = cv_space_ \ {t}
      /\ notified' = notified \ {t}
      /\ pending' = [p \in Producers |-> IF p = t THEN NoChunk ELSE pending[p]]
  BY DEF GiveUp
<1>2. TypeOK'
  BY <1>1
<1>3. Coming' = Coming \ {t}
  BY <1>1 DEF Coming
<1>4. CASE t \in Producers
  <2>1. Coming' = Coming
    BY <1>3, <1>4, QueueAssumption DEF Coming
  <2> QED BY <1>1, <1>2, <2>1 DEF NoLostWakeup, ClosedReleases, Coming
<1>5. CASE cv_data_ = {}
  BY <1>1, <1>2, <1>5 DEF NoLostWakeup, ClosedReleases
<1>6. CASE chunks_ = <<>>
  <2>1. Cardinality(Coming') \in Nat
    BY <1>3, ComingFinite, OneLess
  <2>2. Len(chunks_') = 0
    BY <1>1, <1>6
  <2> QED BY <1>1, <1>2, <2>1, <2>2 DEF NoLostWakeup, ClosedReleases, Coming
<1> QED BY <1>4, <1>5, <1>6

\* A thread that goes back to wait finds the queue empty, or is no consumer.
LEMMA WaitKeeps ==
  ASSUME IInv, ~closed_, UNCHANGED <<queue, pushed>>,
         \/ \E c \in Consumers : /\ chunks_ = <<>> /\ c \notin cv_space_
                                 /\ cv_data_' = cv_data_ \cup {c}
                                 /\ notified' = notified \ {c}
                                 /\ UNCHANGED <<cv_space_, pending>>
         \/ \E p \in Producers, chunk \in Chunks :
                                 /\ p \notin cv_data_
                                 /\ cv_space_' = cv_space_ \cup {p}
                                 /\ notified' = notified \ {p}
                                 /\ pending' = [pending EXCEPT ![p] = chunk]
                                 /\ UNCHANGED cv_data_
  PROVE  IInv'
<1> USE DEF IInv, TypeOK, Threads, queue
<1>1. TypeOK' /\ ClosedReleases'
  BY QueueAssumption, NoChunkAssumption DEF ClosedReleases
<1>2. CASE chunks_ = <<>>
  <2>1. Len(chunks_') = 0
    BY <1>2
  <2>2. IsFiniteSet(Coming')
    <3>1. Coming' \subseteq Consumers
      BY DEF Coming
    <3> QED BY <3>1, QueueAssumption, FS_Subset
  <2>3. Cardinality(Coming') \in Nat
    BY <2>2, FS_CardinalityType
  <2> QED BY <1>1, <2>1, <2>3 DEF NoLostWakeup, Coming
<1>3. CASE chunks_ # <<>>
  <2>1. Coming' = Coming /\ cv_data_' = cv_data_
    BY <1>3, QueueAssumption DEF Coming
  <2> QED BY <1>1, <2>1 DEF NoLostWakeup, Coming
<1> QED BY <1>2, <1>3

-----------------------------------------------------------------------------
LEMMA InitHolds == Init => IInv
<1> SUFFICES ASSUME Init PROVE IInv
  OBVIOUS
<1>1. pushed \in 0..MaxPushes
  BY QueueAssumption DEF Init
<1>2. chunks_ \in Seq(Chunks) /\ Len(chunks_) <= MaxChunks
  <2>1. chunks_ = <<>> /\ Len(<<>>) = 0
    BY DEF Init
  <2> QED BY <2>1, QueueAssumption
<1>3. TypeOK
  BY <1>1, <1>2 DEF Init, TypeOK, Threads
<1> QED BY <1>3 DEF Init, IInv, NoLostWakeup, ClosedReleases

LEMMA StepKeeps == IInv /\ [Next]_vars => IInv'
<1> SUFFICES ASSUME IInv, [Next]_vars PROVE IInv'
  OBVIOUS
<1> USE DEF Threads, queue
<1>1. ASSUME NEW p \in Producers, NEW size \in Sizes, NEW mayWait \in BOOLEAN,
             Push(p, size, mayWait)
      PROVE  IInv'
  <2> DEFINE chunk == [id |-> pushed + 1, size |-> size]
  <2>1. chunk \in Chunks /\ pushed' \in 0..MaxPushes
    BY <1>1, QueueAssumption DEF Push, IInv, TypeOK, Chunks
  <2>2. CASE closed_
    BY <1>1, <2>1, <2>2, GiveUpKeeps DEF Push
  <2>3. CASE ~closed_ /\ Accept(p, chunk)
    BY <1>1, <2>1, <2>3, AcceptKeeps DEF Push
  <2>4. CASE /\ ~closed_
             /\ cv_space_' = cv_space_ \cup {p}
             /\ pending' = [pending EXCEPT ![p] = chunk]
             /\ UNCHANGED <<chunks_, total_bytes_, cv_data_, notified>>
    <3>1. p \notin notified /\ p \notin cv_data_
      BY <1>1 DEF Push, Outside
    <3>2. TypeOK'
      BY <1>1, <2>1, <2>4, <3>1, QueueAssumption, NoChunkAssumption
      DEF Push, IInv, TypeOK
    <3> QED BY <1>1, <2>4, <3>2 DEF Push, IInv, NoLostWakeup, ClosedReleases
  <2> QED BY <1>1, <2>2, <2>3, <2>4 DEF Push
<1>2. ASSUME NEW p \in Producers, PushWaitsOn(p)
      PROVE  IInv'
  <2>1. pending[p] \in Chunks /\ pending' = [pending EXCEPT ![p] = pending[p]]
        /\ p \notin cv_data_
    BY <1>2 DEF PushWaitsOn, IInv, TypeOK
  <2> QED BY <1>2, <2>1, WaitKeeps DEF PushWaitsOn
<1>3. ASSUME NEW p \in Producers, PushGoesOn(p)
      PROVE  IInv'
  <2>1. pending[p] \in Chunks /\ pushed' \in 0..MaxPushes
    BY <1>3 DEF PushGoesOn, IInv, TypeOK
  <2>2. CASE closed_
    BY <1>3, <2>1, <2>2, GiveUpKeeps DEF PushGoesOn
  <2>3. CASE ~closed_
    BY <1>3, <2>1, <2>3, AcceptKeeps DEF PushGoesOn
  <2> QED BY <2>2, <2>3
<1>4. ASSUME NEW c \in Consumers, Pop(c)
      PROVE  IInv'
  <2>1. CASE chunks_ # <<>>
    BY <1>4, <2>1, TakeFrontKeeps DEF Pop
  <2>2. CASE chunks_ = <<>>
    <3>1. c \notin cv_space_ /\ notified' = notified \ {c}
      BY <1>4, <2>2 DEF Pop, Outside
    <3> QED BY <1>4, <2>2, <3>1, WaitKeeps DEF Pop
  <2> QED BY <2>1, <2>2
<1>5. ASSUME NEW c \in Consumers, PopWaitsOn(c)
      PROVE  IInv'
  <2>1. c \notin cv_space_
    BY <1>5 DEF PopWaitsOn, IInv, TypeOK
  <2> QED BY <1>5, <2>1, WaitKeeps DEF PopWaitsOn
<1>6. ASSUME NEW c \in Consumers, PopGoesOn(c)
      PROVE  IInv'
  <2>1. CASE chunks_ # <<>>
    BY <1>6, <2>1, TakeFrontKeeps DEF PopGoesOn
  <2>2. CASE chunks_ = <<>>
    <3>1. pushed' \in 0..MaxPushes
      BY <1>6 DEF PopGoesOn, IInv, TypeOK
    <3> QED BY <1>6, <2>2, <3>1, GiveUpKeeps DEF PopGoesOn
  <2> QED BY <2>1, <2>2
<1>7. ASSUME NEW c \in Consumers, PopTimesOut(c)
      PROVE  IInv'
  <2>1. CASE chunks_ # <<>>
    BY <1>7, <2>1, TakeFrontKeeps DEF PopTimesOut
  <2>2. CASE chunks_ = <<>>
    <3>1. pushed' \in 0..MaxPushes
      BY <1>7 DEF PopTimesOut, IInv, TypeOK
    <3> QED BY <1>7, <2>2, <3>1, GiveUpKeeps DEF PopTimesOut
  <2> QED BY <2>1, <2>2
<1>8. ASSUME Close
      PROVE  IInv'
  <2>1. TypeOK'
    <3>1. notified' \in SUBSET Threads /\ cv_data_' = {} /\ cv_space_' = {}
      BY <1>8 DEF Close, IInv, TypeOK
    <3>2. \A p \in cv_space_' \cup (notified' \cap Producers) : pending'[p] # NoChunk
      BY <1>8, QueueAssumption DEF Close, IInv, TypeOK
    <3> QED BY <1>8, <3>1, <3>2 DEF Close, IInv, TypeOK
  <2> QED BY <1>8, <2>1 DEF Close, IInv, NoLostWakeup, ClosedReleases
<1>9. CASE UNCHANGED vars
  BY <1>9 DEF vars, IInv, TypeOK, NoLostWakeup, ClosedReleases
<1> QED BY <1>1, <1>2, <1>3, <1>4, <1>5, <1>6, <1>7, <1>8, <1>9 DEF Next, Produce, Consume

\* The inductive invariant holds in every reachable state.
THEOREM Invariance == Spec => []IInv
<1> QED BY InitHolds, StepKeeps, PTL DEF Spec

\* push, pop, pop_timeout and close keep the chunks, the waiting threads and the
\* chunks these bring to their types; the queue never has more than max_chunks_
\* chunks, and a waiting producer has its chunk with it.
THEOREM Typing == Spec => []TypeOK
<1>1. IInv => TypeOK
  BY DEF IInv
<1> QED BY <1>1, Invariance, PTL

\* cv_data_.notify_one once per push is enough for any number of consumers: as
\* long as one of them waits, no chunk is in the queue without a woken consumer
\* to fetch it.
THEOREM EveryChunkIsFetched == Spec => []NoLostWakeup
<1>1. IInv => NoLostWakeup
  BY DEF IInv
<1> QED BY <1>1, Invariance, PTL

\* Once closed, nobody waits on either condition variable, for good.
THEOREM CloseLetsEverybodyGo == Spec => []ClosedReleases
<1>1. IInv => ClosedReleases
  BY DEF IInv
<1> QED BY <1>1, Invariance, PTL

-----------------------------------------------------------------------------
(***************************************************************************)
(* The bytes of a sequence of chunks. They are defined by recursion, here   *)
(* and in LossyChannel; what follows is by the smallest counterexample.     *)
(***************************************************************************)
LEMMA Least ==
  ASSUME NEW T, T \subseteq Nat, T # {}
  PROVE  \E x \in T : \A y \in T : x <= y
<1>1. PICK x \in T : \A y \in T : ~(<<y, x>> \in OpToRel(<, Nat))
  BY NatLessThanWellFounded, WFMin
<1>2. \A y \in T : ~(y < x)
  BY <1>1 DEF OpToRel
<1> QED BY <1>2

\* g[n] is the bytes of the first n chunks of s, up to m.
SumsUpTo(g, s, m) == g = [n \in 0..m |-> IF n = 0 THEN 0 ELSE g[n - 1] + s[n].size]

Sums(s) == CHOOSE g : SumsUpTo(g, s, Len(s))

LEMMA SumsExist ==
  ASSUME NEW s, NEW m \in Nat
  PROVE  \E g : SumsUpTo(g, s, m)
<1> DEFINE T == {k \in Nat : ~ \E g : SumsUpTo(g, s, k)}
<1> SUFFICES ASSUME T # {} PROVE FALSE
  OBVIOUS
<1>1. PICK k \in T : \A y \in T : k <= y
  BY Least
<1>2. CASE k = 0
  <2> DEFINE g == [n \in 0..0 |-> 0]
  <2>1. SumsUpTo(g, s, 0)
    BY DEF SumsUpTo
  <2> QED BY <1>1, <1>2, <2>1
<1>3. CASE k # 0
  <2>1. k - 1 \in Nat /\ k - 1 \notin T
    BY <1>1, <1>3
  <2>2. PICK g : SumsUpTo(g, s, k - 1)
    BY <2>1
  <2> DEFINE f == [n \in 0..k |-> IF n = k THEN g[k - 1] + s[k].size ELSE g[n]]
  <2>3. \A n \in 0..k : f[n] = IF n = 0 THEN 0 ELSE f[n - 1] + s[n].size
    BY <1>1, <1>3, <2>1, <2>2 DEF SumsUpTo
  <2>4. SumsUpTo(f, s, k)
    BY <2>3 DEF SumsUpTo
  <2> QED BY <1>1, <2>4
<1> QED BY <1>2, <1>3

LEMMA SizesAre ==
  ASSUME NEW s \in Seq(Chunks), NEW n \in 1..Len(s)
  PROVE  s[n].size \in Nat
<1>1. s[n] \in Chunks
  OBVIOUS
<1> QED BY <1>1, QueueAssumption DEF Chunks

LEMMA SumsAre ==
  ASSUME NEW s \in Seq(Chunks)
  PROVE  /\ Sums(s) \in [0..Len(s) -> Nat]
         /\ Sums(s)[0] = 0
         /\ \A n \in 1..Len(s) : Sums(s)[n] = Sums(s)[n - 1] + s[n].size
         /\ Channel!Bytes(s) = Sums(s)[Len(s)]
<1> DEFINE m == Len(s)
           g == Sums(s)
<1>1. SumsUpTo(g, s, m)
  <2>1. \E x : SumsUpTo(x, s, Len(s))
    BY SumsExist
  <2> QED BY <2>1 DEF Sums
<1>2. DOMAIN g = 0..m /\ g = [n \in DOMAIN g |-> g[n]]
  BY <1>1 DEF SumsUpTo
<1>3. g[0] = 0 /\ \A n \in 1..m : g[n] = g[n - 1] + s[n].size
  BY <1>1 DEF SumsUpTo
<1>4. \A n \in 1..m : s[n].size \in Nat
  BY SizesAre
<1>5. \A n \in 0..m : g[n] \in Nat
  <2> DEFINE T == {n \in 0..m : g[n] \notin Nat}
  <2> SUFFICES ASSUME T # {} PROVE FALSE
    OBVIOUS
  <2>1. PICK k \in T : \A y \in T : k <= y
    <3>1. T \subseteq Nat
      OBVIOUS
    <3> HIDE DEF T
    <3> QED BY <3>1, Least
  <2>2. k # 0
    BY <2>1, <1>3
  <2>3. k - 1 \in 0..m /\ k - 1 \notin T
    BY <2>1, <2>2
  <2>4. g[k - 1] \in Nat /\ g[k] = g[k - 1] + s[k].size /\ s[k].size \in Nat
    BY <1>3, <1>4, <2>1, <2>2, <2>3
  <2> QED BY <2>1, <2>4
<1>6. Channel!Bytes(s) = g[m]
  BY DEF Channel!Bytes, Sums, SumsUpTo
<1> QED BY <1>2, <1>3, <1>5, <1>6

\* f is integers, and grows or falls by w, up to m.
Integral(f, m) == \A n \in 0..m : f[n] \in Int
Grows(f, w, m) == \A n \in 1..m : f[n] = f[n - 1] + w[n] /\ w[n] \in Int
Falls(f, w, m) == \A n \in 1..m : f[n] = f[n - 1] - w[n] /\ w[n] \in Int

\* What starts d apart and grows, or falls, alike stays d apart.
LEMMA Parallel ==
  ASSUME NEW m \in Nat, NEW w, NEW f, NEW g, NEW d \in Int, f[0] = g[0] + d,
         Integral(g, m),
         (Grows(f, w, m) /\ Grows(g, w, m)) \/ (Falls(f, w, m) /\ Falls(g, w, m))
  PROVE  \A n \in 0..m : f[n] = g[n] + d
<1> USE DEF Integral, Grows, Falls
<1> DEFINE T == {n \in 0..m : f[n] # g[n] + d}
<1> SUFFICES ASSUME T # {} PROVE FALSE
  OBVIOUS
<1>1. PICK k \in T : \A y \in T : k <= y
  <2>1. T \subseteq Nat
    OBVIOUS
  <2> HIDE DEF T
  <2> QED BY <2>1, Least
<1>2. k # 0
  BY <1>1
<1>3. k - 1 \in 0..m /\ k - 1 \notin T
  BY <1>1, <1>2
<1>4. f[k - 1] = g[k - 1] + d
  BY <1>3
<1>5. /\ \/ f[k] = f[k - 1] + w[k] /\ g[k] = g[k - 1] + w[k]
         \/ f[k] = f[k - 1] - w[k] /\ g[k] = g[k - 1] - w[k]
      /\ w[k] \in Int /\ g[k - 1] \in Int
  <2>1. k \in 1..m
    BY <1>1, <1>2
  <2> QED BY <1>3, <2>1
<1>6. f[k] = g[k] + d
  BY <1>3, <1>4, <1>5
<1> QED BY <1>1, <1>6

LEMMA BytesAppended ==
  ASSUME NEW s \in Seq(Chunks), NEW c \in Chunks
  PROVE  Channel!Bytes(Append(s, c)) = Channel!Bytes(s) + c.size
<1> DEFINE r == Append(s, c)
           m == Len(s)
<1>1. r \in Seq(Chunks) /\ Len(r) = m + 1 /\ r[m + 1] = c /\ m \in Nat
      /\ \A n \in 1..m : r[n] = s[n]
  OBVIOUS
<1>2. \A n \in 1..m : s[n].size \in Int
  BY SizesAre
<1>3. /\ Sums(s)[0] = 0 /\ \A n \in 0..m : Sums(s)[n] \in Nat
      /\ \A n \in 1..m : Sums(s)[n] = Sums(s)[n - 1] + s[n].size
      /\ Channel!Bytes(s) = Sums(s)[m]
  BY SumsAre
<1>4. /\ Sums(r)[0] = 0 /\ \A n \in 1..(m + 1) : Sums(r)[n] = Sums(r)[n - 1] + r[n].size
      /\ Channel!Bytes(r) = Sums(r)[m + 1]
  BY <1>1, SumsAre
<1> HIDE DEF r, m
<1> DEFINE w == [n \in 1..m |-> s[n].size]
<1>5. Grows(Sums(r), w, m) /\ Grows(Sums(s), w, m)
  <2> SUFFICES ASSUME NEW n \in 1..m
               PROVE  /\ Sums(r)[n] = Sums(r)[n - 1] + s[n].size
                      /\ Sums(s)[n] = Sums(s)[n - 1] + s[n].size
                      /\ s[n].size \in Int
    BY DEF Grows
  <2>1. n \in 1..(m + 1) /\ r[n] = s[n]
    BY <1>1
  <2> QED BY <1>2, <1>3, <1>4, <2>1
<1> HIDE DEF w
<1>6. \A n \in 0..m : Sums(r)[n] = Sums(s)[n] + 0
  <2>1. Sums(r)[0] = Sums(s)[0] + 0 /\ 0 \in Int /\ m \in Nat
    BY <1>1, <1>3, <1>4
  <2>2. Integral(Sums(s), m)
    BY <1>3 DEF Integral
  <2> QED BY <1>5, <2>1, <2>2, Parallel
<1>7. Sums(r)[m + 1] = Sums(s)[m] + c.size
  <2>1. m + 1 \in 1..(m + 1) /\ m \in 0..m /\ (m + 1) - 1 = m
    BY <1>1
  <2>2. Sums(r)[m + 1] = Sums(r)[m] + c.size
    BY <1>1, <1>4, <2>1
  <2>3. Sums(r)[m] = Sums(s)[m] + 0 /\ Sums(s)[m] \in Nat
    BY <1>3, <1>6, <2>1
  <2> QED BY <2>2, <2>3
<1> QED BY <1>3, <1>4, <1>7 DEF r

LEMMA BytesWithout ==
  ASSUME NEW s \in Seq(Chunks), NEW k \in 0..Len(s)
  PROVE  /\ Channel!Without(s, k) \in Seq(Chunks)
         /\ Len(Channel!Without(s, k)) = Len(s) - k
         /\ Channel!Bytes(Channel!Without(s, k)) = Channel!Bytes(s) - Sums(s)[k]
<1> DEFINE r == Channel!Without(s, k)
           m == Len(s) - k
           f == [n \in 0..m |-> Sums(s)[n + k]]
<1>1. r \in Seq(Chunks) /\ Len(r) = m /\ m \in Nat /\ k \in Nat /\ k + m = Len(s)
      /\ \A n \in 1..m : r[n] = s[n + k]
  BY DEF Channel!Without
<1>2. \A n \in 1..m : r[n].size \in Int
  BY <1>1, SizesAre
<1>3. /\ \A n \in 0..Len(s) : Sums(s)[n] \in Nat
      /\ \A n \in 1..Len(s) : Sums(s)[n] = Sums(s)[n - 1] + s[n].size
      /\ Channel!Bytes(s) = Sums(s)[Len(s)]
  BY SumsAre
<1>4. /\ Sums(r)[0] = 0 /\ \A n \in 0..m : Sums(r)[n] \in Nat
      /\ \A n \in 1..m : Sums(r)[n] = Sums(r)[n - 1] + r[n].size
      /\ Channel!Bytes(r) = Sums(r)[m]
  BY <1>1, SumsAre
<1>5. f[0] = Sums(s)[k] /\ f[m] = Sums(s)[Len(s)] /\ Sums(s)[k] \in Nat
  BY <1>1, <1>3
<1>6. \A n \in 1..m : f[n] = f[n - 1] + r[n].size
  <2> SUFFICES ASSUME NEW n \in 1..m PROVE f[n] = f[n - 1] + r[n].size
    OBVIOUS
  <2>1. n + k \in 1..Len(s) /\ n - 1 \in 0..m /\ (n - 1) + k = (n + k) - 1
    BY <1>1
  <2> QED BY <1>1, <1>3, <2>1
<1> HIDE DEF f, m, r
<1> DEFINE w == [n \in 1..m |-> r[n].size]
<1>7. Grows(f, w, m) /\ Grows(Sums(r), w, m)
  BY <1>2, <1>4, <1>6 DEF Grows
<1> HIDE DEF w
<1>8. \A n \in 0..m : f[n] = Sums(r)[n] + Sums(s)[k]
  <2>1. f[0] = Sums(r)[0] + Sums(s)[k] /\ Sums(s)[k] \in Int /\ m \in Nat
    BY <1>1, <1>4, <1>5
  <2>2. Integral(Sums(r), m)
    BY <1>4 DEF Integral
  <2> DEFINE d == Sums(s)[k]
  <2> HIDE DEF d
  <2>3. f[0] = Sums(r)[0] + d /\ d \in Int /\ m \in Nat
    BY <2>1 DEF d
  <2>4. \A n \in 0..m : f[n] = Sums(r)[n] + d
    BY <1>7, <2>2, <2>3, Parallel
  <2> QED BY <2>4 DEF d
<1>9. Sums(s)[Len(s)] = Sums(r)[m] + Sums(s)[k] /\ Sums(r)[m] \in Nat
  BY <1>1, <1>4, <1>5, <1>8
<1> QED BY <1>1, <1>3, <1>4, <1>5, <1>9 DEF r, m

\* The running account of the queue is right.
Account == total_bytes_ = Channel!Bytes(chunks_)

LEMMA AccountAfterDropping ==
  ASSUME chunks_ \in Seq(Chunks), Account, NEW n \in 0..Len(chunks_)
  PROVE  BytesAfterDropping(n) = Channel!Bytes(Channel!Without(chunks_, n))
<1> DEFINE Down(g) == g = [k \in 0..n |-> IF k = 0 THEN total_bytes_ ELSE g[k - 1] - chunks_[k].size]
           S == Sums(chunks_)
           a == [k \in 0..n |-> total_bytes_ - S[k]]
           b == CHOOSE g : Down(g)
<1>1. /\ S[0] = 0 /\ \A k \in 0..n : S[k] \in Nat
      /\ \A k \in 1..n : S[k] = S[k - 1] + chunks_[k].size
      /\ total_bytes_ \in Nat
  <2>1. /\ S \in [0..Len(chunks_) -> Nat] /\ S[0] = 0
        /\ \A k \in 1..Len(chunks_) : S[k] = S[k - 1] + chunks_[k].size
        /\ total_bytes_ = S[Len(chunks_)]
    BY SumsAre DEF Account
  <2>2. n \in Nat /\ Len(chunks_) \in Nat /\ n <= Len(chunks_)
    OBVIOUS
  <2> HIDE DEF S
  <2> QED BY <2>1, <2>2
<1>2. \A k \in 1..n : chunks_[k].size \in Nat
  BY SizesAre
<1> HIDE DEF S
<1>3. \A k \in 0..n : a[k] = IF k = 0 THEN total_bytes_ ELSE a[k - 1] - chunks_[k].size
  <2>0. a[0] = total_bytes_
    BY <1>1
  <2> HIDE DEF a
  <2> SUFFICES ASSUME NEW k \in 1..n PROVE a[k] = a[k - 1] - chunks_[k].size
    BY <2>0
  <2> USE DEF a
  <2>1. k \in 0..n /\ k - 1 \in 0..n
    OBVIOUS
  <2>2. S[k] \in Nat /\ S[k - 1] \in Nat /\ S[k] = S[k - 1] + chunks_[k].size
        /\ chunks_[k].size \in Nat /\ total_bytes_ \in Nat
    BY <1>1, <1>2, <2>1
  <2>3. a[k] = total_bytes_ - S[k] /\ a[k - 1] = total_bytes_ - S[k - 1]
    BY <2>1
  <2> HIDE DEF a
  <2> QED BY <2>2, <2>3
<1>4. Down(a)
  BY <1>3
<1>5. Down(b)
  BY <1>4
<1>6. b[0] = total_bytes_ /\ \A k \in 1..n : b[k] = b[k - 1] - chunks_[k].size
  <2>1. b = [k \in 0..n |-> IF k = 0 THEN total_bytes_ ELSE b[k - 1] - chunks_[k].size]
    BY <1>5
  <2> HIDE DEF b
  <2>2. \A k \in 0..n : b[k] = IF k = 0 THEN total_bytes_ ELSE b[k - 1] - chunks_[k].size
    BY <2>1
  <2> QED BY <2>2
<1>7. BytesAfterDropping(n) = b[n]
  BY DEF BytesAfterDropping
<1>8. a[0] = total_bytes_ /\ \A k \in 0..n : a[k] \in Int /\ a[k] = total_bytes_ - S[k]
  BY <1>1
<1> HIDE DEF a, b, S
<1> DEFINE w == [k \in 1..n |-> chunks_[k].size]
<1>9. Falls(b, w, n) /\ Falls(a, w, n)
  <2> SUFFICES ASSUME NEW k \in 1..n
               PROVE  /\ b[k] = b[k - 1] - chunks_[k].size
                      /\ a[k] = a[k - 1] - chunks_[k].size
                      /\ chunks_[k].size \in Int
    BY DEF Falls
  <2> QED BY <1>2, <1>3, <1>6
<1> HIDE DEF w
<1>10. \A k \in 0..n : b[k] = a[k] + 0
  <2>1. b[0] = a[0] + 0 /\ 0 \in Int /\ n \in Nat
    BY <1>1, <1>6, <1>8
  <2>2. Integral(a, n)
    BY <1>8 DEF Integral
  <2> QED BY <1>9, <2>1, <2>2, Parallel
<1>11. BytesAfterDropping(n) = total_bytes_ - S[n]
  BY <1>7, <1>8, <1>10
<1> QED BY <1>11, BytesWithout DEF Account, S

\* A chunk fits what the channel would have left exactly if the queue has room.
LEMMA RoomIsFitting ==
  ASSUME TypeOK, Account, NEW n \in 0..Len(chunks_), NEW chunk \in Chunks
  PROVE  Channel!Fits(Channel!Without(chunks_, n), chunk)
           <=> Len(chunks_) - n < MaxChunks /\ BytesAfterDropping(n) + chunk.size <= MaxBytes
<1>1. Len(Channel!Without(chunks_, n)) = Len(chunks_) - n
  BY BytesWithout DEF TypeOK
<1>2. BytesAfterDropping(n) = Channel!Bytes(Channel!Without(chunks_, n))
  BY AccountAfterDropping DEF TypeOK
<1> QED BY <1>1, <1>2 DEF Channel!Fits

\* The end of push is Put: it loses the chunks MakesWay drops.
LEMMA AcceptPuts ==
  ASSUME TypeOK, Account, ~closed_, NEW p \in Producers, NEW chunk \in Chunks,
         Accept(p, chunk), UNCHANGED closed_
  PROVE  Account' /\ Channel!Put(chunk)
<1>1. PICK n \in 0..Len(chunks_) :
        /\ MakesWay(n, chunk)
        /\ chunks_' = Append(SubSeq(chunks_, n + 1, Len(chunks_)), chunk)
        /\ total_bytes_' = BytesAfterDropping(n) + chunk.size
  BY DEF Accept
<1> DEFINE rest == Channel!Without(chunks_, n)
<1>2. /\ chunks_' = Append(rest, chunk)
      /\ total_bytes_' = Channel!Bytes(rest) + chunk.size
      /\ rest \in Seq(Chunks)
  BY <1>1, AccountAfterDropping, BytesWithout DEF TypeOK, Channel!Without
<1>3. Account'
  <2> HIDE DEF rest
  <2>1. Channel!Bytes(Append(rest, chunk)) = Channel!Bytes(rest) + chunk.size
    BY <1>2, BytesAppended
  <2> QED BY <1>2, <2>1 DEF Account
<1>4. n = Len(chunks_) \/ Channel!Fits(rest, chunk)
  BY <1>1, RoomIsFitting DEF MakesWay
<1>5. \A k \in 0..(n - 1) : ~Channel!Fits(Channel!Without(chunks_, k), chunk)
  <2> SUFFICES ASSUME NEW k \in 0..(n - 1)
               PROVE  ~Channel!Fits(Channel!Without(chunks_, k), chunk)
    OBVIOUS
  <2>1. k \in 0..Len(chunks_)
    BY DEF TypeOK
  <2>2. ~(Len(chunks_) - k < MaxChunks /\ BytesAfterDropping(k) + chunk.size <= MaxBytes)
    BY <1>1 DEF MakesWay
  <2> QED BY <2>1, <2>2, RoomIsFitting
<1> QED BY <1>2, <1>3, <1>4, <1>5 DEF Channel!Put

\* The end of a pop is Take.
LEMMA TakeFrontTakes ==
  ASSUME TypeOK, Account, chunks_ # <<>>, NEW c, TakeFront(c), UNCHANGED closed_
  PROVE  Account' /\ Channel!Take
<1>1. /\ chunks_' = Tail(chunks_) /\ total_bytes_' = total_bytes_ - chunks_[1].size
      /\ chunks_ \in Seq(Chunks) /\ 1 \in 1..Len(chunks_) /\ 1 \in 0..Len(chunks_)
  BY DEF TakeFront, TypeOK
<1>2. Tail(chunks_) = Channel!Without(chunks_, 1)
  BY <1>1 DEF Channel!Without
<1>3. Channel!Bytes(Tail(chunks_)) = Channel!Bytes(chunks_) - Sums(chunks_)[1]
  BY <1>1, <1>2, BytesWithout
<1>4. Sums(chunks_)[1] = chunks_[1].size
  <2>1. Sums(chunks_)[0] = 0 /\ Sums(chunks_)[1] = Sums(chunks_)[1 - 1] + chunks_[1].size
    BY <1>1, SumsAre
  <2>2. chunks_[1].size \in Nat
    BY <1>1, SizesAre
  <2> QED BY <2>1, <2>2
<1> QED BY <1>1, <1>3, <1>4 DEF Account, Channel!Take

RInv == TypeOK /\ Account

\* Every step of the queue is one of the channel, or stutters there.
LEMMA StepIsOfChannel ==
  ASSUME RInv, [Next]_vars
  PROVE  Account' /\ [Channel!Next]_(Channel!channel)
<1> USE DEF RInv, queue
<1>1. UNCHANGED <<chunks_, total_bytes_, closed_>>
        => Account' /\ UNCHANGED Channel!channel
  BY DEF Account, Channel!channel
<1>2. ASSUME NEW p \in Producers, NEW chunk \in Chunks, ~closed_, Accept(p, chunk), UNCHANGED closed_
      PROVE  Account' /\ Channel!Next
  BY <1>2, AcceptPuts DEF Channel!Next
<1>3. ASSUME NEW c, chunks_ # <<>>, TakeFront(c), UNCHANGED closed_
      PROVE  Account' /\ Channel!Next
  BY <1>3, TakeFrontTakes DEF Channel!Next
<1>4. ASSUME NEW p \in Producers, Produce(p)
      PROVE  Account' /\ [Channel!Next]_(Channel!channel)
  <2>1. ASSUME NEW size \in Sizes, NEW mayWait \in BOOLEAN, Push(p, size, mayWait)
        PROVE  Account' /\ [Channel!Next]_(Channel!channel)
    <3> DEFINE chunk == [id |-> pushed + 1, size |-> size]
    <3>1. chunk \in Chunks
      BY <2>1, QueueAssumption DEF Push, TypeOK, Chunks
    <3>2. \/ UNCHANGED <<chunks_, total_bytes_, closed_>>
          \/ ~closed_ /\ Accept(p, chunk) /\ UNCHANGED closed_
      BY <2>1 DEF Push, GiveUp
    <3> QED BY <1>1, <1>2, <3>1, <3>2
  <2>2. ASSUME PushGoesOn(p)
        PROVE  Account' /\ [Channel!Next]_(Channel!channel)
    <3>1. pending[p] \in Chunks
      BY <2>2 DEF PushGoesOn, TypeOK
    <3>2. \/ UNCHANGED <<chunks_, total_bytes_, closed_>>
          \/ ~closed_ /\ Accept(p, pending[p]) /\ UNCHANGED closed_
      BY <2>2 DEF PushGoesOn, GiveUp
    <3> QED BY <1>1, <1>2, <3>1, <3>2
  <2>3. ASSUME PushWaitsOn(p)
        PROVE  Account' /\ [Channel!Next]_(Channel!channel)
    BY <1>1, <2>3 DEF PushWaitsOn
  <2> QED BY <1>4, <2>1, <2>2, <2>3 DEF Produce
<1>5. ASSUME NEW c \in Consumers, Consume(c)
      PROVE  Account' /\ [Channel!Next]_(Channel!channel)
  <2>1. \/ UNCHANGED <<chunks_, total_bytes_, closed_>>
        \/ chunks_ # <<>> /\ TakeFront(c) /\ UNCHANGED closed_
    BY <1>5 DEF Consume, Pop, PopWaitsOn, PopGoesOn, PopTimesOut, GiveUp
  <2> QED BY <1>1, <1>3, <2>1
<1>6. ASSUME Close
      PROVE  Account' /\ [Channel!Next]_(Channel!channel)
  BY <1>6 DEF Close, Account, Channel!Next, Channel!Shut
<1>7. CASE UNCHANGED vars
  BY <1>1, <1>7 DEF vars
<1> QED BY <1>4, <1>5, <1>6, <1>7 DEF Next

LEMMA InitIsOfChannel == Init => Account /\ Channel!Init
<1> SUFFICES ASSUME Init PROVE Account /\ Channel!Init
  OBVIOUS
<1>1. chunks_ = <<>> /\ chunks_ \in Seq(Chunks) /\ Len(chunks_) = 0 /\ total_bytes_ = 0
  BY DEF Init
<1>2. Channel!Bytes(chunks_) = 0
  BY <1>1, SumsAre
<1> QED BY <1>1, <1>2 DEF Account, Init, Channel!Init

\* The running byte account of push and pop, from which push decides what it
\* drops, is the sum of the sizes of the chunks in the queue at all times.
THEOREM AccountIsRight == Spec => []Account
<1>1. Init => Account
  BY InitIsOfChannel
<1>2. TypeOK /\ Account /\ [Next]_vars => Account'
  BY StepIsOfChannel DEF RInv
<1> QED BY <1>1, <1>2, Typing, PTL DEF Spec

\* The queue with its mutex, its condition variables and its byte account is a
\* lossy channel: in order, bounded, losing the fewest and oldest chunks.
THEOREM QueueIsLossyChannel == Spec => ImplementsChannel
<1>1. Init => Channel!Init
  BY InitIsOfChannel
<1>2. TypeOK /\ Account /\ [Next]_vars => [Channel!Next]_(Channel!channel)
  BY StepIsOfChannel DEF RInv
<1> QED BY <1>1, <1>2, Typing, AccountIsRight, PTL DEF Spec, ImplementsChannel, Channel!Spec

===============================================================================
