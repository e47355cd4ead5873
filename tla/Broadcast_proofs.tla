--------------------------- MODULE Broadcast_proofs ---------------------------
(***************************************************************************)
(* Theorems about Broadcast, for any number of handlers, closers, sessions *)
(* and infohashes and any lengths of the grace and start-up periods.       *)
(***************************************************************************)
EXTENDS Broadcast, FiniteSetTheorems, TLAPS

\* A handler at work has an infohash, and once it has joined, a session; a
\* thread that stops something has a target.
Working ==
  /\ \A h \in Handlers : pc[h] # "idle" => client[h].infohash \in Infohashes
  /\ \A h \in Handlers :
       pc[h] \notin {"idle", "lookup", "construct"} => client[h].held \in Sessions
  /\ \A t \in Threads : pc[t] \in StopPC => job[t].target \in Sessions

\* The manager's map is keyed by the infohash of what it holds.
Listing ==
  \A i \in Infohashes, b \in Sessions : broadcasts_[i] = b => bc[b].infohash_ = i

\* Memory without a Broadcast has no reference, client, thread or stop.
Holding ==
  \A b \in Sessions : bc[b].infohash_ = NoHash =>
    /\ ~Referenced(b)
    /\ bc[b].clients_ = {} /\ ~bc[b].stopped_ /\ bc[b].stream = "none"

\* A client is only on the list of the session its handler holds.
OnList ==
  \A b \in Sessions : \A h \in bc[b].clients_ :
    client[h].held = b /\ pc[h] \in {"start", "attached", "erase"}

\* The manager's mutex is held through the construction of a session and
\* through a pass of the reaper.
Locked ==
  /\ \A h \in Handlers : pc[h] = "construct" => mutex_ = h
  /\ pc[Reaper] \in {"scan", "act"} => mutex_ = Reaper

\* What the reaper has still to visit is in the map; what it is about to act
\* on it will not visit again.
Scanning ==
  /\ pc[Reaper] \in {"scan", "act"} => \A i \in scan : broadcasts_[i] # NoSession
  /\ pc[Reaper] = "act" => /\ job[Reaper].target # NoSession
                           /\ bc[job[Reaper].target].infohash_ \notin scan

\* What somebody stops, or is going to stop, is out of the map.
Evicted ==
  /\ \A t \in Threads : pc[t] \in StopPC => ~Listed(job[t].target)
  /\ \A t \in Sweepers : \A b \in doomed[t] : ~Listed(b)

(***************************************************************************)
(* TypeOK in parts: the fields, and the sign of the counter, which is      *)
(* proved with its bound.                                                  *)
(***************************************************************************)
SessionsOK == bc \in [Sessions -> SessionRecord]

ClientsOK == client \in [Handlers -> ClientRecord]

ProgressOK ==
  /\ pc \in [Threads -> HandlerPC \cup StopPC \cup SweepPC]
  /\ \A h \in Handlers : pc[h] \in HandlerPC \cup StopPC
  /\ \A t \in Sweepers : pc[t] \in SweepPC \cup StopPC

ManagerOK ==
  /\ broadcasts_ \in [Infohashes -> Sessions \cup {NoSession}]
  /\ mutex_ \in Threads \cup {NoThread}
  /\ job \in [Threads -> [target : Sessions \cup {NoSession}, force : BOOLEAN]]
  /\ doomed \in [Sweepers -> SUBSET Sessions]
  /\ scan \in SUBSET Infohashes
  /\ verdict \in {"none", "reset", "mark", "evict"}

Fields == SessionsOK /\ ClientsOK /\ ProgressOK /\ ManagerOK

Passing ==
  \A b \in Sessions :
    bc[b].subscribers_ < 0 => \E h \in Handlers : client[h].held = b /\ pc[h] = "clamp"

LEMMA TypeParts == TypeOK <=> Fields /\ Passing
  BY DEF TypeOK, Fields, Passing, SessionsOK, ClientsOK, ProgressOK, ManagerOK

IInv ==
  /\ Fields /\ Working /\ Listing /\ Holding /\ OnList /\ Locked /\ Scanning /\ Evicted
  /\ StoppedIsUnlisted /\ StopSparesSettled

-----------------------------------------------------------------------------
(***************************************************************************)
(* How one session or one handler is updated.                              *)
(***************************************************************************)
LEMMA SessionPut ==
  ASSUME SessionsOK, NEW b \in Sessions, NEW r \in SessionRecord, bc' = [bc EXCEPT ![b] = r]
  PROVE  SessionsOK'
  BY DEF SessionsOK

LEMMA ClientPut ==
  ASSUME ClientsOK, NEW h \in Handlers, NEW r \in ClientRecord, client' = [client EXCEPT ![h] = r]
  PROVE  ClientsOK'
  BY DEF ClientsOK

LEMMA Dates == 0 \in Unset..Linger /\ 0 \in Unset..Startup /\ Unset \in Unset..Linger
  BY ConstantsAssumption DEF Unset

\* What the invariant says of the state, in the form the steps use.
LEMMA Known ==
  ASSUME IInv
  PROVE  /\ Fields /\ SessionsOK /\ ClientsOK /\ ProgressOK /\ ManagerOK
         /\ Working /\ Listing /\ Holding /\ OnList /\ Locked /\ Scanning /\ Evicted
         /\ StoppedIsUnlisted /\ StopSparesSettled
         /\ \A b \in Sessions : bc[b] \in SessionRecord /\ bc[b].clients_ \subseteq Handlers
         /\ \A h \in Handlers : client[h] \in ClientRecord
  BY DEF IInv, Fields, SessionsOK, ClientsOK, SessionRecord


-----------------------------------------------------------------------------
(***************************************************************************)
(* Most steps are quiet: they move one thread, count, stamp, or close, and *)
(* leave the map, the references and what has been stopped alone.          *)
(***************************************************************************)
QuietSession(b) ==
  /\ bc'[b].infohash_ = bc[b].infohash_
  /\ bc'[b].stopped_ = bc[b].stopped_
  /\ bc'[b].clients_ \subseteq bc[b].clients_
  /\ \/ bc'[b].stream = bc[b].stream
     \/ bc'[b].stream # "stopping" /\ bc[b].infohash_ # NoHash

QuietClient(h) ==
  /\ client'[h].held = client[h].held
  /\ client'[h].late = client[h].late
  /\ client'[h].infohash \in Infohashes \cup {client[h].infohash}

\* Thread t goes on to step to, within what it is doing.
QuietMove(t, to) ==
  /\ pc' = [pc EXCEPT ![t] = to]
  /\ \/ to = pc[t]
     \/ /\ t \in Handlers
        /\ pc[t] \in HandlerPC \ {"construct"} /\ to \in HandlerPC \ {"construct", "idle"}
        /\ pc[t] = "idle" => client'[t].infohash \in Infohashes
        /\ pc[t] \in {"idle", "lookup"} => to = "lookup"
        /\ \/ pc[t] \notin {"start", "attached", "erase"} \/ to \in {"start", "attached", "erase"}
           \/ \A b \in Sessions : t \notin bc'[b].clients_
     \/ {pc[t], to} \subseteq {"clear", "win", "close", "send", "join"}

LEMMA QuietKeeps ==
  ASSUME IInv, NEW t \in Threads, NEW to, QuietMove(t, to),
         SessionsOK', ClientsOK', UNCHANGED <<manager, job, sweep>>,
         \A b \in Sessions : QuietSession(b), \A h \in Handlers : QuietClient(h)
  PROVE  IInv'
<1> USE ConstantsAssumption DEF manager, sweep
<1>1. /\ pc'[t] = to /\ to \in HandlerPC \cup StopPC \cup SweepPC
      /\ \A x \in Threads : x # t => pc'[x] = pc[x]
  BY Known DEF QuietMove, ProgressOK, HandlerPC, StopPC
<1>2. ProgressOK' /\ ManagerOK'
  BY Known DEF QuietMove, ProgressOK, ManagerOK, HandlerPC, StopPC, SweepPC, Threads, Sweepers
<1>3. Working' /\ Locked'
  BY <1>1, Known
  DEF QuietMove, QuietClient, Working, Locked, HandlerPC, StopPC, SweepPC, Threads, Sweepers, ProgressOK
<1>4. Listing' /\ StoppedIsUnlisted'
  BY Known DEF QuietSession, Listing, StoppedIsUnlisted, Listed
<1>5. Holding'
  BY Known DEF QuietSession, QuietClient, Holding, Referenced, Listed
<1>6. OnList'
  BY <1>1, Known DEF QuietMove, QuietSession, QuietClient, OnList, HandlerPC, Threads
<1>7. pc[Reaper] = pc'[Reaper] \/ {pc[Reaper], pc'[Reaper]} \subseteq StopPC
  BY <1>1, Known DEF QuietMove, StopPC, Sweepers, Threads
<1>8. Scanning'
  BY <1>7, Known DEF QuietSession, Scanning, StopPC, ManagerOK, Threads, Sweepers
<1>9. \A x \in Threads : pc'[x] \in StopPC <=> pc[x] \in StopPC
  BY <1>1, Known DEF QuietMove, StopPC, HandlerPC
<1>10. Evicted'
  BY <1>9, Known DEF Evicted, Listed
<1>11. \A b \in Sessions : StopDecided(b)' => StopDecided(b)
  BY <1>1, Known DEF QuietMove, QuietSession, StopDecided, HandlerPC
<1>12. StopSparesSettled'
  BY <1>11, Known DEF QuietSession, QuietClient, StopSparesSettled
<1> QED BY <1>2, <1>3, <1>4, <1>5, <1>6, <1>8, <1>10, <1>12 DEF IInv, Fields

\* How a step that changes one session, or none, is seen to be quiet.
LEMMA QuietPut ==
  ASSUME IInv, NEW b \in Sessions, NEW r \in SessionRecord, bc' = [bc EXCEPT ![b] = r],
         r.infohash_ = bc[b].infohash_, r.stopped_ = bc[b].stopped_, r.clients_ \subseteq bc[b].clients_,
         r.stream = bc[b].stream \/ (r.stream # "stopping" /\ bc[b].infohash_ # NoHash)
  PROVE  SessionsOK' /\ \A x \in Sessions : QuietSession(x)
  BY SessionPut, Known DEF SessionsOK, QuietSession

LEMMA QuietSame ==
  ASSUME IInv
  PROVE  /\ UNCHANGED bc => SessionsOK' /\ \A x \in Sessions : QuietSession(x)
         /\ UNCHANGED client => ClientsOK' /\ \A x \in Handlers : QuietClient(x)
  BY Known DEF SessionsOK, QuietSession, ClientsOK, QuietClient

LEMMA QuietClientPut ==
  ASSUME IInv, NEW h \in Handlers, NEW r \in ClientRecord, client' = [client EXCEPT ![h] = r],
         r.held = client[h].held, r.late = client[h].late,
         r.infohash \in Infohashes \cup {client[h].infohash}
  PROVE  ClientsOK' /\ \A x \in Handlers : QuietClient(x)
  BY ClientPut, Known DEF ClientsOK, QuietClient

\* Taking a session out of the map, before it is stopped.
LEMMA TakeOutKeeps ==
  ASSUME IInv, NEW h \in Handlers, NEW b \in Sessions, NEW force \in BOOLEAN,
         pc[h] = "removed", mutex_ = NoThread, b = broadcasts_[client[h].infohash],
         TakeOut(h, b, force), UNCHANGED <<mutex_, bc, client, sweep>>
  PROVE  IInv'
<1> USE ConstantsAssumption DEF manager, sweep
<1>1. client[h].infohash \in Infohashes /\ bc[b].infohash_ = client[h].infohash
  BY Known DEF Working, Listing
<1>2. SessionsOK' /\ ClientsOK'
  BY Known DEF SessionsOK, ClientsOK
<1>3. ProgressOK' /\ ManagerOK'
  BY Known DEF TakeOut, ProgressOK, ManagerOK, HandlerPC, StopPC, SweepPC, Threads, Sweepers
<1>4. /\ job'[h].target = b /\ \A t \in Threads : t # h => job'[t] = job[t]
      /\ pc'[h] = "guard" /\ \A t \in Threads : t # h => pc'[t] = pc[t]
  BY Known DEF TakeOut, ManagerOK, ProgressOK, Threads
<1>5. /\ broadcasts_'[client[h].infohash] = NoSession
      /\ \A i \in Infohashes : i # client[h].infohash => broadcasts_'[i] = broadcasts_[i]
  BY <1>1, Known DEF TakeOut, ManagerOK
<1>6. ~Listed(b)' /\ \A x \in Sessions : Listed(x)' => Listed(x)
  BY <1>1, <1>5, Known DEF Listed, Listing, ManagerOK
<1>7. Working' /\ OnList' /\ Locked'
  BY <1>4, Known DEF Working, OnList, Locked, Threads, Sweepers, StopPC
<1>8. Listing' /\ StoppedIsUnlisted'
  BY <1>1, <1>5, <1>6, Known DEF Listing, StoppedIsUnlisted
<1>9. Holding'
  BY <1>1, <1>4, <1>6, Known DEF Holding, Referenced, Threads, Sweepers
<1>10. Scanning'
  BY <1>4, Known DEF Scanning, Locked, Threads, Sweepers
<1>11. Evicted'
  BY <1>4, <1>6, Known DEF Evicted, Threads, Sweepers, Working, ManagerOK
<1>12. \A x \in Sessions : StopDecided(x)' => StopDecided(x)
  BY <1>4, Known DEF StopDecided
<1>13. StopSparesSettled'
  BY <1>12, Known DEF StopSparesSettled
<1> QED BY <1>2, <1>3, <1>7, <1>8, <1>9, <1>10, <1>11, <1>13 DEF IInv, Fields

\* A handler that returns.
LEMMA ReleaseKeeps ==
  ASSUME IInv, NEW h \in Handlers, pc[h] \in {"removed", "construct"},
         Release(h), mutex_' = mutex_ \/ (mutex_ = h /\ mutex_' = NoThread),
         UNCHANGED <<broadcasts_, bc, job, sweep>>
  PROVE  IInv'
<1> USE ConstantsAssumption DEF manager, sweep
<1>1. SessionsOK' /\ ClientsOK'
  BY Known DEF Release, NoClient, SessionsOK, ClientsOK, ClientRecord
<1>2. ProgressOK' /\ ManagerOK'
  BY Known DEF Release, ProgressOK, ManagerOK, HandlerPC, StopPC, SweepPC, Threads, Sweepers
<1>3. /\ client'[h] = NoClient /\ \A x \in Handlers : x # h => client'[x] = client[x]
      /\ pc'[h] = "idle" /\ \A t \in Threads : t # h => pc'[t] = pc[t]
  BY Known DEF Release, ClientsOK, ProgressOK, Threads
<1>4. Working' /\ OnList' /\ Locked' /\ Scanning' /\ Listing' /\ StoppedIsUnlisted'
  BY <1>3, Known DEF Working, OnList, Locked, Scanning, Listing, StoppedIsUnlisted, Listed, Threads, Sweepers, StopPC
<1>5. Holding' /\ Evicted'
  BY <1>3, Known DEF Holding, Referenced, Listed, Evicted, Threads, Sweepers, StopPC, NoClient
<1>6. \A x \in Sessions : StopDecided(x)' => StopDecided(x)
  BY <1>3, Known DEF StopDecided
<1>7. StopSparesSettled'
  BY <1>3, <1>6, Known DEF StopSparesSettled, OnList
<1> QED BY <1>1, <1>2, <1>4, <1>5, <1>7 DEF IInv, Fields

\* A thread that is done with a stop.
LEMMA ReturnKeeps ==
  ASSUME IInv, NEW t \in Threads, pc[t] \in StopPC, Return(t), UNCHANGED <<manager, bc>>
  PROVE  IInv'
<1> USE ConstantsAssumption DEF manager, sweep
<1>1. job'[t] = NoJob /\ \A x \in Threads : x # t => job'[x] = job[x]
  BY Known DEF Return, ManagerOK
<1>2. /\ pc'[t] \in IF t \in Handlers THEN {"next", "idle"} ELSE {"stops"}
      /\ \A x \in Threads : x # t => pc'[x] = pc[x]
  BY Known DEF Return, Release, ProgressOK
<1>3. \A x \in Handlers : client'[x] = client[x] \/ (x = t /\ client'[x] = NoClient /\ pc'[x] = "idle")
  BY Known DEF Return, Release, ClientsOK, ProgressOK, Threads
<1>4. \A x \in Sweepers : doomed'[x] \subseteq doomed[x]
  BY Known DEF Return, ManagerOK
<1>5. SessionsOK' /\ ClientsOK'
  <2>1. client' = client \/ (t \in Handlers /\ client' = [client EXCEPT ![t] = NoClient])
    BY DEF Return, Release
  <2>2. NoClient \in ClientRecord
    BY DEF NoClient, ClientRecord
  <2> QED BY <2>1, <2>2, ClientPut, Known DEF SessionsOK, ClientsOK
<1>6. ProgressOK'
  BY Known DEF Return, Release, ProgressOK, HandlerPC, StopPC, SweepPC, Threads, Sweepers
<1>7. ManagerOK'
  BY Known DEF Return, NoJob, ManagerOK
<1>8. Working' /\ Locked'
  BY <1>1, <1>2, <1>3, Known DEF Working, Locked, StopPC, Threads, Sweepers
<1>9. Listing' /\ StoppedIsUnlisted'
  BY Known DEF Listing, StoppedIsUnlisted, Listed
<1>10. OnList'
  BY <1>2, <1>3, Known DEF OnList, StopPC, Threads
<1>11. Scanning'
  BY <1>1, <1>2, Known DEF Scanning, Return, StopPC, Threads, Sweepers
<1>12. Holding'
  BY <1>1, <1>3, <1>4, Known DEF Holding, Referenced, Listed, NoClient, NoJob
<1>13. Evicted'
  BY <1>1, <1>2, <1>4, Known DEF Evicted, Listed, StopPC
<1>14. \A x \in Sessions : StopDecided(x)' => StopDecided(x)
  BY <1>1, <1>2, Known DEF StopDecided
<1>15. StopSparesSettled'
  BY <1>2, <1>3, <1>14, Known DEF StopSparesSettled, OnList, StopPC
<1> QED BY <1>5, <1>6, <1>7, <1>8, <1>9, <1>10, <1>11, <1>12, <1>13, <1>15 DEF IInv, Fields

-----------------------------------------------------------------------------
(***************************************************************************)
(* The steps of a handler.                                                 *)
(***************************************************************************)
LEMMA JoinKeeps ==
  ASSUME IInv, NEW h \in Handlers, Join(h)
  PROVE  IInv'
<1> USE ConstantsAssumption DEF Go, manager, sweep
<1>1. ASSUME GetExisting(h)
      PROVE  IInv'
  <2> DEFINE b == broadcasts_[client[h].infohash]
  <2>1. b \in Sessions /\ client[h].infohash \in Infohashes
    BY <1>1, Known DEF GetExisting, Working, ManagerOK
  <2>2. SessionsOK' /\ ClientsOK'
    <3>1. [client[h] EXCEPT !.held = b] \in ClientRecord
      BY Known, <2>1 DEF ClientRecord
    <3> QED BY <1>1, <3>1, ClientPut, Known DEF GetExisting, SessionsOK, ClientsOK
  <2>3. ProgressOK' /\ ManagerOK'
    BY <1>1, Known DEF GetExisting, ProgressOK, ManagerOK, HandlerPC, Threads, Sweepers
  <2>4. /\ client'[h].held = b /\ client'[h].infohash = client[h].infohash
        /\ \A x \in Handlers : x # h => client'[x] = client[x]
    BY <1>1, Known DEF GetExisting, ClientsOK, ClientRecord
  <2>5. /\ pc[h] = "lookup" /\ pc'[h] = "count"
        /\ \A x \in Threads : x # h => pc'[x] = pc[x]
    BY <1>1, Known DEF GetExisting, ProgressOK, Threads
  <2>6. UNCHANGED <<broadcasts_, mutex_, bc, job, doomed, scan, verdict>>
    BY <1>1 DEF GetExisting
  <2> HIDE DEF b
  <2>7. Working' /\ Listing' /\ Locked' /\ Scanning' /\ Evicted' /\ StoppedIsUnlisted'
    BY <2>1, <2>4, <2>5, <2>6, Known
    DEF Working, Listing, Locked, Scanning, Evicted, StoppedIsUnlisted, Listed, StopPC, Threads, Sweepers
  <2>8. Holding'
    BY <2>1, <2>4, <2>6, Known DEF Holding, Referenced, Listed, Listing, b
  <2>9. \A x \in Sessions : StopDecided(x)' => StopDecided(x)
    BY <2>5, <2>6, Known DEF StopDecided
  <2>10. OnList' /\ StopSparesSettled'
    BY <2>4, <2>5, <2>6, <2>9, Known DEF OnList, StopSparesSettled, Threads
  <2> QED BY <2>2, <2>3, <2>7, <2>8, <2>10 DEF IInv, Fields
<1>2. ASSUME BeginConstruct(h)
      PROVE  IInv'
  <2>1. SessionsOK' /\ ClientsOK'
    BY <1>2, Known DEF BeginConstruct, SessionsOK, ClientsOK
  <2>2. ProgressOK' /\ ManagerOK'
    BY <1>2, Known DEF BeginConstruct, ProgressOK, ManagerOK, HandlerPC, Threads, Sweepers
  <2>3. /\ pc[h] = "lookup" /\ pc'[h] = "construct" /\ mutex_' = h /\ mutex_ = NoThread
        /\ \A x \in Threads : x # h => pc'[x] = pc[x]
        /\ UNCHANGED <<broadcasts_, bc, client, job, doomed, scan, verdict>>
    BY <1>2, Known DEF BeginConstruct, ProgressOK, Threads
  <2>4. Working' /\ Listing' /\ Locked' /\ Scanning' /\ Evicted' /\ StoppedIsUnlisted'
    BY <2>3, Known
    DEF Working, Listing, Locked, Scanning, Evicted, StoppedIsUnlisted, Listed, StopPC, Threads, Sweepers
  <2>5. \A x \in Sessions : StopDecided(x)' => StopDecided(x)
    BY <2>3, Known DEF StopDecided
  <2>6. Holding' /\ OnList' /\ StopSparesSettled'
    BY <2>3, <2>5, Known DEF Holding, Referenced, Listed, OnList, StopSparesSettled, Threads
  <2> QED BY <2>1, <2>2, <2>4, <2>6 DEF IInv, Fields
<1>3. ASSUME NEW b \in Sessions, Construct(h, b)
      PROVE  IInv'
  <2>1. client[h].infohash \in Infohashes
    BY <1>3, Known DEF Construct, Working
  <2>2. /\ ~Referenced(b) /\ bc[b].clients_ = {} /\ ~bc[b].stopped_ /\ bc[b].stream = "none"
    BY <1>3, Known DEF Construct, Holding
  <2>3. SessionsOK'
    BY <1>3, <2>1, Known DEF Construct, SessionsOK, SessionRecord
  <2>4. ClientsOK'
    <3>1. [client[h] EXCEPT !.held = b] \in ClientRecord
      BY Known DEF ClientRecord
    <3> QED BY <1>3, <3>1, ClientPut, Known DEF Construct, ClientsOK
  <2>5. ProgressOK' /\ ManagerOK'
    BY <1>3, <2>1, Known DEF Construct, ProgressOK, ManagerOK, HandlerPC, Threads, Sweepers
  <2>6. /\ bc'[b].infohash_ = client[h].infohash /\ bc'[b].clients_ = {}
        /\ ~bc'[b].stopped_ /\ bc'[b].stream = "none"
        /\ \A x \in Sessions : x # b => bc'[x] = bc[x]
    BY <1>3, <2>2, Known DEF Construct, SessionsOK, SessionRecord
  <2>7. /\ client'[h].held = b /\ client'[h].infohash = client[h].infohash
        /\ \A x \in Handlers : x # h => client'[x] = client[x]
    BY <1>3, Known DEF Construct, ClientsOK, ClientRecord
  <2>8. /\ broadcasts_'[client[h].infohash] = b /\ mutex_ = h
        /\ \A i \in Infohashes : i # client[h].infohash => broadcasts_'[i] = broadcasts_[i]
    BY <1>3, <2>1, Known DEF Construct, ManagerOK, Locked
  <2>9. /\ pc[h] = "construct" /\ pc'[h] = "count" /\ UNCHANGED <<job, doomed, scan, verdict>>
        /\ \A x \in Threads : x # h => pc'[x] = pc[x]
    BY <1>3, Known DEF Construct, ProgressOK, Threads
  <2>10. Working'
    BY <2>7, <2>9, Known DEF Working, StopPC, Threads, Sweepers
  <2>11. Listing'
    BY <2>2, <2>6, <2>8, Known DEF Listing, Referenced, Listed
  <2>12. Holding'
    BY <2>1, <2>6, <2>7, <2>8, <2>9, Known DEF Holding, Referenced, Listed
  <2>13. OnList'
    BY <2>6, <2>7, <2>9, Known DEF OnList, Threads
  <2>14. pc'[Reaper] \notin {"scan", "act"} /\ Locked'
    BY <1>3, <2>8, <2>9, Known DEF Construct, Locked, Threads, Sweepers
  <2>15. Scanning'
    BY <2>14 DEF Scanning
  <2>16. \A x \in Sessions : Listed(x)' => Listed(x) \/ x = b
    BY <2>1, <2>8 DEF Listed
  <2>17. Evicted'
    <3>1. (\A t \in Threads : job[t].target # b) /\ (\A t \in Sweepers : b \notin doomed[t])
      BY <2>2 DEF Referenced
    <3>2. \A t \in Threads : pc'[t] \in StopPC => pc[t] \in StopPC
      BY <2>9 DEF StopPC
    <3> QED BY <2>9, <2>16, <3>1, <3>2, Known DEF Evicted, Working, ManagerOK
  <2>18. StoppedIsUnlisted'
    BY <2>6, <2>16, Known DEF StoppedIsUnlisted
  <2>19. \A x \in Sessions : StopDecided(x)' => StopDecided(x)
    BY <2>6, <2>9, Known DEF StopDecided
  <2>20. StopSparesSettled'
    BY <2>6, <2>7, <2>9, <2>19, Known DEF StopSparesSettled, OnList
  <2> QED BY <2>3, <2>4, <2>5, <2>10, <2>11, <2>12, <2>13, <2>14, <2>15, <2>17, <2>18, <2>20
             DEF IInv, Fields
<1>4. ASSUME ConstructFails(h)
      PROVE  IInv'
  <2>1. mutex_ = h /\ pc[h] = "construct"
    BY <1>4, Known DEF ConstructFails, Locked
  <2> QED BY <1>4, <2>1, ReleaseKeeps DEF ConstructFails, Release
<1>5. ASSUME CountIn(h)
      PROVE  IInv'
  <2>1. client[h].held \in Sessions
    BY <1>5, Known DEF CountIn, Working
  <2>2. SessionsOK' /\ \A b \in Sessions : QuietSession(b)
    <3> DEFINE b == client[h].held
               r == [bc[b] EXCEPT !.subscribers_ = @ + 1]
    <3>1. r \in SessionRecord /\ r.infohash_ = bc[b].infohash_ /\ r.stopped_ = bc[b].stopped_
          /\ r.clients_ = bc[b].clients_ /\ r.stream = bc[b].stream
      BY <2>1, Known DEF SessionRecord
    <3>2. bc' = [bc EXCEPT ![b] = r]
      BY <1>5, <2>1, Known DEF CountIn, SessionsOK
    <3> HIDE DEF r, b
    <3> QED BY <2>1, <3>1, <3>2, SessionPut, Known DEF SessionsOK, QuietSession, b
  <2>3. ClientsOK' /\ \A x \in Handlers : QuietClient(x)
    BY <1>5, Known DEF CountIn, ClientsOK, ClientRecord, QuietClient
  <2>4. QuietMove(h, "unzero")
    BY <1>5 DEF CountIn, QuietMove, HandlerPC
  <2> QED BY <1>5, <2>2, <2>3, <2>4, QuietKeeps DEF CountIn, Threads
<1>6. ASSUME ClearZeroTime(h)
      PROVE  IInv'
  <2>1. client[h].held \in Sessions
    BY <1>6, Known DEF ClearZeroTime, Working
  <2>2. SessionsOK' /\ \A b \in Sessions : QuietSession(b)
    BY <1>6, <2>1, Dates, Known DEF ClearZeroTime, SessionsOK, SessionRecord, QuietSession
  <2>3. ClientsOK' /\ \A x \in Handlers : QuietClient(x)
    BY <1>6, Known DEF ClearZeroTime, ClientsOK, QuietClient
  <2>4. QuietMove(h, "enlist")
    BY <1>6 DEF ClearZeroTime, QuietMove, HandlerPC
  <2> QED BY <1>6, <2>2, <2>3, <2>4, QuietKeeps DEF ClearZeroTime, Threads
<1>7. ASSUME Enlist(h)
      PROVE  IInv'
  <2>1. client[h].held \in Sessions
    BY <1>7, Known DEF Enlist, Working
  <2>2. PICK late \in BOOLEAN : late = (StopDecided(client[h].held) \/ bc[client[h].held].stopped_)
    BY <2>1, Known DEF StopDecided, SessionRecord
  <2>3. SessionsOK'
    BY <1>7, <2>1, Known DEF Enlist, SessionsOK, SessionRecord
  <2>4. client' = [client EXCEPT ![h] = [client[h] EXCEPT !.late = late]]
    BY <1>7, <2>2, Known DEF Enlist, ClientsOK
  <2>5. ClientsOK'
    <3>1. [client[h] EXCEPT !.late = late] \in ClientRecord
      BY Known DEF ClientRecord
    <3> QED BY <2>4, <3>1, ClientPut, Known
  <2>6. ProgressOK' /\ ManagerOK'
    BY <1>7, Known DEF Enlist, ProgressOK, ManagerOK, HandlerPC, Threads, Sweepers
  <2>7. /\ pc[h] = "enlist" /\ pc'[h] = "start"
        /\ \A x \in Threads : x # h => pc'[x] = pc[x]
        /\ UNCHANGED <<broadcasts_, mutex_, job, doomed, scan, verdict>>
    BY <1>7, Known DEF Enlist, ProgressOK, Threads
  <2>8. \A x \in Sessions :
          /\ bc'[x].infohash_ = bc[x].infohash_ /\ bc'[x].stopped_ = bc[x].stopped_
          /\ bc'[x].stream = bc[x].stream
          /\ \A y \in bc'[x].clients_ : y \in bc[x].clients_ \/ (x = client[h].held /\ y = h)
    <3>1. \A x \in Sessions : x # client[h].held => bc'[x] = bc[x]
      BY <1>7, Known DEF Enlist, SessionsOK
    <3>2. bc'[client[h].held] = [bc[client[h].held] EXCEPT !.clients_ = @ \cup {h}]
      BY <1>7, <2>1, Known DEF Enlist, SessionsOK
    <3> QED BY <3>1, <3>2, <2>1, Known DEF SessionRecord
  <2>9. /\ client'[h].held = client[h].held /\ client'[h].infohash = client[h].infohash
        /\ client'[h].late = late
        /\ \A x \in Handlers : x # h => client'[x] = client[x]
    BY <2>4, Known DEF ClientsOK, ClientRecord
  <2>10. Working' /\ Locked'
    BY <2>7, <2>9, Known DEF Working, Locked, StopPC, Threads, Sweepers
  <2>11. Listing' /\ StoppedIsUnlisted'
    BY <2>7, <2>8, Known DEF Listing, StoppedIsUnlisted, Listed
  <2>12. Scanning'
    BY <2>7, <2>8, Known DEF Scanning, ManagerOK, Threads, Sweepers
  <2>17. Evicted'
    BY <2>7, Known DEF Evicted, Listed, StopPC
  <2>13. Holding'
    BY <2>1, <2>7, <2>8, <2>9, Known DEF Holding, Referenced, Listed
  <2>14. OnList'
    BY <2>1, <2>7, <2>8, <2>9, Known DEF OnList, Threads
  <2>15. \A x \in Sessions : StopDecided(x)' => StopDecided(x)
    BY <2>7, <2>8, Known DEF StopDecided
  <2>16. StopSparesSettled'
    <3> SUFFICES ASSUME NEW x \in Sessions, bc'[x].stopped_ \/ StopDecided(x)', NEW y \in bc'[x].clients_
                 PROVE  client'[y].late
      BY DEF StopSparesSettled
    <3>1. bc[x].stopped_ \/ StopDecided(x)
      BY <2>8, <2>15
    <3>2. CASE x = client[h].held /\ y = h
      BY <2>2, <2>9, <3>1, <3>2
    <3>3. CASE y \in bc[x].clients_
      BY <2>7, <2>9, <3>1, <3>3, Known DEF StopSparesSettled, OnList
    <3> QED BY <2>8, <3>2, <3>3
  <2> QED BY <2>3, <2>5, <2>6, <2>10, <2>11, <2>12, <2>13, <2>14, <2>16, <2>17
             DEF IInv, Fields
<1>8. ASSUME StartOnce(h)
      PROVE  IInv'
  <2> DEFINE b == client[h].held
             r == [bc[b] EXCEPT !.started_ = TRUE, !.start_time_ = 0, !.running_ = TRUE, !.stream = "spawned"]
  <2>1. b \in Sessions /\ bc[b] \in SessionRecord /\ bc[b].infohash_ # NoHash
    BY <1>8, Known DEF StartOnce, Working, Holding, Referenced
  <2>2. r \in SessionRecord
    BY <2>1, Dates DEF SessionRecord, StreamPC
  <2>3. bc' = bc \/ bc' = [bc EXCEPT ![b] = r]
    BY <1>8, <2>1, Known DEF StartOnce, SessionsOK
  <2>4. /\ r.infohash_ = bc[b].infohash_ /\ r.stopped_ = bc[b].stopped_
        /\ r.clients_ = bc[b].clients_ /\ r.stream = "spawned"
    BY <2>1 DEF SessionRecord
  <2> HIDE DEF r, b
  <2>5. SessionsOK' /\ \A x \in Sessions : QuietSession(x)
    BY <2>1, <2>2, <2>3, <2>4, SessionPut, Known DEF SessionsOK, QuietSession
  <2>6. ClientsOK' /\ \A x \in Handlers : QuietClient(x)
    BY <1>8, Known DEF StartOnce, ClientsOK, QuietClient
  <2>7. QuietMove(h, "attached")
    BY <1>8 DEF StartOnce, QuietMove, HandlerPC
  <2> QED BY <1>8, <2>5, <2>6, <2>7, QuietKeeps DEF StartOnce, Threads
<1> QED BY <1>1, <1>2, <1>3, <1>4, <1>5, <1>6, <1>7, <1>8 DEF Join

LEMMA LeaveKeeps ==
  ASSUME IInv, NEW h \in Handlers, Environment(h) \/ Leave(h)
  PROVE  IInv'
<1> USE ConstantsAssumption DEF Go, manager, sweep
<1> h \in Threads BY DEF Threads
<1>1. ASSUME NEW i \in Infohashes, Request(h, i)
      PROVE  IInv'
  <2>1. ClientsOK' /\ \A x \in Handlers : QuietClient(x)
    <3> DEFINE r == [client[h] EXCEPT !.infohash = i, !.attempted = {i}]
    <3>1. /\ r \in ClientRecord /\ r.held = client[h].held /\ r.late = client[h].late
          /\ r.infohash = i
      BY Known DEF ClientRecord
    <3>2. client' = [client EXCEPT ![h] = r]
      BY <1>1, Known DEF Request, ClientsOK
    <3> HIDE DEF r
    <3> QED BY <3>1, <3>2, QuietClientPut
  <2>2. QuietMove(h, "lookup")
    <3>1. client'[h].infohash = i
      BY <1>1, Known DEF Request, ClientsOK, ClientRecord
    <3> QED BY <1>1, <3>1 DEF Request, QuietMove, HandlerPC
  <2> QED BY <1>1, <2>1, <2>2, QuietSame, QuietKeeps DEF Request
<1>2. ASSUME NEW why \in {"leave", "failover"}, BeginRemove(h, why)
      PROVE  IInv'
  <2>1. ClientsOK' /\ \A x \in Handlers : QuietClient(x)
    <3> DEFINE r == [client[h] EXCEPT !.why = why]
    <3>1. /\ r \in ClientRecord /\ r.held = client[h].held /\ r.late = client[h].late
          /\ r.infohash = client[h].infohash
      BY Known DEF ClientRecord
    <3>2. client' = [client EXCEPT ![h] = r]
      BY <1>2, Known DEF BeginRemove, ClientsOK
    <3> HIDE DEF r
    <3> QED BY <3>1, <3>2, QuietClientPut
  <2>2. QuietMove(h, "erase")
    BY <1>2 DEF BeginRemove, QuietMove, HandlerPC
  <2> QED BY <1>2, <2>1, <2>2, QuietSame, QuietKeeps DEF BeginRemove
<1>3. ASSUME Erase(h)
      PROVE  IInv'
  <2> DEFINE b == client[h].held
             r == [bc[b] EXCEPT !.clients_ = @ \ {h}]
             c == [client[h] EXCEPT !.queue_closed = TRUE]
  <2>1. b \in Sessions /\ pc[h] = "erase"
    BY <1>3, Known DEF Erase, Working
  <2>2. /\ r \in SessionRecord /\ r.infohash_ = bc[b].infohash_ /\ r.stopped_ = bc[b].stopped_
        /\ r.clients_ = bc[b].clients_ \ {h} /\ r.stream = bc[b].stream
    BY <2>1, Known DEF SessionRecord
  <2>3. bc' = [bc EXCEPT ![b] = r] /\ client' = [client EXCEPT ![h] = c]
    BY <1>3, <2>1, Known DEF Erase, SessionsOK, ClientsOK
  <2>4. /\ c \in ClientRecord /\ c.held = client[h].held /\ c.late = client[h].late
        /\ c.infohash = client[h].infohash
    BY Known DEF ClientRecord
  <2> HIDE DEF r, c
  <2>5. \A x \in Sessions : h \notin bc'[x].clients_
    BY <2>1, <2>2, <2>3, Known DEF SessionsOK, OnList
  <2>6. SessionsOK' /\ \A x \in Sessions : QuietSession(x)
    BY <2>1, <2>2, <2>3, QuietPut
  <2>7. ClientsOK' /\ \A x \in Handlers : QuietClient(x)
    BY <2>3, <2>4, QuietClientPut
  <2>8. QuietMove(h, "discount")
    BY <1>3, <2>5 DEF Erase, QuietMove, HandlerPC
  <2> QED BY <1>3, <2>6, <2>7, <2>8, QuietKeeps DEF Erase
<1>4. ASSUME CountOut(h)
      PROVE  IInv'
  <2> DEFINE b == client[h].held
             r == [bc[b] EXCEPT !.subscribers_ = @ - 1]
  <2>1. b \in Sessions /\ pc[h] = "discount"
    BY <1>4, Known DEF CountOut, Working
  <2>2. /\ r \in SessionRecord /\ r.infohash_ = bc[b].infohash_ /\ r.stopped_ = bc[b].stopped_
        /\ r.clients_ = bc[b].clients_ /\ r.stream = bc[b].stream
    BY <2>1, Known DEF SessionRecord
  <2>3. bc' = [bc EXCEPT ![b] = r]
    BY <1>4, <2>1, Known DEF CountOut, SessionsOK
  <2> HIDE DEF r
  <2>4. SessionsOK' /\ \A x \in Sessions : QuietSession(x)
    BY <2>1, <2>2, <2>3, QuietPut
  <2>5. QuietMove(h, "clamp") \/ QuietMove(h, "removed")
    BY <1>4 DEF CountOut, QuietMove, HandlerPC
  <2> QED BY <1>4, <2>4, <2>5, QuietSame, QuietKeeps DEF CountOut
<1>5. ASSUME ClampToZero(h)
      PROVE  IInv'
  <2> DEFINE b == client[h].held
             r == [bc[b] EXCEPT !.subscribers_ = 0]
  <2>1. b \in Sessions /\ pc[h] = "clamp"
    BY <1>5, Known DEF ClampToZero, Working
  <2>2. /\ r \in SessionRecord /\ r.infohash_ = bc[b].infohash_ /\ r.stopped_ = bc[b].stopped_
        /\ r.clients_ = bc[b].clients_ /\ r.stream = bc[b].stream
    BY <2>1, Known DEF SessionRecord
  <2>3. bc' = [bc EXCEPT ![b] = r]
    BY <1>5, <2>1, Known DEF ClampToZero, SessionsOK
  <2> HIDE DEF r
  <2>4. SessionsOK' /\ \A x \in Sessions : QuietSession(x)
    BY <2>1, <2>2, <2>3, QuietPut
  <2>5. QuietMove(h, "stamp")
    BY <1>5 DEF ClampToZero, QuietMove, HandlerPC
  <2> QED BY <1>5, <2>4, <2>5, QuietSame, QuietKeeps DEF ClampToZero
<1>6. ASSUME StampZeroTime(h)
      PROVE  IInv'
  <2> DEFINE b == client[h].held
             r == [bc[b] EXCEPT !.zero_subscribers_time_ = 0]
  <2>1. b \in Sessions /\ pc[h] = "stamp"
    BY <1>6, Known DEF StampZeroTime, Working
  <2>2. /\ r \in SessionRecord /\ r.infohash_ = bc[b].infohash_ /\ r.stopped_ = bc[b].stopped_
        /\ r.clients_ = bc[b].clients_ /\ r.stream = bc[b].stream
    BY <2>1, Dates, Known DEF SessionRecord
  <2>3. bc' = [bc EXCEPT ![b] = r]
    BY <1>6, <2>1, Known DEF StampZeroTime, SessionsOK
  <2> HIDE DEF r
  <2>4. SessionsOK' /\ \A x \in Sessions : QuietSession(x)
    BY <2>1, <2>2, <2>3, QuietPut
  <2>5. QuietMove(h, "removed")
    BY <1>6 DEF StampZeroTime, QuietMove, HandlerPC
  <2> QED BY <1>6, <2>4, <2>5, QuietSame, QuietKeeps DEF StampZeroTime
<1>7. ASSUME NEW i \in Infohashes, NextCandidate(h, i)
      PROVE  IInv'
  <2>1. ClientsOK' /\ \A x \in Handlers : QuietClient(x)
    <3> DEFINE r == [client[h] EXCEPT !.infohash = i, !.attempted = @ \cup {i}]
    <3>1. /\ r \in ClientRecord /\ r.held = client[h].held /\ r.late = client[h].late
          /\ r.infohash = i
      BY Known DEF ClientRecord
    <3>2. client' = [client EXCEPT ![h] = r]
      BY <1>7, Known DEF NextCandidate, ClientsOK
    <3> HIDE DEF r
    <3> QED BY <3>1, <3>2, QuietClientPut
  <2>2. QuietMove(h, "lookup")
    BY <1>7 DEF NextCandidate, QuietMove, HandlerPC
  <2> QED BY <1>7, <2>1, <2>2, QuietSame, QuietKeeps DEF NextCandidate
<1>8. ASSUME Exhausted(h)
      PROVE  IInv'
  <2>1. ClientsOK' /\ \A x \in Handlers : QuietClient(x)
    <3> DEFINE r == [client[h] EXCEPT !.why = "leave"]
    <3>1. /\ r \in ClientRecord /\ r.held = client[h].held /\ r.late = client[h].late
          /\ r.infohash = client[h].infohash
      BY Known DEF ClientRecord
    <3>2. client' = [client EXCEPT ![h] = r]
      BY <1>8, Known DEF Exhausted, ClientsOK
    <3> HIDE DEF r
    <3> QED BY <3>1, <3>2, QuietClientPut
  <2>2. QuietMove(h, "erase")
    BY <1>8 DEF Exhausted, QuietMove, HandlerPC
  <2> QED BY <1>8, <2>1, <2>2, QuietSame, QuietKeeps DEF Exhausted
<1>9. ASSUME RemoveIfEmpty(h)
      PROVE  IInv'
  <2> DEFINE b == broadcasts_[client[h].infohash]
  <2>1. b \in Sessions \cup {NoSession} /\ pc[h] = "removed" /\ mutex_ = NoThread
    BY <1>9, Known DEF RemoveIfEmpty, Working, ManagerOK
  <2>2. CASE TakeOut(h, b, FALSE) /\ UNCHANGED client /\ b # NoSession
    BY <1>9, <2>1, <2>2, TakeOutKeeps DEF RemoveIfEmpty
  <2>3. CASE Release(h) /\ UNCHANGED <<broadcasts_, job>>
    BY <1>9, <2>1, <2>3, ReleaseKeeps DEF RemoveIfEmpty
  <2> QED BY <1>9, <2>2, <2>3 DEF RemoveIfEmpty
<1>10. ASSUME ForceStop(h)
       PROVE  IInv'
  <2> DEFINE b == broadcasts_[client[h].infohash]
  <2>1. b \in Sessions \cup {NoSession} /\ pc[h] = "removed" /\ mutex_ = NoThread
    BY <1>10, Known DEF ForceStop, Working, ManagerOK
  <2>2. CASE TakeOut(h, b, TRUE) /\ b # NoSession
    BY <1>10, <2>1, <2>2, TakeOutKeeps DEF ForceStop
  <2>3. CASE pc' = [pc EXCEPT ![h] = "next"] /\ UNCHANGED <<broadcasts_, job>>
    <3>1. QuietMove(h, "next")
      BY <2>1, <2>3 DEF QuietMove, HandlerPC
    <3> QED BY <1>10, <2>3, <3>1, QuietSame, QuietKeeps DEF ForceStop
  <2> QED BY <1>10, <2>2, <2>3 DEF ForceStop
<1> QED
  BY <1>1, <1>2, <1>3, <1>4, <1>5, <1>6, <1>7, <1>8, <1>9, <1>10
  DEF Environment, Leave, Disconnect, QueueClosed, CandidateFails

-----------------------------------------------------------------------------
(***************************************************************************)
(* The steps of Broadcast::stop.                                           *)
(***************************************************************************)
LEMMA GuardKeeps ==
  ASSUME IInv, NEW t \in Threads, StopGuard(t)
  PROVE  IInv'
<1> USE ConstantsAssumption DEF manager, sweep
<1> DEFINE b == job[t].target
           to == IF job[t].force THEN "clear" ELSE "win"
<1>1. pc[t] = "guard" /\ b \in Sessions /\ ~Listed(b)
  BY Known DEF StopGuard, Working, Evicted, StopPC
<1>2. CASE Return(t)
  BY <1>1, <1>2, ReturnKeeps DEF StopGuard, StopPC
<1>3. CASE Unused(b) /\ pc' = [pc EXCEPT ![t] = to] /\ UNCHANGED <<client, job, sweep>>
  <2>1. UNCHANGED <<broadcasts_, mutex_, bc, client, job, doomed, scan, verdict>>
    BY <1>3 DEF StopGuard
  <2>2. /\ pc'[t] = to /\ to \in {"clear", "win"}
        /\ \A x \in Threads : x # t => pc'[x] = pc[x]
    BY <1>3, Known DEF ProgressOK
  <2> HIDE DEF to
  <2>3. SessionsOK' /\ ClientsOK' /\ ManagerOK'
    BY <2>1, Known DEF SessionsOK, ClientsOK, ManagerOK
  <2>4. ProgressOK'
    BY <1>3, <2>2, Known DEF ProgressOK, HandlerPC, StopPC, SweepPC
  <2>5. \A x \in Threads : pc'[x] \in StopPC <=> pc[x] \in StopPC
    BY <1>1, <2>2 DEF StopPC
  <2>6. Working' /\ Evicted' /\ Locked'
    BY <1>1, <2>1, <2>2, <2>5, Known DEF Working, Evicted, Listed, Locked, StopPC, Threads, Sweepers
  <2>7. Listing' /\ Holding' /\ StoppedIsUnlisted'
    BY <2>1, Known DEF Listing, Holding, Referenced, StoppedIsUnlisted, Listed
  <2>8. OnList' /\ Scanning'
    BY <1>1, <2>1, <2>2, Known DEF OnList, Scanning, Threads, Sweepers
  <2>9. bc[b].clients_ = {}
    BY <1>3 DEF Unused
  <2>10. \A x \in Sessions : StopDecided(x)' => StopDecided(x) \/ x = b
    BY <2>1, <2>2, Known DEF StopDecided
  <2>11. StopSparesSettled'
    BY <2>1, <2>9, <2>10, Known DEF StopSparesSettled
  <2> QED BY <2>3, <2>4, <2>6, <2>7, <2>8, <2>11 DEF IInv, Fields
<1> QED BY <1>2, <1>3 DEF StopGuard, MayStop

LEMMA WinKeeps ==
  ASSUME IInv, NEW t \in Threads, StopWins(t)
  PROVE  IInv'
<1> USE ConstantsAssumption DEF manager, sweep
<1> DEFINE b == job[t].target
           r == [bc[b] EXCEPT !.stopped_ = TRUE, !.running_ = FALSE]
<1>1. pc[t] = "win" /\ b \in Sessions /\ ~Listed(b)
  BY Known DEF StopWins, Working, Evicted, StopPC
<1>2. CASE Return(t) /\ UNCHANGED bc
  BY <1>1, <1>2, ReturnKeeps DEF StopWins, StopPC
<1>3. CASE /\ pc' = [pc EXCEPT ![t] = "close"]
           /\ bc' = [bc EXCEPT ![b].stopped_ = TRUE, ![b].running_ = FALSE]
           /\ UNCHANGED <<client, job, sweep>>
  <2>1. UNCHANGED <<broadcasts_, mutex_, client, job, doomed, scan, verdict>>
    BY <1>3 DEF StopWins
  <2>2. pc'[t] = "close" /\ \A x \in Threads : x # t => pc'[x] = pc[x]
    BY <1>3, Known DEF ProgressOK
  <2>3. bc' = [bc EXCEPT ![b] = r]
    BY <1>1, <1>3, Known DEF SessionsOK, SessionRecord
  <2>4. r \in SessionRecord
    <3>1. bc[b] \in SessionRecord
      BY <1>1, Known
    <3> QED BY <3>1 DEF SessionRecord
  <2>16. /\ r.infohash_ = bc[b].infohash_ /\ r.clients_ = bc[b].clients_ /\ r.stream = bc[b].stream
    BY <1>1, Known DEF SessionRecord
  <2> HIDE DEF r
  <2>5. SessionsOK' /\ ClientsOK' /\ ManagerOK'
    BY <1>1, <2>1, <2>3, <2>4, SessionPut, Known DEF ClientsOK, ManagerOK
  <2>6. \A x \in Sessions : /\ bc'[x].infohash_ = bc[x].infohash_ /\ bc'[x].clients_ = bc[x].clients_
                            /\ bc'[x].stream = bc[x].stream /\ (bc'[x].stopped_ = bc[x].stopped_ \/ x = b)
    BY <2>3, <2>16, Known DEF SessionsOK
  <2>7. ProgressOK'
    BY <1>3, <2>2, Known DEF ProgressOK, HandlerPC, StopPC, SweepPC
  <2>8. \A x \in Threads : pc'[x] \in StopPC <=> pc[x] \in StopPC
    BY <1>1, <2>2 DEF StopPC
  <2>9. Working' /\ Evicted' /\ Locked'
    BY <1>1, <2>1, <2>2, <2>8, Known DEF Working, Evicted, Listed, Locked, StopPC, Threads, Sweepers
  <2>10. Listing' /\ StoppedIsUnlisted'
    BY <1>1, <2>1, <2>6, Known DEF Listing, StoppedIsUnlisted, Listed
  <2>11. Holding'
    BY <1>1, <2>1, <2>6, Known DEF Holding, Referenced, Listed
  <2>12. OnList' /\ Scanning'
    BY <1>1, <2>1, <2>2, <2>6, Known DEF OnList, Scanning, ManagerOK, Threads, Sweepers
  <2>13. \A x \in Sessions : StopDecided(x)' => StopDecided(x)
    BY <1>1, <2>1, <2>2, <2>6, Known DEF StopDecided
  <2>14. StopDecided(b)
    BY <1>1 DEF StopDecided
  <2>15. StopSparesSettled'
    BY <2>1, <2>6, <2>13, <2>14, Known DEF StopSparesSettled
  <2> QED BY <2>5, <2>7, <2>9, <2>10, <2>11, <2>12, <2>15 DEF IInv, Fields
<1> QED BY <1>2, <1>3 DEF StopWins

\* Closing the queues of a session changes no handler otherwise.
LEMMA CloseIsQuiet ==
  ASSUME IInv, NEW b \in Sessions, CloseQueues(b)
  PROVE  ClientsOK' /\ \A x \in Handlers : QuietClient(x)
<1>1. ASSUME NEW x \in Handlers
      PROVE  client'[x] \in ClientRecord /\ QuietClient(x)
  <2> PICK v \in BOOLEAN : v = (client[x].queue_closed \/ x \in bc[b].clients_)
    BY Known DEF ClientRecord
  <2>1. client'[x] = [client[x] EXCEPT !.queue_closed = v]
    BY DEF CloseQueues
  <2> QED BY <2>1, Known DEF ClientRecord, QuietClient
<1>2. client' = [x \in Handlers |-> client'[x]]
  BY DEF CloseQueues
<1> QED BY <1>1, <1>2 DEF ClientsOK

LEMMA StopKeeps ==
  ASSUME IInv, NEW t \in Threads, Stop(t)
  PROVE  IInv'
<1> USE ConstantsAssumption DEF Go, manager, sweep
<1>1. ASSUME StopClearsCount(t)
      PROVE  IInv'
  <2> DEFINE b == job[t].target
             r == [bc[b] EXCEPT !.subscribers_ = 0]
  <2>1. b \in Sessions /\ pc[t] = "clear"
    BY <1>1, Known DEF StopClearsCount, Working, StopPC
  <2>2. /\ r \in SessionRecord /\ r.infohash_ = bc[b].infohash_ /\ r.stopped_ = bc[b].stopped_
        /\ r.clients_ = bc[b].clients_ /\ r.stream = bc[b].stream
    BY <2>1, Known DEF SessionRecord
  <2>3. bc' = [bc EXCEPT ![b] = r]
    BY <1>1, <2>1, Known DEF StopClearsCount, SessionsOK
  <2> HIDE DEF r
  <2>4. SessionsOK' /\ \A x \in Sessions : QuietSession(x)
    BY <2>1, <2>2, <2>3, QuietPut
  <2>5. QuietMove(t, "win")
    BY <1>1 DEF StopClearsCount, QuietMove
  <2> QED BY <1>1, <2>4, <2>5, QuietSame, QuietKeeps DEF StopClearsCount
<1>2. ASSUME StopCloses(t)
      PROVE  IInv'
  <2>1. job[t].target \in Sessions
    BY <1>2, Known DEF StopCloses, Working, StopPC
  <2>2. QuietMove(t, "send")
    BY <1>2 DEF StopCloses, QuietMove
  <2> QED BY <1>2, <2>1, <2>2, CloseIsQuiet, QuietSame, QuietKeeps DEF StopCloses
<1>3. ASSUME StopSends(t)
      PROVE  IInv'
  <2> DEFINE b == job[t].target
             r == [bc[b] EXCEPT !.ace = "shut"]
  <2>1. b \in Sessions /\ pc[t] = "send"
    BY <1>3, Known DEF StopSends, Working, StopPC
  <2>2. /\ r \in SessionRecord /\ r.infohash_ = bc[b].infohash_ /\ r.stopped_ = bc[b].stopped_
        /\ r.clients_ = bc[b].clients_ /\ r.stream = bc[b].stream
    BY <2>1, Known DEF SessionRecord
  <2>3. bc' = [bc EXCEPT ![b] = r]
    BY <1>3, <2>1, Known DEF StopSends, SessionsOK
  <2> HIDE DEF r
  <2>4. SessionsOK' /\ \A x \in Sessions : QuietSession(x)
    BY <2>1, <2>2, <2>3, QuietPut
  <2>5. QuietMove(t, "join")
    BY <1>3 DEF StopSends, QuietMove
  <2> QED BY <1>3, <2>4, <2>5, QuietSame, QuietKeeps DEF StopSends
<1>4. ASSUME StopJoins(t)
      PROVE  IInv'
  <2>1. pc[t] \in StopPC /\ Return(t) /\ UNCHANGED <<manager, bc>>
    BY <1>4 DEF StopJoins, StopPC
  <2> QED BY <2>1, ReturnKeeps
<1> QED BY <1>1, <1>2, <1>3, <1>4, GuardKeeps, WinKeeps DEF Stop

-----------------------------------------------------------------------------
(***************************************************************************)
(* The steps of the reaper and of stop_all.                                *)
(***************************************************************************)
\* A step that changes no session and no client, and decides no stop.
LEMMA BystandersKept ==
  ASSUME IInv, UNCHANGED <<bc, client>>,
         \A x \in Sessions : StopDecided(x)' => StopDecided(x)
  PROVE  /\ SessionsOK' /\ ClientsOK' /\ StopSparesSettled'
         /\ (\A h \in Handlers : pc'[h] = pc[h]) => OnList'
  BY Known DEF SessionsOK, ClientsOK, StopSparesSettled, OnList

LEMMA StopAllKeeps ==
  ASSUME IInv, NEW t \in Closers, StopAll(t)
  PROVE  IInv'
<1> USE ConstantsAssumption DEF Go, manager, sweep
<1>1. /\ mutex_ = NoThread /\ pc[t] = "sleep" /\ t \notin Handlers /\ t \in Sweepers /\ t \in Threads /\ t # Reaper
      /\ UNCHANGED <<mutex_, bc, client, job, scan, verdict>>
  BY DEF StopAll, Sweepers, Threads
<1>2. pc'[t] = "stops" /\ \A x \in Threads : x # t => pc'[x] = pc[x]
  BY <1>1, Known DEF StopAll, ProgressOK
<1>3. /\ doomed'[t] \subseteq Sessions
      /\ \A x \in Sweepers : x # t => doomed'[x] = doomed[x]
      /\ \A b \in doomed'[t] : Listed(b)
  BY <1>1, Known DEF StopAll, ManagerOK
<1>4. \A i \in Infohashes : broadcasts_'[i] = NoSession
  BY DEF StopAll
<1>5. \A b \in Sessions : ~Listed(b)'
  BY <1>4 DEF Listed
<1>6. ProgressOK' /\ ManagerOK'
  BY <1>1, <1>2, Known DEF StopAll, ProgressOK, ManagerOK, HandlerPC, StopPC, SweepPC, Threads, Sweepers
<1>7. \A x \in Sessions : StopDecided(x)' => StopDecided(x)
  BY <1>1, <1>2 DEF StopDecided
<1>8. Working' /\ Locked'
  BY <1>1, <1>2, Known DEF Working, Locked, StopPC, Threads, Sweepers
<1>9. Listing' /\ StoppedIsUnlisted'
  BY <1>4, <1>5 DEF Listing, StoppedIsUnlisted
<1>10. Holding'
  BY <1>1, <1>3, <1>5, Known DEF Holding, Referenced
<1>11. Scanning'
  BY <1>1, <1>2, Known DEF Scanning, Locked, Threads, Sweepers
<1>12. Evicted'
  BY <1>5, <1>8, <1>6 DEF Evicted, Working, ManagerOK
<1>13. \A h \in Handlers : pc'[h] = pc[h]
  BY <1>1, <1>2 DEF Threads
<1> QED BY <1>1, <1>6, <1>7, <1>8, <1>9, <1>10, <1>11, <1>12, <1>13, BystandersKept DEF IInv, Fields

LEMMA SweepKeeps ==
  ASSUME IInv, NEW t \in Sweepers, Sweep(t)
  PROVE  IInv'
<1> USE ConstantsAssumption DEF Go, manager, sweep
<1>1. t \in Threads /\ t \notin Handlers
  BY DEF Sweepers, Threads
<1>2. ASSUME NEW b \in Sessions, SweepStop(t, b)
      PROVE  IInv'
  <2>1. /\ pc[t] = "stops" /\ b \in doomed[t] /\ ~Listed(b)
        /\ UNCHANGED <<broadcasts_, mutex_, bc, client, doomed, scan, verdict>>
    BY <1>2, Known DEF SweepStop, Evicted
  <2>2. /\ pc'[t] = "guard" /\ job'[t].target = b
        /\ \A x \in Threads : x # t => pc'[x] = pc[x] /\ job'[x] = job[x]
    BY <1>1, <1>2, Known DEF SweepStop, ProgressOK, ManagerOK
  <2>3. ProgressOK'
    BY <1>1, <1>2, <2>2, Known DEF SweepStop, ProgressOK, HandlerPC, StopPC, SweepPC, Threads, Sweepers
  <2>4. ManagerOK'
    BY <1>1, <1>2, Known DEF SweepStop, ManagerOK
  <2>5. Working' /\ Locked' /\ Evicted'
    BY <1>1, <2>1, <2>2, Known DEF Working, Locked, Evicted, Listed, StopPC, Threads, Sweepers
  <2>6. Listing' /\ StoppedIsUnlisted'
    BY <2>1, Known DEF Listing, StoppedIsUnlisted, Listed
  <2>7. Holding'
    BY <2>1, <2>2, Known DEF Holding, Referenced, Listed
  <2>8. Scanning'
    BY <1>1, <2>1, <2>2, Known DEF Scanning, Threads, Sweepers
  <2>9. \A x \in Sessions : StopDecided(x)' => StopDecided(x)
    BY <2>1, <2>2 DEF StopDecided
  <2>10. \A h \in Handlers : pc'[h] = pc[h]
    BY <1>1, <2>2 DEF Threads
  <2> QED BY <2>1, <2>3, <2>4, <2>5, <2>6, <2>7, <2>8, <2>9, <2>10, BystandersKept DEF IInv, Fields
<1>3. ASSUME SweepDone(t)
      PROVE  IInv'
  <2> DEFINE to == IF t = Reaper THEN "sleep" ELSE "done"
  <2>1. pc[t] = "stops" /\ UNCHANGED <<broadcasts_, mutex_, bc, client, job, doomed, scan, verdict>>
    BY <1>3 DEF SweepDone
  <2>2. /\ pc' = [pc EXCEPT ![t] = to] /\ pc'[t] = to /\ to \in {"sleep", "done"}
        /\ \A x \in Threads : x # t => pc'[x] = pc[x]
    BY <1>1, <1>3, Known DEF SweepDone, ProgressOK
  <2> HIDE DEF to
  <2>3. ProgressOK' /\ ManagerOK'
    BY <1>1, <2>1, <2>2, Known DEF ProgressOK, ManagerOK, HandlerPC, StopPC, SweepPC, Threads, Sweepers
  <2>4. Working' /\ Locked' /\ Evicted'
    BY <1>1, <2>1, <2>2, Known DEF Working, Locked, Evicted, Listed, StopPC, Threads, Sweepers
  <2>5. Listing' /\ StoppedIsUnlisted' /\ Holding'
    BY <2>1, Known DEF Listing, StoppedIsUnlisted, Listed, Holding, Referenced
  <2>6. Scanning'
    BY <1>1, <2>1, <2>2, Known DEF Scanning, Threads, Sweepers
  <2>7. \A x \in Sessions : StopDecided(x)' => StopDecided(x)
    BY <2>1, <2>2 DEF StopDecided
  <2>8. \A h \in Handlers : pc'[h] = pc[h]
    BY <1>1, <2>2 DEF Threads
  <2> QED BY <2>1, <2>3, <2>4, <2>5, <2>6, <2>7, <2>8, BystandersKept DEF IInv, Fields
<1> QED BY <1>2, <1>3 DEF Sweep

LEMMA ReapKeeps ==
  ASSUME IInv, ReapBegin \/ Reap
  PROVE  IInv'
<1> USE ConstantsAssumption DEF Go, manager, sweep
<1>1. Reaper \in Sweepers /\ Reaper \in Threads /\ Reaper \notin Handlers
  BY DEF Sweepers, Threads
<1>2. ASSUME ReapBegin
      PROVE  IInv'
  <2>1. /\ pc[Reaper] = "sleep" /\ pc'[Reaper] = "scan" /\ mutex_ = NoThread /\ mutex_' = Reaper
        /\ \A x \in Threads : x # Reaper => pc'[x] = pc[x]
        /\ \A i \in scan' : i \in Infohashes /\ broadcasts_[i] # NoSession
        /\ UNCHANGED <<broadcasts_, bc, client, job, doomed, verdict>>
    BY <1>1, <1>2, Known DEF ReapBegin, ProgressOK
  <2>2. ProgressOK' /\ ManagerOK'
    BY <1>1, <1>2, Known DEF ReapBegin, ProgressOK, ManagerOK, HandlerPC, StopPC, SweepPC, Threads, Sweepers
  <2>3. Working' /\ Evicted'
    BY <1>1, <2>1, Known DEF Working, Evicted, Listed, StopPC, Threads
  <2>4. Locked' /\ Scanning'
    BY <1>1, <2>1, Known DEF Locked, Scanning, Threads
  <2>5. Listing' /\ StoppedIsUnlisted' /\ Holding'
    BY <2>1, Known DEF Listing, StoppedIsUnlisted, Listed, Holding, Referenced
  <2>6. \A x \in Sessions : StopDecided(x)' => StopDecided(x)
    BY <2>1 DEF StopDecided
  <2>7. \A h \in Handlers : pc'[h] = pc[h]
    BY <1>1, <2>1 DEF Threads
  <2> QED BY <2>1, <2>2, <2>3, <2>4, <2>5, <2>6, <2>7, BystandersKept DEF IInv, Fields
<1>3. ASSUME NEW i \in Infohashes, ReapLook(i)
      PROVE  IInv'
  <2> DEFINE b == broadcasts_[i]
  <2>1. /\ pc[Reaper] = "scan" /\ i \in scan /\ scan' = scan \ {i}
        /\ UNCHANGED <<broadcasts_, mutex_, bc, client, doomed>>
    BY <1>3 DEF ReapLook
  <2>2. b \in Sessions /\ bc[b].infohash_ = i
    BY <1>1, <2>1, Known DEF Scanning, Listing, ManagerOK
  <2>3. /\ \/ pc' = pc /\ job' = job
           \/ /\ pc' = [pc EXCEPT ![Reaper] = "act"]
              /\ job' = [job EXCEPT ![Reaper] = [job[Reaper] EXCEPT !.target = b]]
    BY <1>3 DEF ReapLook
  <2>4. /\ \/ pc'[Reaper] = "scan"
           \/ pc'[Reaper] = "act" /\ job'[Reaper].target = b
        /\ \A x \in Threads : x # Reaper => pc'[x] = pc[x] /\ job'[x] = job[x]
        /\ job'[Reaper].target \in {b, job[Reaper].target}
    BY <1>1, <2>1, <2>3, Known DEF ProgressOK, ManagerOK
  <2>5. ProgressOK'
    BY <1>1, <2>3, Known DEF ProgressOK, HandlerPC, StopPC, SweepPC, Threads, Sweepers
  <2>6. verdict' \in {"none", "reset", "mark", "evict"}
    BY <1>3 DEF ReapLook, Judge
  <2>7. ManagerOK'
    BY <1>1, <2>1, <2>2, <2>3, <2>6, Known DEF ManagerOK
  <2> HIDE DEF b
  <2>8. Working' /\ Evicted'
    BY <1>1, <2>1, <2>4, Known DEF Working, Evicted, Listed, StopPC, Threads
  <2>9. Locked' /\ Scanning'
    BY <1>1, <2>1, <2>2, <2>4, Known DEF Locked, Scanning, Threads
  <2>10. Listing' /\ StoppedIsUnlisted'
    BY <2>1, Known DEF Listing, StoppedIsUnlisted, Listed
  <2>11. Holding'
    BY <2>1, <2>2, <2>4, Known DEF Holding, Referenced, Listed
  <2>12. \A x \in Sessions : StopDecided(x)' => StopDecided(x)
    BY <2>1, <2>4 DEF StopDecided
  <2>13. \A h \in Handlers : pc'[h] = pc[h]
    BY <1>1, <2>4 DEF Threads
  <2> QED BY <2>1, <2>5, <2>7, <2>8, <2>9, <2>10, <2>11, <2>12, <2>13, BystandersKept DEF IInv, Fields
<1>4. ASSUME ReapUnlock
      PROVE  IInv'
  <2>1. /\ pc[Reaper] = "scan" /\ pc'[Reaper] = "stops" /\ mutex_ = Reaper
        /\ \A x \in Threads : x # Reaper => pc'[x] = pc[x]
        /\ UNCHANGED <<broadcasts_, bc, client, job, doomed, scan, verdict>>
    BY <1>1, <1>4, Known DEF ReapUnlock, ProgressOK, Locked
  <2>2. ProgressOK' /\ ManagerOK'
    BY <1>1, <1>4, Known DEF ReapUnlock, ProgressOK, ManagerOK, HandlerPC, StopPC, SweepPC, Threads, Sweepers
  <2>3. Working' /\ Evicted'
    BY <1>1, <2>1, Known DEF Working, Evicted, Listed, StopPC, Threads
  <2>4. Locked' /\ Scanning'
    BY <1>1, <2>1, Known DEF Locked, Scanning, Threads
  <2>5. Listing' /\ StoppedIsUnlisted' /\ Holding'
    BY <2>1, Known DEF Listing, StoppedIsUnlisted, Listed, Holding, Referenced
  <2>6. \A x \in Sessions : StopDecided(x)' => StopDecided(x)
    BY <2>1 DEF StopDecided
  <2>7. \A h \in Handlers : pc'[h] = pc[h]
    BY <1>1, <2>1 DEF Threads
  <2> QED BY <2>1, <2>2, <2>3, <2>4, <2>5, <2>6, <2>7, BystandersKept DEF IInv, Fields
<1>5. ASSUME ReapAct
      PROVE  IInv'
  <2>0. PICK b \in Sessions : b = job[Reaper].target
    BY <1>1, <1>5, Known DEF ReapAct, Scanning, ManagerOK
  <2>1. pc[Reaper] = "act" /\ mutex_ = Reaper /\ UNCHANGED <<mutex_, client, scan>>
    BY <1>5, Known DEF ReapAct, Locked
  <2>2. /\ pc'[Reaper] = "scan" /\ job'[Reaper] = NoJob
        /\ \A x \in Threads : x # Reaper => pc'[x] = pc[x] /\ job'[x] = job[x]
    BY <1>1, <1>5, Known DEF ReapAct, ProgressOK, ManagerOK
  <2>3. PICK v \in {Unset, 0} : bc' = bc \/ bc' = [bc EXCEPT ![b] = [bc[b] EXCEPT !.zero_subscribers_time_ = v]]
    BY <1>5, <2>0, Known DEF ReapAct, SessionsOK
  <2> DEFINE r == [bc[b] EXCEPT !.zero_subscribers_time_ = v]
  <2>4. /\ r \in SessionRecord /\ r.infohash_ = bc[b].infohash_ /\ r.stopped_ = bc[b].stopped_
        /\ r.clients_ = bc[b].clients_ /\ r.stream = bc[b].stream
    BY <2>1, Dates, Known DEF SessionRecord
  <2>5. bc' = bc \/ bc' = [bc EXCEPT ![b] = r]
    BY <2>3
  <2> HIDE DEF r
  <2>6. SessionsOK' /\ ClientsOK'
    BY <2>1, <2>4, <2>5, SessionPut, Known DEF SessionsOK, ClientsOK
  <2>7. \A x \in Sessions : /\ bc'[x].infohash_ = bc[x].infohash_ /\ bc'[x].stopped_ = bc[x].stopped_
                            /\ bc'[x].clients_ = bc[x].clients_ /\ bc'[x].stream = bc[x].stream
    BY <2>4, <2>5, Known DEF SessionsOK
  <2>8. \/ UNCHANGED <<broadcasts_, doomed>>
        \/ /\ broadcasts_' = [broadcasts_ EXCEPT ![bc[b].infohash_] = NoSession]
           /\ doomed' = [doomed EXCEPT ![Reaper] = @ \cup {b}]
    BY <1>5, <2>0 DEF ReapAct
  <2>9. \A i \in Infohashes : broadcasts_'[i] = broadcasts_[i] \/ (i = bc[b].infohash_ /\ broadcasts_'[i] = NoSession)
    BY <2>8, Known DEF ManagerOK
  <2>10. \A x \in Sessions : Listed(x)' => Listed(x)
    BY <2>9, Known DEF Listed, ManagerOK
  <2>11. /\ \A x \in Sweepers : x # Reaper => doomed'[x] = doomed[x]
         /\ \A x \in doomed'[Reaper] : x \in doomed[Reaper] \/ (x = b /\ ~Listed(b)')
    <3>1. CASE UNCHANGED <<broadcasts_, doomed>>
      BY <3>1
    <3>2. CASE /\ broadcasts_' = [broadcasts_ EXCEPT ![bc[b].infohash_] = NoSession]
               /\ doomed' = [doomed EXCEPT ![Reaper] = @ \cup {b}]
      <4>1. ~Listed(b)'
        BY <2>1, <3>2, Known DEF Listed, Listing, ManagerOK
      <4> QED BY <1>1, <3>2, <4>1, Known DEF ManagerOK
    <3> QED BY <2>8, <3>1, <3>2
  <2>12. ProgressOK'
    BY <1>1, <1>5, Known DEF ReapAct, ProgressOK, HandlerPC, StopPC, SweepPC, Threads, Sweepers
  <2>13. ManagerOK'
    BY <1>1, <1>5, <2>1, <2>8, Known DEF ReapAct, NoJob, ManagerOK
  <2>14. Working' /\ Locked'
    BY <1>1, <2>1, <2>2, Known DEF Working, Locked, StopPC, Threads
  <2>15. Listing' /\ StoppedIsUnlisted'
    BY <2>7, <2>9, <2>10, Known DEF Listing, StoppedIsUnlisted
  <2>16. Holding'
    <3> SUFFICES ASSUME NEW x \in Sessions, bc'[x].infohash_ = NoHash
                 PROVE  /\ ~Referenced(x)'
                        /\ bc'[x].clients_ = {} /\ ~bc'[x].stopped_ /\ bc'[x].stream = "none"
      BY DEF Holding
    <3>1. ~Referenced(x) /\ bc[x].clients_ = {} /\ ~bc[x].stopped_ /\ bc[x].stream = "none"
      BY <2>7, Known DEF Holding
    <3>2. x # b
      BY <1>1, <2>0, <3>1 DEF Referenced
    <3> QED BY <2>1, <2>2, <2>7, <2>10, <2>11, <3>1, <3>2 DEF Referenced, NoJob
  <2>17. Scanning'
    BY <2>0, <2>1, <2>2, <2>9, Known DEF Scanning, ManagerOK
  <2>18. Evicted'
    <3>1. \A x \in Threads : pc'[x] \in StopPC => pc[x] \in StopPC /\ job'[x] = job[x]
      BY <2>2 DEF StopPC
    <3> QED BY <2>10, <2>11, <3>1, Known DEF Evicted, Working, ManagerOK
  <2>19. \A x \in Sessions : StopDecided(x)' => StopDecided(x)
    BY <2>2, <2>7 DEF StopDecided
  <2>20. OnList' /\ StopSparesSettled'
    BY <1>1, <2>1, <2>2, <2>7, <2>19, Known DEF OnList, StopSparesSettled, Threads
  <2> QED BY <2>6, <2>12, <2>13, <2>14, <2>15, <2>16, <2>17, <2>18, <2>20 DEF IInv, Fields
<1> QED BY <1>2, <1>3, <1>4, <1>5 DEF Reap

-----------------------------------------------------------------------------
(***************************************************************************)
(* The steps of the stream threads, the end of a session, and time.        *)
(***************************************************************************)
\* Nobody moves: where nobody is, somebody stays.
LEMMA QuietStay ==
  ASSUME IInv, UNCHANGED pc
  PROVE  QuietMove(Reaper, pc[Reaper]) /\ Reaper \in Threads
  BY Known DEF QuietMove, ProgressOK, Threads, Sweepers

LEMMA StreamKeeps ==
  ASSUME IInv, NEW b \in Sessions, StreamThread(b)
  PROVE  IInv'
<1> USE ConstantsAssumption DEF manager, sweep
<1>1. bc[b].stream \in StreamPC /\ bc[b].stream # "none" /\ bc[b].infohash_ # NoHash
  BY Known DEF StreamThread, StreamStart, StreamUrl, StreamEnd, StreamDecide, StreamStops, StreamCloses,
               Holding, SessionRecord
<1>2. ASSUME StreamStart(b)
      PROVE  IInv'
  <2> DEFINE r == [bc[b] EXCEPT !.start_time_ = 0, !.stream = "starting", !.ace = "started"]
             s == [bc[b] EXCEPT !.start_time_ = 0, !.stream = "ended", !.running_ = FALSE]
  <2>1. bc' = [bc EXCEPT ![b] = r] \/ bc' = [bc EXCEPT ![b] = s]
    BY <1>2, Known DEF StreamStart, SessionsOK
  <2>2. /\ r \in SessionRecord /\ r.infohash_ = bc[b].infohash_ /\ r.stopped_ = bc[b].stopped_
        /\ r.clients_ = bc[b].clients_ /\ r.stream = "starting"
    BY Dates, Known DEF SessionRecord, StreamPC
  <2>3. /\ s \in SessionRecord /\ s.infohash_ = bc[b].infohash_ /\ s.stopped_ = bc[b].stopped_
        /\ s.clients_ = bc[b].clients_ /\ s.stream = "ended"
    BY Dates, Known DEF SessionRecord, StreamPC
  <2> HIDE DEF r, s
  <2>4. SessionsOK' /\ \A x \in Sessions : QuietSession(x)
    BY <1>1, <2>1, <2>2, <2>3, QuietPut
  <2> QED BY <1>2, <2>4, QuietStay, QuietSame, QuietKeeps DEF StreamStart
<1>3. ASSUME NEW p \in {"streaming", "ended"}, NEW on \in BOOLEAN,
             bc' = [bc EXCEPT ![b] = [bc[b] EXCEPT !.stream = p, !.running_ = on]],
             UNCHANGED <<manager, client, job, sweep, pc>>
      PROVE  IInv'
  <2> DEFINE r == [bc[b] EXCEPT !.stream = p, !.running_ = on]
  <2>1. r \in SessionRecord
    BY Known DEF SessionRecord, StreamPC
  <2>2. /\ r.infohash_ = bc[b].infohash_ /\ r.stopped_ = bc[b].stopped_
        /\ r.clients_ = bc[b].clients_ /\ r.stream # "stopping"
    BY Known DEF SessionRecord
  <2> HIDE DEF r
  <2>3. SessionsOK' /\ \A x \in Sessions : QuietSession(x)
    BY <1>1, <1>3, <2>1, <2>2, QuietPut DEF r
  <2> QED BY <1>3, <2>3, QuietStay, QuietSame, QuietKeeps
<1>4. ASSUME StreamUrl(b)
      PROVE  IInv'
  <2>1. bc' = [bc EXCEPT ![b] = [bc[b] EXCEPT !.stream = "streaming", !.running_ = bc[b].running_]]
    BY <1>4, Known DEF StreamUrl, SessionsOK, SessionRecord
  <2>2. bc[b].running_ \in BOOLEAN
    BY Known DEF SessionRecord
  <2> QED BY <1>3, <1>4, <2>1, <2>2 DEF StreamUrl
<1>5. ASSUME StreamEnd(b)
      PROVE  IInv'
  <2>1. bc' = [bc EXCEPT ![b] = [bc[b] EXCEPT !.stream = "ended", !.running_ = FALSE]]
    BY <1>5, Known DEF StreamEnd, SessionsOK
  <2> QED BY <1>3, <1>5, <2>1 DEF StreamEnd
<1>6. ASSUME StreamStops(b)
      PROVE  IInv'
  <2> DEFINE r == [bc[b] EXCEPT !.stream = "closing", !.ace = "shut"]
  <2>1. bc' = [bc EXCEPT ![b] = r]
    BY <1>6, Known DEF StreamStops, SessionsOK
  <2>2. /\ r \in SessionRecord /\ r.infohash_ = bc[b].infohash_ /\ r.stopped_ = bc[b].stopped_
        /\ r.clients_ = bc[b].clients_ /\ r.stream = "closing"
    BY Known DEF SessionRecord, StreamPC
  <2> HIDE DEF r
  <2>3. SessionsOK' /\ \A x \in Sessions : QuietSession(x)
    BY <1>1, <2>1, <2>2, QuietPut
  <2> QED BY <1>6, <2>3, QuietStay, QuietSame, QuietKeeps DEF StreamStops
<1>7. ASSUME StreamCloses(b)
      PROVE  IInv'
  <2> DEFINE r == [bc[b] EXCEPT !.stream = "done"]
  <2>1. bc' = [bc EXCEPT ![b] = r]
    BY <1>7, Known DEF StreamCloses, SessionsOK
  <2>2. /\ r \in SessionRecord /\ r.infohash_ = bc[b].infohash_ /\ r.stopped_ = bc[b].stopped_
        /\ r.clients_ = bc[b].clients_ /\ r.stream = "done"
    BY Known DEF SessionRecord, StreamPC
  <2> HIDE DEF r
  <2>3. SessionsOK' /\ \A x \in Sessions : QuietSession(x)
    BY <1>1, <2>1, <2>2, QuietPut
  <2>4. ClientsOK' /\ \A x \in Handlers : QuietClient(x)
    BY <1>7, CloseIsQuiet DEF StreamCloses
  <2> QED BY <1>7, <2>3, <2>4, QuietStay, QuietKeeps DEF StreamCloses
<1>8. ASSUME StreamDecide(b)
      PROVE  IInv'
  <2> DEFINE to == bc'[b].stream
             r == [bc[b] EXCEPT !.stream = to]
  <2>1. /\ bc' = [bc EXCEPT ![b] = r] /\ to \in {"stopping", "closing"}
        /\ to = "stopping" => bc[b].clients_ = {}
    BY <1>8, Known DEF StreamDecide, SessionsOK, SessionRecord, Unused
  <2> HIDE DEF to
  <2>2. /\ r \in SessionRecord /\ r.infohash_ = bc[b].infohash_ /\ r.stopped_ = bc[b].stopped_
        /\ r.clients_ = bc[b].clients_ /\ r.stream = to
    BY <2>1, Known DEF SessionRecord, StreamPC
  <2> HIDE DEF r
  <2>3. UNCHANGED <<broadcasts_, mutex_, client, job, doomed, scan, verdict, pc>>
    BY <1>8 DEF StreamDecide
  <2>4. SessionsOK' /\ ClientsOK' /\ ProgressOK' /\ ManagerOK'
    BY <2>1, <2>2, <2>3, SessionPut, Known DEF ClientsOK, ProgressOK, ManagerOK
  <2>5. \A x \in Sessions : /\ bc'[x].infohash_ = bc[x].infohash_ /\ bc'[x].stopped_ = bc[x].stopped_
                            /\ bc'[x].clients_ = bc[x].clients_
                            /\ x # b => bc'[x].stream = bc[x].stream
    BY <2>1, <2>2, Known DEF SessionsOK
  <2>6. Working' /\ Evicted' /\ Locked'
    BY <2>3, Known DEF Working, Evicted, Listed, Locked
  <2>7. Listing' /\ StoppedIsUnlisted'
    BY <2>3, <2>5, Known DEF Listing, StoppedIsUnlisted, Listed
  <2>8. Holding'
    BY <1>1, <2>3, <2>5, Known DEF Holding, Referenced, Listed
  <2>9. OnList' /\ Scanning'
    BY <2>3, <2>5, Known DEF OnList, Scanning, ManagerOK, Threads, Sweepers
  <2>10. \A x \in Sessions : StopDecided(x)' => StopDecided(x) \/ (x = b /\ bc[b].clients_ = {})
    BY <2>1, <2>2, <2>3, <2>5, Known DEF StopDecided, SessionsOK
  <2>11. StopSparesSettled'
    BY <2>3, <2>5, <2>10, Known DEF StopSparesSettled
  <2> QED BY <2>4, <2>6, <2>7, <2>8, <2>9, <2>11 DEF IInv, Fields
<1> QED BY <1>2, <1>4, <1>5, <1>6, <1>7, <1>8 DEF StreamThread

\* A session that nobody refers to has no client and is in nobody's hands.
LEMMA ExpiredIsAlone ==
  ASSUME IInv, NEW b \in Sessions, ~Referenced(b)
  PROVE  /\ bc[b].clients_ = {} /\ ~Listed(b)
         /\ \A t \in Threads : job[t].target # b
  BY Known DEF Referenced, OnList

LEMMA DestroyKeeps ==
  ASSUME IInv, NEW b \in Sessions, Destroy(b)
  PROVE  IInv'
<1> USE ConstantsAssumption DEF manager, sweep
<1> DEFINE r == [bc[b] EXCEPT !.running_ = FALSE, !.stopped_ = TRUE, !.ace = "shut"]
<1>1. bc[b].infohash_ # NoHash /\ bc[b].clients_ = {} /\ ~Listed(b)
  BY ExpiredIsAlone DEF Destroy, Expired
<1>2. UNCHANGED <<broadcasts_, mutex_, job, doomed, scan, verdict, pc>>
  BY DEF Destroy
<1>3. bc' = [bc EXCEPT ![b] = r]
  BY Known DEF Destroy, SessionsOK
<1>4. r \in SessionRecord
  BY Known DEF SessionRecord
<1>5. r.infohash_ = bc[b].infohash_ /\ r.clients_ = bc[b].clients_ /\ r.stream = bc[b].stream
  BY Known DEF SessionRecord
<1> HIDE DEF r
<1>6. ClientsOK' /\ \A x \in Handlers : QuietClient(x)
  BY CloseIsQuiet DEF Destroy
<1>7. SessionsOK' /\ ProgressOK' /\ ManagerOK'
  BY <1>2, <1>3, <1>4, SessionPut, Known DEF ProgressOK, ManagerOK
<1>8. \A x \in Sessions : /\ bc'[x].infohash_ = bc[x].infohash_ /\ bc'[x].clients_ = bc[x].clients_
                          /\ bc'[x].stream = bc[x].stream /\ (bc'[x].stopped_ = bc[x].stopped_ \/ x = b)
  BY <1>3, <1>5, Known DEF SessionsOK
<1>9. \A x \in Handlers : client'[x].held = client[x].held /\ client'[x].late = client[x].late
  BY <1>6 DEF QuietClient
<1>10. Working'
  BY <1>2, <1>6, Known DEF Working, QuietClient
<1>11. Locked' /\ Evicted'
  BY <1>2, Known DEF Locked, Evicted, Listed
<1>12. Listing' /\ StoppedIsUnlisted'
  BY <1>1, <1>2, <1>8, Known DEF Listing, StoppedIsUnlisted, Listed
<1>13. Holding'
  BY <1>1, <1>2, <1>8, <1>9, Known DEF Holding, Referenced, Listed
<1>14. OnList'
  BY <1>2, <1>8, <1>9, Known DEF OnList
<1>15. Scanning'
  BY <1>2, <1>8, Known DEF Scanning, ManagerOK, Threads, Sweepers
<1>16. \A x \in Sessions : StopDecided(x)' => StopDecided(x)
  BY <1>2, <1>8 DEF StopDecided
<1>17. StopSparesSettled'
  BY <1>1, <1>8, <1>9, <1>16, Known DEF StopSparesSettled
<1> QED BY <1>6, <1>7, <1>10, <1>11, <1>12, <1>13, <1>14, <1>15, <1>17 DEF IInv, Fields

LEMMA FreeKeeps ==
  ASSUME IInv, NEW b \in Sessions, Free(b)
  PROVE  IInv'
<1> USE ConstantsAssumption DEF manager, sweep
<1>1. ~Referenced(b) /\ ~Listed(b) /\ \A t \in Threads : job[t].target # b
  BY ExpiredIsAlone DEF Free, Expired
<1>2. bc' = [bc EXCEPT ![b] = Unborn] /\ UNCHANGED <<broadcasts_, mutex_, client, job, doomed, scan, verdict, pc>>
  BY DEF Free
<1>3. Unborn \in SessionRecord
  BY Dates DEF Unborn, SessionRecord, StreamPC, Unset
<1>4. SessionsOK' /\ ClientsOK' /\ ProgressOK' /\ ManagerOK'
  BY <1>2, <1>3, SessionPut, Known DEF ClientsOK, ProgressOK, ManagerOK
<1>5. bc'[b] = Unborn /\ \A x \in Sessions : x # b => bc'[x] = bc[x]
  BY <1>2, Known DEF SessionsOK
<1>6. Working' /\ Locked' /\ Evicted'
  BY <1>2, Known DEF Working, Locked, Evicted, Listed
<1>7. Listing'
  BY <1>1, <1>2, <1>5, Known DEF Listing, Listed
<1>8. StoppedIsUnlisted'
  BY <1>2, <1>5, Known DEF StoppedIsUnlisted, Listed, Unborn
<1>9. Holding'
  BY <1>1, <1>2, <1>5, Known DEF Holding, Referenced, Listed, Unborn
<1>10. OnList'
  BY <1>2, <1>5, Known DEF OnList, Unborn
<1>11. Scanning'
  BY <1>1, <1>2, <1>5, Known DEF Scanning, ManagerOK, Threads, Sweepers
<1>12. \A x \in Sessions : StopDecided(x)' => StopDecided(x)
  BY <1>2, <1>5 DEF StopDecided, Unborn
<1>13. StopSparesSettled'
  BY <1>2, <1>5, <1>12, Known DEF StopSparesSettled, Unborn
<1> QED BY <1>4, <1>6, <1>7, <1>8, <1>9, <1>10, <1>11, <1>13 DEF IInv, Fields

LEMMA TickKeeps ==
  ASSUME IInv, Tick
  PROVE  IInv'
<1> USE ConstantsAssumption
<1>1. ASSUME NEW b \in Sessions
      PROVE  bc'[b] \in SessionRecord /\ QuietSession(b)
  <2> DEFINE z == Later(bc[b].zero_subscribers_time_, Linger)
             s == Later(bc[b].start_time_, Startup)
  <2>1. z \in Unset..Linger /\ s \in Unset..Startup
    BY Known DEF SessionRecord, Later, Unset
  <2>2. bc'[b] = [bc[b] EXCEPT !.zero_subscribers_time_ = z, !.start_time_ = s]
    BY DEF Tick
  <2> HIDE DEF z, s
  <2>3. bc'[b] \in SessionRecord
    BY <2>1, <2>2, Known DEF SessionRecord
  <2>4. QuietSession(b)
    BY <2>2, Known DEF SessionRecord, QuietSession
  <2> QED BY <2>3, <2>4
<1>2. bc' = [b \in Sessions |-> bc'[b]]
  BY DEF Tick
<1>3. SessionsOK'
  BY <1>1, <1>2 DEF SessionsOK
<1>4. UNCHANGED <<manager, client, job, sweep, pc>>
  BY DEF Tick
<1> QED BY <1>1, <1>3, <1>4, QuietStay, QuietSame, QuietKeeps

-----------------------------------------------------------------------------
(***************************************************************************)
(* The theorems.                                                           *)
(***************************************************************************)
LEMMA InitInvariant == Init => IInv
<1> SUFFICES ASSUME Init PROVE IInv
  OBVIOUS
<1> USE ConstantsAssumption DEF Init
<1>1. Unborn \in SessionRecord /\ NoClient \in ClientRecord
  BY Dates DEF Unborn, SessionRecord, StreamPC, Unset, NoClient, ClientRecord
<1>2. SessionsOK /\ ClientsOK
  BY <1>1 DEF SessionsOK, ClientsOK
<1>3. ProgressOK /\ ManagerOK
  BY DEF ProgressOK, ManagerOK, NoJob, HandlerPC, StopPC, SweepPC, Threads, Sweepers
<1>4. Working /\ Listing /\ Locked
  BY DEF Working, Listing, Locked, HandlerPC, StopPC, Threads, Sweepers
<1>5. Holding
  BY DEF Holding, Referenced, Listed, Unborn, NoClient, NoJob
<1>6. OnList /\ Scanning
  BY DEF OnList, Scanning, Unborn, Threads, Sweepers
<1>7. Evicted
  BY DEF Evicted, Listed, StopPC
<1>8. StoppedIsUnlisted /\ StopSparesSettled
  BY DEF StoppedIsUnlisted, StopSparesSettled, Unborn
<1> QED BY <1>2, <1>3, <1>4, <1>5, <1>6, <1>7, <1>8 DEF IInv, Fields

LEMMA NextInvariant == IInv /\ [Next]_vars => IInv'
<1> SUFFICES ASSUME IInv, [Next]_vars PROVE IInv'
  OBVIOUS
<1>1. CASE UNCHANGED vars
  <2>1. UNCHANGED <<manager, bc, client, job, sweep, pc>>
    BY <1>1 DEF vars
  <2> QED BY <2>1, QuietStay, QuietSame, QuietKeeps
<1>2. CASE Next
  BY <1>2, JoinKeeps, LeaveKeeps, StopKeeps, SweepKeeps, StopAllKeeps, ReapKeeps,
     StreamKeeps, DestroyKeeps, FreeKeeps, TickKeeps DEF Next
<1> QED BY <1>1, <1>2

\* IInv holds in every reachable state: the argument the theorems rest on.
THEOREM Invariance == Spec => []IInv
  BY InitInvariant, NextInvariant, PTL DEF Spec

\* get_or_create never hands out a session that stop() or the destructor ended.
THEOREM NothingStoppedIsHandedOut == Spec => []StoppedIsUnlisted
<1>1. IInv => StoppedIsUnlisted
  BY DEF IInv
<1> QED BY <1>1, Invariance, PTL

\* A stop only cuts off clients that joined after its guard had looked.
THEOREM OnlyLateClientsAreCutOff == Spec => []StopSparesSettled
<1>1. IInv => StopSparesSettled
  BY DEF IInv
<1> QED BY <1>1, Invariance, PTL

-----------------------------------------------------------------------------
(***************************************************************************)
(* The count of a session. Most steps leave it, or set it to 0, and take   *)
(* nobody out of those it counts, or is about to be set back for.          *)
(***************************************************************************)
CountedPC == {"unzero", "enlist", "start", "attached", "erase", "discount"}

CountInv == NoOvercount /\ Passing

\* A handler that is counted stays so, and one that found the counter at zero or below
\* still has to set it back, or has done so.
StaysCounted(h) ==
  /\ pc[h] \in CountedPC => pc'[h] \in CountedPC /\ client'[h].held = client[h].held
  /\ pc[h] = "clamp" => /\ client'[h].held = client[h].held
                        /\ pc'[h] = "clamp" \/ bc'[client[h].held].subscribers_ = 0

CountLeft(b) == bc'[b].subscribers_ \in {0, bc[b].subscribers_}

LEMMA CountedFinite ==
  ASSUME NEW b
  PROVE  IsFiniteSet(Counted(b)) /\ Cardinality(Counted(b)) \in Nat
<1>1. Counted(b) \subseteq Handlers
  BY DEF Counted
<1> QED BY <1>1, ConstantsAssumption, FS_Subset, FS_CardinalityType

LEMMA CountedFiniteNext ==
  ASSUME NEW b
  PROVE  IsFiniteSet(Counted(b)') /\ Cardinality(Counted(b)') \in Nat
<1>1. Counted(b)' \subseteq Handlers
  BY DEF Counted
<1> QED BY <1>1, ConstantsAssumption, FS_Subset, FS_CardinalityType

LEMMA QuietCount ==
  ASSUME IInv, CountInv, \A h \in Handlers : StaysCounted(h), \A b \in Sessions : CountLeft(b)
  PROVE  CountInv'
<1>1. ASSUME NEW b \in Sessions
      PROVE  bc'[b].subscribers_ <= Cardinality(Counted(b)')
  <2>1. Counted(b) \subseteq Counted(b)'
    BY DEF Counted, StaysCounted, CountedPC
  <2>2. Cardinality(Counted(b)) <= Cardinality(Counted(b)')
    BY <2>1, CountedFiniteNext, FS_Subset
  <2>3. Cardinality(Counted(b)) \in Nat /\ Cardinality(Counted(b)') \in Nat
    BY CountedFinite, CountedFiniteNext
  <2>4. bc[b].subscribers_ \in Int
    BY Known DEF SessionRecord
  <2> QED BY <2>2, <2>3, <2>4 DEF CountInv, NoOvercount, CountLeft
<1>2. ASSUME NEW b \in Sessions, bc'[b].subscribers_ < 0
      PROVE  \E h \in Handlers : client'[h].held = b /\ pc'[h] = "clamp"
  <2>1. bc'[b].subscribers_ = bc[b].subscribers_ /\ bc'[b].subscribers_ # 0
    BY <1>2 DEF CountLeft
  <2>2. PICK h \in Handlers : client[h].held = b /\ pc[h] = "clamp"
    BY <1>2, <2>1 DEF CountInv, Passing
  <2> QED BY <2>1, <2>2 DEF StaysCounted
<1> QED BY <1>1, <1>2 DEF CountInv, NoOvercount, Passing

LEMMA JoinKeepsCount ==
  ASSUME IInv, CountInv, NEW h \in Handlers, Join(h)
  PROVE  CountInv'
<1> USE DEF Go, CountedPC
<1>1. ASSUME CountIn(h)
      PROVE  CountInv'
  <2> DEFINE s == client[h].held
  <2>1. s \in Sessions /\ h \in Threads
    BY <1>1, Known DEF CountIn, Working, Threads
  <2>2. /\ bc'[s].subscribers_ = bc[s].subscribers_ + 1
        /\ \A b \in Sessions : b # s => bc'[b] = bc[b]
    BY <1>1, <2>1, Known DEF CountIn, SessionsOK, SessionRecord
  <2>3. /\ pc[h] = "count" /\ pc'[h] = "unzero"
        /\ \A x \in Handlers : x # h => pc'[x] = pc[x]
        /\ \A x \in Handlers : client'[x].held = client[x].held
    BY <1>1, Known DEF CountIn, ProgressOK, ClientsOK, ClientRecord, Threads
  <2> HIDE DEF s
  <2>7. Passing'
    <3> SUFFICES ASSUME NEW b \in Sessions, bc'[b].subscribers_ < 0
                 PROVE  \E x \in Handlers : client'[x].held = b /\ pc'[x] = "clamp"
      BY DEF Passing
    <3>1. bc[b].subscribers_ \in Int
      BY Known DEF SessionRecord
    <3>2. bc[b].subscribers_ < 0
      BY <2>2, <3>1
    <3> QED BY <2>2, <2>3, <3>1, <3>2 DEF CountInv, Passing
  <2> SUFFICES ASSUME NEW b \in Sessions
               PROVE  bc'[b].subscribers_ <= Cardinality(Counted(b)')
    BY <2>7 DEF CountInv, NoOvercount
  <2>4. bc[b].subscribers_ \in Int /\ bc[b].subscribers_ <= Cardinality(Counted(b))
    BY Known DEF SessionRecord, CountInv, NoOvercount
  <2>5. CASE b = s
    <3>1. h \notin Counted(b) /\ Counted(b)' = Counted(b) \cup {h}
      BY <2>3, <2>5 DEF Counted, s
    <3>2. Cardinality(Counted(b)') = Cardinality(Counted(b)) + 1
      BY <3>1, CountedFinite, FS_AddElement
    <3>3. Cardinality(Counted(b)) \in Nat
      BY CountedFinite
    <3> QED BY <2>2, <2>4, <2>5, <3>2, <3>3
  <2>6. CASE b # s
    <3>1. Counted(b)' = Counted(b)
      BY <2>3, <2>6 DEF Counted, s
    <3> QED BY <2>2, <2>4, <2>6, <3>1
  <2> QED BY <2>5, <2>6
<1>2. ASSUME \/ GetExisting(h) \/ BeginConstruct(h) \/ ConstructFails(h)
             \/ (\E b \in Sessions : Construct(h, b))
      PROVE  CountInv'
  <2>1. \A x \in Handlers : StaysCounted(x)
    BY <1>2, Known DEF GetExisting, BeginConstruct, Construct, ConstructFails, StaysCounted,
       ProgressOK, ClientsOK, Threads
  <2>2. \A b \in Sessions : CountLeft(b)
    BY <1>2, Known DEF GetExisting, BeginConstruct, Construct, ConstructFails, CountLeft,
       SessionsOK, SessionRecord
  <2> QED BY <2>1, <2>2, QuietCount
<1>3. ASSUME ClearZeroTime(h) \/ Enlist(h) \/ StartOnce(h)
      PROVE  CountInv'
  <2>1. \A x \in Handlers : StaysCounted(x)
    BY <1>3, Known DEF ClearZeroTime, Enlist, StartOnce, StaysCounted,
       ProgressOK, ClientsOK, ClientRecord, Threads
  <2>2. \A b \in Sessions : CountLeft(b)
    BY <1>3, Known DEF ClearZeroTime, Enlist, StartOnce, CountLeft, SessionsOK, SessionRecord
  <2> QED BY <2>1, <2>2, QuietCount
<1> QED BY <1>1, <1>2, <1>3 DEF Join

LEMMA LeaveKeepsCount ==
  ASSUME IInv, CountInv, NEW h \in Handlers, Environment(h) \/ Leave(h)
  PROVE  CountInv'
<1> USE DEF Go, CountedPC
<1>1. ASSUME CountOut(h)
      PROVE  CountInv'
  <2> DEFINE s == client[h].held
  <2>1. s \in Sessions /\ h \in Threads
    BY <1>1, Known DEF CountOut, Working, Threads
  <2>2. /\ bc'[s].subscribers_ = bc[s].subscribers_ - 1
        /\ \A b \in Sessions : b # s => bc'[b] = bc[b]
    BY <1>1, <2>1, Known DEF CountOut, SessionsOK, SessionRecord
  <2>3. /\ pc[h] = "discount" /\ pc'[h] = IF bc[s].subscribers_ - 1 <= 0 THEN "clamp" ELSE "removed"
        /\ \A x \in Handlers : x # h => pc'[x] = pc[x]
        /\ client' = client
    BY <1>1, Known DEF CountOut, ProgressOK, Threads
  <2> HIDE DEF s
  <2>7. Passing'
    <3> SUFFICES ASSUME NEW b \in Sessions, bc'[b].subscribers_ < 0
                 PROVE  \E x \in Handlers : client'[x].held = b /\ pc'[x] = "clamp"
      BY DEF Passing
    <3>1. bc[b].subscribers_ \in Int
      BY Known DEF SessionRecord
    <3>2. CASE b = s
      BY <2>2, <2>3, <3>1, <3>2 DEF s
    <3>3. CASE b # s
      <4>1. PICK x \in Handlers : client[x].held = b /\ pc[x] = "clamp"
        BY <2>2, <3>3 DEF CountInv, Passing
      <4> QED BY <2>3, <4>1
    <3> QED BY <3>2, <3>3
  <2> SUFFICES ASSUME NEW b \in Sessions
               PROVE  bc'[b].subscribers_ <= Cardinality(Counted(b)')
    BY <2>7 DEF CountInv, NoOvercount
  <2>4. bc[b].subscribers_ \in Int /\ bc[b].subscribers_ <= Cardinality(Counted(b))
    BY Known DEF SessionRecord, CountInv, NoOvercount
  <2>5. CASE b = s
    <3>1. h \in Counted(b) /\ Counted(b)' = Counted(b) \ {h}
      BY <2>3, <2>5 DEF Counted, s
    <3>2. Cardinality(Counted(b)') = Cardinality(Counted(b)) - 1
      BY <3>1, CountedFinite, FS_RemoveElement
    <3>3. Cardinality(Counted(b)) \in Nat
      BY CountedFinite
    <3> QED BY <2>2, <2>4, <2>5, <3>2, <3>3
  <2>6. CASE b # s
    <3>1. Counted(b)' = Counted(b)
      BY <2>3, <2>6 DEF Counted, s
    <3> QED BY <2>2, <2>4, <2>6, <3>1
  <2> QED BY <2>5, <2>6
<1>2. ASSUME \/ \E i \in Infohashes : Request(h, i) \/ NextCandidate(h, i)
             \/ \E why \in {"leave", "failover"} : BeginRemove(h, why)
             \/ Exhausted(h)
      PROVE  CountInv'
  <2>1. \A x \in Handlers : StaysCounted(x)
    <3>1. /\ pc[h] \in {"idle", "attached", "next"}
          /\ pc[h] = "attached" => pc'[h] = "erase"
          /\ \A x \in Handlers : x # h => pc'[x] = pc[x]
      BY <1>2, Known DEF Request, NextCandidate, BeginRemove, Exhausted, ProgressOK, Threads
    <3>2. \A x \in Handlers : client'[x].held = client[x].held
      <4>1. \/ \E i, v : client' = [client EXCEPT ![h].infohash = i, ![h].attempted = v]
            \/ \E why : client' = [client EXCEPT ![h].why = why]
        <5>1. CASE \E i \in Infohashes : Request(h, i)
          BY <5>1 DEF Request
        <5>2. CASE \E i \in Infohashes : NextCandidate(h, i)
          BY <5>2 DEF NextCandidate
        <5>3. CASE Exhausted(h) \/ \E why \in {"leave", "failover"} : BeginRemove(h, why)
          BY <5>3 DEF BeginRemove, Exhausted
        <5> QED BY <1>2, <5>1, <5>2, <5>3
      <4>2. ASSUME NEW i, NEW v, client' = [client EXCEPT ![h].infohash = i, ![h].attempted = v]
            PROVE  \A x \in Handlers : client'[x].held = client[x].held
        BY <4>2, Known DEF ClientsOK, ClientRecord
      <4>3. ASSUME NEW why, client' = [client EXCEPT ![h].why = why]
            PROVE  \A x \in Handlers : client'[x].held = client[x].held
        BY <4>3, Known DEF ClientsOK, ClientRecord
      <4> QED BY <4>1, <4>2, <4>3
    <3> QED BY <3>1, <3>2 DEF StaysCounted
  <2>2. \A b \in Sessions : CountLeft(b)
    BY <1>2, Known DEF Request, NextCandidate, BeginRemove, Exhausted, CountLeft
  <2> QED BY <2>1, <2>2, QuietCount
<1>3. ASSUME Erase(h) \/ ClampToZero(h) \/ StampZeroTime(h)
      PROVE  CountInv'
  <2>1. \A x \in Handlers : StaysCounted(x)
    <3>1. ASSUME Erase(h) \/ StampZeroTime(h)
          PROVE  \A x \in Handlers : StaysCounted(x)
      BY <3>1, Known DEF Erase, StampZeroTime, StaysCounted, ProgressOK, ClientsOK, ClientRecord, Threads
    <3>2. ASSUME ClampToZero(h)
          PROVE  \A x \in Handlers : StaysCounted(x)
      <4>1. bc'[client[h].held].subscribers_ = 0
        BY <3>2, Known DEF ClampToZero, Working, SessionsOK, SessionRecord
      <4> QED BY <3>2, <4>1, Known DEF ClampToZero, StaysCounted, ProgressOK, Threads
    <3> QED BY <1>3, <3>1, <3>2
  <2>2. \A b \in Sessions : CountLeft(b)
    BY <1>3, Known DEF Erase, ClampToZero, StampZeroTime, CountLeft, SessionsOK, SessionRecord
  <2> QED BY <2>1, <2>2, QuietCount
<1>4. ASSUME RemoveIfEmpty(h) \/ ForceStop(h)
      PROVE  CountInv'
  <2>1. \A x \in Handlers : StaysCounted(x)
    BY <1>4, Known DEF RemoveIfEmpty, ForceStop, TakeOut, Release, StaysCounted,
       ProgressOK, ClientsOK, Threads
  <2>2. \A b \in Sessions : CountLeft(b)
    BY <1>4, Known DEF RemoveIfEmpty, ForceStop, CountLeft
  <2> QED BY <2>1, <2>2, QuietCount
<1> QED BY <1>1, <1>2, <1>3, <1>4 DEF Environment, Leave, Disconnect, CandidateFails, QueueClosed

\* Closing queues leaves the sessions the handlers hold.
LEMMA ClosingKeepsHeld ==
  ASSUME IInv, NEW b, CloseQueues(b)
  PROVE  \A h \in Handlers : client'[h].held = client[h].held
  BY Known DEF CloseQueues, ClientRecord

LEMMA StopKeepsCount ==
  ASSUME IInv, CountInv, NEW t \in Threads, Stop(t)
  PROVE  CountInv'
<1> USE DEF Go, CountedPC
<1>1. pc[t] \in StopPC
  BY DEF Stop, StopGuard, StopClearsCount, StopWins, StopCloses, StopSends, StopJoins, StopPC
<1>2. \A b \in Sessions : CountLeft(b)
  <2>1. job[t].target \in Sessions
    BY <1>1, Known DEF Working
  <2>2. \/ bc' = bc
        \/ bc' = [bc EXCEPT ![job[t].target].subscribers_ = 0]
        \/ bc' = [bc EXCEPT ![job[t].target].stopped_ = TRUE, ![job[t].target].running_ = FALSE]
        \/ bc' = [bc EXCEPT ![job[t].target].ace = "shut"]
    BY DEF Stop, StopGuard, StopClearsCount, StopWins, StopCloses, StopSends, StopJoins
  <2> QED BY <2>1, <2>2, Known DEF CountLeft, SessionsOK, SessionRecord
<1>3. pc[t] \notin CountedPC \cup {"clamp"} /\ \A x \in Threads : x # t => pc'[x] = pc[x]
  BY <1>1, Known DEF Stop, StopGuard, StopClearsCount, StopWins, StopCloses, StopSends, StopJoins,
     Return, Release, StopPC, ProgressOK
<1>4. \A x \in Handlers : x # t => client'[x].held = client[x].held
  <2>1. ASSUME StopCloses(t)
        PROVE  \A x \in Handlers : client'[x].held = client[x].held
    BY <2>1, ClosingKeepsHeld DEF StopCloses
  <2>2. ASSUME ~StopCloses(t)
        PROVE  client' = client \/ client' = [client EXCEPT ![t] = NoClient]
    BY <2>2 DEF Stop, StopGuard, StopClearsCount, StopWins, StopSends, StopJoins, Return, Release
  <2> QED BY <2>1, <2>2, Known DEF ClientsOK
<1>5. \A x \in Handlers : StaysCounted(x)
  BY <1>3, <1>4 DEF StaysCounted, Threads
<1> QED BY <1>2, <1>5, QuietCount

\* The reaper, stop_all, the stream threads, the destructor and time.
LEMMA OthersKeepCount ==
  ASSUME IInv, CountInv,
         \/ \E t \in Sweepers : Sweep(t)
         \/ \E t \in Closers : StopAll(t)
         \/ ReapBegin \/ Reap
         \/ \E b \in Sessions : StreamThread(b) \/ Destroy(b) \/ Free(b)
         \/ Tick
  PROVE  CountInv'
<1> USE DEF Go, CountedPC
<1>1. \A x \in Handlers : pc'[x] = pc[x]
  <2>1. \A x \in Handlers : x \notin Sweepers /\ x \in Threads
    BY ConstantsAssumption DEF Sweepers, Threads
  <2>2. pc' = pc \/ \E t \in Sweepers, to \in SweepPC \cup StopPC : pc' = [pc EXCEPT ![t] = to]
    BY DEF Sweep, SweepStop, SweepDone, StopAll, ReapBegin, Reap, ReapLook, ReapAct, ReapUnlock,
       StreamThread, StreamStart, StreamUrl, StreamEnd, StreamDecide, StreamStops, StreamCloses,
       Destroy, Free, Tick, Sweepers, SweepPC, StopPC
  <2> QED BY <2>1, <2>2, Known DEF ProgressOK
<1>2. \A x \in Handlers : client'[x].held = client[x].held
  <2>1. client' = client \/ \E b \in Sessions : CloseQueues(b)
    BY DEF Sweep, SweepStop, SweepDone, StopAll, ReapBegin, Reap, ReapLook, ReapAct, ReapUnlock,
       StreamThread, StreamStart, StreamUrl, StreamEnd, StreamDecide, StreamStops, StreamCloses,
       Destroy, Free, Tick
  <2> QED BY <2>1, ClosingKeepsHeld
<1>3. \A b \in Sessions : CountLeft(b)
  <2>1. ASSUME NEW b \in Sessions, StreamThread(b) \/ Destroy(b) \/ Free(b)
        PROVE  \A x \in Sessions : CountLeft(x)
    <3>1. CASE bc'[b].subscribers_ \in {0, bc[b].subscribers_}
               /\ \A x \in Sessions : x # b => bc'[x] = bc[x]
      BY <3>1 DEF CountLeft
    <3>2. CASE StreamStart(b) \/ StreamUrl(b) \/ StreamEnd(b)
      BY <3>1, <3>2, Known DEF StreamStart, StreamUrl, StreamEnd, SessionsOK, SessionRecord
    <3>3. CASE StreamDecide(b) \/ StreamStops(b) \/ StreamCloses(b)
      <4>1. \/ \E v : bc' = [bc EXCEPT ![b].stream = v]
            \/ bc' = [bc EXCEPT ![b].stream = "closing", ![b].ace = "shut"]
        BY <3>3 DEF StreamDecide, StreamStops, StreamCloses
      <4> QED BY <3>1, <4>1, Known DEF SessionsOK, SessionRecord
    <3>4. CASE Destroy(b) \/ Free(b)
      <4>1. \/ bc' = [bc EXCEPT ![b].running_ = FALSE, ![b].stopped_ = TRUE, ![b].ace = "shut"]
            \/ bc' = [bc EXCEPT ![b] = Unborn]
        BY <3>4 DEF Destroy, Free
      <4>2. Unborn.subscribers_ = 0
        BY DEF Unborn
      <4> QED BY <3>1, <4>1, <4>2, Known DEF SessionsOK, SessionRecord
    <3> QED BY <2>1, <3>2, <3>3, <3>4 DEF StreamThread
  <2>2. ASSUME Tick
        PROVE  \A x \in Sessions : CountLeft(x)
    BY <2>2, Known DEF Tick, CountLeft, SessionsOK, SessionRecord
  <2>3. ASSUME ReapAct
        PROVE  \A x \in Sessions : CountLeft(x)
    <3> DEFINE r == job[Reaper].target
    <3>1. bc' = bc \/ \E v : bc' = [bc EXCEPT ![r].zero_subscribers_time_ = v]
      BY <2>3 DEF ReapAct
    <3> HIDE DEF r
    <3> QED BY <3>1, Known DEF CountLeft, SessionsOK, SessionRecord
  <2>4. ASSUME bc' = bc
        PROVE  \A x \in Sessions : CountLeft(x)
    BY <2>4 DEF CountLeft
  <2> QED BY <2>1, <2>2, <2>3, <2>4 DEF Sweep, SweepStop, SweepDone, StopAll, ReapBegin, Reap,
          ReapLook, ReapUnlock
<1>4. \A x \in Handlers : StaysCounted(x)
  BY <1>1, <1>2 DEF StaysCounted
<1> QED BY <1>3, <1>4, QuietCount

LEMMA CountStep == IInv /\ CountInv /\ [Next]_vars => CountInv'
<1> SUFFICES ASSUME IInv, CountInv, [Next]_vars PROVE CountInv'
  OBVIOUS
<1>1. CASE UNCHANGED vars
  BY <1>1 DEF vars, manager, sweep, CountInv, Passing, NoOvercount, Counted
<1>2. CASE Next
  BY <1>2, JoinKeepsCount, LeaveKeepsCount, StopKeepsCount, OthersKeepCount DEF Next
<1> QED BY <1>1, <1>2

LEMMA Counting == Spec => []CountInv
<1>1. Init => CountInv
  <2> SUFFICES ASSUME Init, NEW b \in Sessions
               PROVE  bc[b].subscribers_ <= Cardinality(Counted(b)) /\ ~(bc[b].subscribers_ < 0)
    BY DEF CountInv, NoOvercount, Passing
  <2>1. bc[b].subscribers_ = 0
    BY DEF Init, Unborn
  <2> QED BY <2>1, CountedFinite
<1> QED BY <1>1, CountStep, Invariance, PTL DEF Spec

\* The counter of a session never exceeds the handlers that count, for any number
\* of them, although counter and list change apart and an exhausted failover
\* removes its client twice.
THEOREM NobodyIsCountedTwice == Spec => []NoOvercount
<1>1. CountInv => NoOvercount
  BY DEF CountInv
<1> QED BY <1>1, Counting, PTL

\* Every variable of the model keeps to its type, and the counter of a session is below
\* zero only while one of its handlers is about to set it back.
THEOREM Typing == Spec => []TypeOK
<1>1. IInv /\ CountInv => TypeOK
  BY TypeParts DEF IInv, CountInv
<1> QED BY <1>1, Invariance, Counting, PTL
=============================================================================
