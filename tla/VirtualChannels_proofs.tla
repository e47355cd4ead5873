------------------------ MODULE VirtualChannels_proofs ------------------------
(***************************************************************************)
(* Theorems about a virtual channel, for any number of viewers, candidates, *)
(* administrators, sessions and orders: every variable keeps to its type,   *)
(* a viewer that found a pin is served by the pinned candidate, and every   *)
(* broadcast gets its counts back unless an administrator's move crossed    *)
(* what a handler did.                                                      *)
(***************************************************************************)
EXTENDS VirtualChannels, FiniteSetTheorems, TLAPS

\* The map lists a broadcast under its own key.
Keyed == \A k \in Keys : bmap[k] # NoSession => bmap[k][1] = k

\* What a handler knows where it is; a client is new for each candidate tried.
Viewing(v) ==
  /\ viewer[v].pc \in {"await", "play", "failed", "rejoin"} => viewer[v].broadcast \in Sessions
  /\ viewer[v].pc \in {"join", "rejoin"} => viewer[v].key \in Keys
  /\ viewer[v].attempted \subseteq Cids
  /\ viewer[v].pc = "idle" => viewer[v].n = 1
  /\ viewer[v].pc \in {"join", "await", "play", "failed"} => viewer[v].n <= Cardinality(viewer[v].attempted)
  /\ viewer[v].pc = "rejoin" => viewer[v].n + 1 <= Cardinality(viewer[v].attempted)

\* A broadcast of candidate p, or none any more.
Serves(s, p) == s = NoSession \/ s[1] \in Infohash[p] \cup {p}

\* A request that goes by a pin is on its way to the pinned candidate, or there.
Bound(v) ==
  viewer[v].under # None =>
    /\ pinned = viewer[v].under
    /\ viewer[v].pc \in {"join", "await", "play"}
    /\ viewer[v].pc = "join" => viewer[v].key \in Infohash[viewer[v].under]
    /\ viewer[v].pc \in {"await", "play"} => Serves(sc[Client(v)].current_broadcast, viewer[v].under)

\* What an administrator knows where he is.
Fits(o) ==
  /\ o.pc # "idle" => o.cid \in Cids
  /\ o.pc \in {"detach", "attach"} =>
       /\ o.target \in Sessions
       /\ o.what = "pin" => o.target[1] = o.cid
  /\ o.pc = "attach" => o.client \in Clients

Ordering(a) == Fits(admin[a])

VInv ==
  /\ TypeOK /\ Keyed
  /\ \A v \in Viewers : Viewing(v) /\ Bound(v)
  /\ \A a \in Admins : Ordering(a)

-------------------------------------------------------------------------------
(* The constants.                                                           *)

LEMMA CidsAreKeys ==
  /\ Cids \subseteq Keys /\ \A c \in Cids : Infohash[c] \subseteq Keys /\ c # None
  /\ Cardinality(Cids) \in Nat /\ Cardinality(Cids) >= 1
  /\ None \notin Keys
<1>1. Cardinality(Cids) \in Nat /\ Cardinality(Cids) # 0
  BY VirtualAssumption, FS_CardinalityType, FS_EmptySet
<1>2. Cids \subseteq Keys /\ \A c \in Cids : Infohash[c] \subseteq Keys /\ c # None
  BY VirtualAssumption DEF Keys
<1> QED BY <1>1, <1>2, VirtualAssumption DEF Keys

LEMMA Bounds ==
  /\ NumSessions \in Nat /\ MaxOrders \in Nat
  /\ \A k \in Keys, i \in 1..NumSessions : <<k, i>> \in Sessions /\ <<k, i>>[1] = k
  /\ \A v \in Viewers, n \in 1..Cardinality(Cids) : <<v, n>> \in Clients /\ <<v, n>>[1] = v
  /\ \A s \in Sessions : s[1] \in Keys
  /\ \A c \in Clients : c[1] \in Viewers /\ c[2] \in 1..Cardinality(Cids) /\ c = <<c[1], c[2]>>
BY VirtualAssumption DEF Sessions, Clients

LEMMA CardinalityBound ==
  ASSUME NEW S \in SUBSET Cids
  PROVE  /\ IsFiniteSet(S) /\ Cardinality(S) \in Nat /\ Cardinality(S) <= Cardinality(Cids)
         /\ \A c \in Cids \ S : Cardinality(S \cup {c}) = Cardinality(S) + 1
BY VirtualAssumption, FS_Subset, FS_CardinalityType, FS_AddElement

-------------------------------------------------------------------------------
(* The calls of a broadcast.                                                *)

LEMMA CountsType ==
  ASSUME NEW b \in SessionRecord, NEW c \in Clients
  PROVE  Counted(b, c) \in SessionRecord /\ Discounted(b, c) \in SessionRecord
<1>1. \A n \in Nat, S \in SUBSET Clients : [b EXCEPT !.subscribers_ = n, !.clients_ = S] \in SessionRecord
  BY DEF SessionRecord
<1>2. b.subscribers_ \in Nat /\ b.clients_ \in SUBSET Clients
  BY DEF SessionRecord
<1>3. Counted(b, c) = [b EXCEPT !.subscribers_ = b.subscribers_ + 1, !.clients_ = b.clients_ \cup {c}]
  BY DEF Counted
<1> DEFINE less == IF b.subscribers_ <= 1 THEN 0 ELSE b.subscribers_ - 1
<1>4. less \in Nat /\ b.subscribers_ + 1 \in Nat
  BY <1>2
<1>5. Discounted(b, c) = [b EXCEPT !.subscribers_ = less, !.clients_ = b.clients_ \ {c}]
  BY DEF Discounted, SessionRecord
<1> HIDE DEF less
<1>6. b.clients_ \cup {c} \in SUBSET Clients /\ b.clients_ \ {c} \in SUBSET Clients
  BY <1>2
<1> QED BY <1>1, <1>3, <1>4, <1>5, <1>6

LEMMA NothingType ==
  Stopped \in SessionRecord /\ Fresh \in SessionRecord /\ NoClient \in ClientRecord
BY DEF Stopped, Fresh, NoClient, SessionRecord, ClientRecord

LEMMA GotType ==
  ASSUME VInv, NEW k \in Keys, CanGet(k)
  PROVE  Got(k) \in Sessions /\ Got(k)[1] = k
<1>1. bmap[k] \in Sessions \cup {NoSession}
  BY DEF VInv, TypeOK
<1>2. CASE bmap[k] # NoSession
  BY <1>1, <1>2 DEF Got, VInv, Keyed
<1>3. CASE bmap[k] = NoSession
  <2>1. (CHOOSE i \in Free(k) : TRUE) \in 1..NumSessions
    BY <1>3 DEF CanGet, Free
  <2> QED BY <1>3, <2>1, Bounds DEF Got
<1> QED BY <1>2, <1>3

LEMMA GetsType ==
  ASSUME VInv, NEW k \in Keys, CanGet(k)
  PROVE  /\ MapWith(k) \in [Keys -> Sessions \cup {NoSession}]
         /\ \A j \in Keys : MapWith(k)[j] # NoSession => MapWith(k)[j][1] = j
         /\ With(k) \in [Sessions -> SessionRecord]
         /\ ClientsWith(k) \in [Clients -> ClientRecord]
         /\ \A c \in Clients : ClientsWith(k)[c].current_broadcast \in {sc[c].current_broadcast, NoSession}
<1>1. Got(k) \in Sessions /\ Got(k)[1] = k
  BY GotType
<1>2. bmap \in [Keys -> Sessions \cup {NoSession}] /\ bc \in [Sessions -> SessionRecord] /\ sc \in [Clients -> ClientRecord]
  BY DEF VInv, TypeOK
<1>3. MapWith(k) \in [Keys -> Sessions \cup {NoSession}] /\ \A j \in Keys : MapWith(k)[j] # NoSession => MapWith(k)[j][1] = j
  BY <1>1, <1>2 DEF MapWith, VInv, Keyed
<1>4. With(k) \in [Sessions -> SessionRecord]
  BY <1>1, <1>2, NothingType DEF With
<1>5. \A c \in Clients : [sc[c] EXCEPT !.current_broadcast = IF @ = Got(k) THEN NoSession ELSE @] \in ClientRecord
  BY <1>2 DEF ClientRecord
<1>6. ClientsWith(k) \in [Clients -> ClientRecord]
  BY <1>2, <1>5 DEF ClientsWith
<1>7. \A c \in Clients : ClientsWith(k)[c].current_broadcast \in {sc[c].current_broadcast, NoSession}
  BY <1>2 DEF ClientsWith, ClientRecord
<1> QED BY <1>3, <1>4, <1>6, <1>7

LEMMA StopType ==
  ASSUME VInv, NEW S, Stop(S)
  PROVE  /\ bmap' \in [Keys -> Sessions \cup {NoSession}] /\ Keyed'
         /\ bc' \in [Sessions -> SessionRecord] /\ sc' \in [Clients -> ClientRecord]
         /\ \A c \in Clients : sc'[c].current_broadcast = sc[c].current_broadcast
<1>1. bmap \in [Keys -> Sessions \cup {NoSession}] /\ bc \in [Sessions -> SessionRecord] /\ sc \in [Clients -> ClientRecord]
  BY DEF VInv, TypeOK
<1>2. bmap' \in [Keys -> Sessions \cup {NoSession}] /\ Keyed'
  BY <1>1 DEF Stop, VInv, Keyed
<1>3. bc' \in [Sessions -> SessionRecord]
  BY <1>1, NothingType DEF Stop
<1>4. \A c \in Clients : [sc[c] EXCEPT !.closed = @ \/ \E s \in S : c \in bc[s].clients_] \in ClientRecord
  BY <1>1 DEF ClientRecord
<1>5. sc' \in [Clients -> ClientRecord] /\ \A c \in Clients : sc'[c].current_broadcast = sc[c].current_broadcast
  BY <1>1, <1>4 DEF Stop, ClientRecord
<1> QED BY <1>2, <1>3, <1>5

LEMMA RefreshedType ==
  ASSUME VInv
  PROVE  Refreshed \in Keys \cup {None}
BY CidsAreKeys DEF Refreshed, VInv, TypeOK

LEMMA ViewerType ==
  ASSUME VInv, NEW v \in Viewers
  PROVE  viewer[v] \in ViewerRecord /\ Client(v) \in Clients /\ Client(v)[1] = v
<1>1. viewer[v] \in ViewerRecord /\ viewer[v].n \in 1..Cardinality(Cids)
  BY DEF VInv, TypeOK, ViewerRecord
<1> QED BY <1>1, Bounds DEF Client

-------------------------------------------------------------------------------
(* Steps of one viewer, and steps of nobody's.                              *)

LEMMA ViewerStep ==
  ASSUME VInv, NEW v \in Viewers, NEW r \in ViewerRecord, viewer' = [viewer EXCEPT ![v] = r],
         UNCHANGED <<pinned, disabled, admin, orders>>, active' \in Keys \cup {None}, lost' \in BOOLEAN,
         bmap' \in [Keys -> Sessions \cup {NoSession}], Keyed',
         bc' \in [Sessions -> SessionRecord], sc' \in [Clients -> ClientRecord],
         \A c \in Clients : c[1] # v => sc'[c].current_broadcast \in {sc[c].current_broadcast, NoSession},
         Viewing(v)', Bound(v)'
  PROVE  VInv'
<1>1. viewer' \in [Viewers -> ViewerRecord] /\ \A u \in Viewers \ {v} : viewer'[u] = viewer[u]
  BY DEF VInv, TypeOK
<1>2. TypeOK'
  BY <1>1 DEF VInv, TypeOK
<1>3. ASSUME NEW u \in Viewers \ {v} PROVE Viewing(u)' /\ Bound(u)'
  <2>1. Viewing(u) /\ Bound(u) /\ Client(u) \in Clients /\ Client(u)[1] = u
    BY ViewerType DEF VInv
  <2>2. Client(u)' = Client(u)
    BY <1>1 DEF Client
  <2>3. Viewing(u)'
    BY <1>1, <2>1 DEF Viewing
  <2>4. sc'[Client(u)].current_broadcast \in {sc[Client(u)].current_broadcast, NoSession}
    BY <2>1
  <2>5. Bound(u)'
    BY <1>1, <2>1, <2>2, <2>4 DEF Bound, Serves
  <2> QED BY <2>3, <2>5
<1>4. \A a \in Admins : Ordering(a)'
  BY DEF VInv, Ordering
<1> QED BY <1>2, <1>3, <1>4 DEF VInv

LEMMA OutsideStep ==
  ASSUME VInv, UNCHANGED <<viewer, pinned>>, active' \in Keys \cup {None}, disabled' \subseteq Cids,
         lost' \in BOOLEAN, orders' \in 0..MaxOrders, admin' \in [Admins -> AdminRecord],
         bmap' \in [Keys -> Sessions \cup {NoSession}], Keyed',
         bc' \in [Sessions -> SessionRecord], sc' \in [Clients -> ClientRecord],
         \A c \in Clients : sc'[c].current_broadcast \in {sc[c].current_broadcast, NoSession},
         \A a \in Admins : Ordering(a)'
  PROVE  VInv'
<1>1. TypeOK'
  BY DEF VInv, TypeOK
<1>2. ASSUME NEW u \in Viewers PROVE Viewing(u)' /\ Bound(u)'
  <2>1. Viewing(u) /\ Bound(u) /\ Client(u) \in Clients
    BY ViewerType DEF VInv
  <2>2. Client(u)' = Client(u)
    BY DEF Client
  <2>3. Viewing(u)'
    BY <2>1 DEF Viewing
  <2>4. sc'[Client(u)].current_broadcast \in {sc[Client(u)].current_broadcast, NoSession}
    BY <2>1
  <2>5. Bound(u)'
    BY <2>1, <2>2, <2>4 DEF Bound, Serves
  <2> QED BY <2>3, <2>5
<1> QED BY <1>1, <1>2 DEF VInv

\* A handler that ends goes by no pin and knows no broadcast.
LEMMA EndedKnowsNothing ==
  ASSUME VInv, NEW v \in Viewers, Ends(v)
  PROVE  \E r \in ViewerRecord : viewer' = [viewer EXCEPT ![v] = r] /\ Viewing(v)' /\ Bound(v)'
<1> DEFINE r == [NoViewer EXCEPT !.pc = "ended"]
<1>1. r \in ViewerRecord
  <2>1. NoViewer \in ViewerRecord
    BY CidsAreKeys DEF NoViewer, ViewerRecord, ViewerPC
  <2> QED BY <2>1 DEF ViewerRecord, ViewerPC
<1>2. r.pc = "ended" /\ r.under = None /\ r.attempted = {}
  BY DEF NoViewer
<1>3. viewer' = [viewer EXCEPT ![v] = r]
  BY DEF Ends
<1> HIDE DEF r
<1>4. viewer'[v] = r
  BY <1>3 DEF VInv, TypeOK
<1> QED BY <1>1, <1>2, <1>3, <1>4 DEF Viewing, Bound

LEMMA InitHolds == Init => VInv
<1> SUFFICES ASSUME Init PROVE VInv
  OBVIOUS
<1>1. NoViewer \in ViewerRecord /\ NoOrder \in AdminRecord
  BY CidsAreKeys DEF NoViewer, NoOrder, ViewerRecord, AdminRecord, ViewerPC, AdminPC
<1>2. 0 \in 0..MaxOrders
  BY Bounds
<1>3. TypeOK
  BY <1>1, <1>2, NothingType DEF Init, TypeOK
<1>4. Keyed
  BY DEF Init, Keyed
<1>5. \A v \in Viewers : Viewing(v) /\ Bound(v)
  BY DEF Init, Viewing, Bound, NoViewer
<1>6. \A a \in Admins : Ordering(a)
  BY DEF Init, Ordering, Fits, NoOrder
<1> QED BY <1>3, <1>4, <1>5, <1>6 DEF VInv

-------------------------------------------------------------------------------
(* Requests.                                                                *)

\* What nobody changes keeps its type.
LEMMA SameTypes ==
  ASSUME VInv, UNCHANGED <<bmap, bc, sc>>
  PROVE  /\ bmap' \in [Keys -> Sessions \cup {NoSession}] /\ Keyed'
         /\ bc' \in [Sessions -> SessionRecord] /\ sc' \in [Clients -> ClientRecord]
         /\ \A c \in Clients : sc'[c].current_broadcast \in {sc[c].current_broadcast, NoSession}
BY DEF VInv, TypeOK, Keyed

LEMMA AdmitKeeps ==
  ASSUME VInv, NEW v \in Viewers, NEW c \in Cids, Admit(v, c) \/ Ends(v), At(v, "idle"),
         v \in AutoViewers /\ pinned # None => c = pinned,
         UNCHANGED <<pinned, disabled, Elsewhere>>, active' \in Keys \cup {None}
  PROVE  VInv'
<1>1. UNCHANGED <<admin, orders>> /\ lost' \in BOOLEAN
  BY DEF Elsewhere, VInv, TypeOK
<1>2. UNCHANGED <<bmap, bc, sc>>
  BY DEF Elsewhere
<1>3. CASE Ends(v)
  BY <1>1, <1>2, <1>3, SameTypes, EndedKnowsNothing, ViewerStep
<1>4. CASE ~Ends(v)
  <2>1. PICK k \in Infohash[c] :
          viewer' = [viewer EXCEPT ![v].pc = "join", ![v].key = k, ![v].attempted = {c},
                                   ![v].under = IF v \in AutoViewers THEN pinned ELSE None]
    BY <1>4 DEF Admit
  <2> DEFINE r == [viewer[v] EXCEPT !.pc = "join", !.key = k, !.attempted = {c},
                                    !.under = IF v \in AutoViewers THEN pinned ELSE None]
  <2>2. k \in Keys /\ c \in Keys /\ viewer[v] \in ViewerRecord /\ pinned \in Cids \cup {None}
    BY CidsAreKeys, ViewerType DEF VInv, TypeOK
  <2>3. r \in ViewerRecord
    BY <2>2 DEF ViewerRecord, ViewerPC
  <2>4. viewer' = [viewer EXCEPT ![v] = r]
    BY <2>1
  <2>5. viewer'[v] = r
    BY <2>4 DEF VInv, TypeOK
  <2>6. /\ r.pc = "join" /\ r.key = k /\ r.attempted = {c} /\ r.n = viewer[v].n
        /\ r.under = IF v \in AutoViewers THEN pinned ELSE None
    BY <2>2 DEF ViewerRecord
  <2> HIDE DEF r
  <2>7. viewer[v].n <= 1
    BY <2>2 DEF At, VInv, Viewing, ViewerRecord
  <2>8. Cardinality({c}) = 1
    BY FS_Singleton
  <2>9. Viewing(v)'
    BY <2>2, <2>5, <2>6, <2>7, <2>8 DEF Viewing
  <2>10. Bound(v)'
    BY <2>1, <2>5, <2>6 DEF Bound
  <2> QED BY <1>1, <1>2, <2>3, <2>4, <2>9, <2>10, SameTypes, ViewerStep
<1> QED BY <1>3, <1>4

LEMMA RequestKeeps ==
  ASSUME VInv, NEW v \in Viewers, RequestAuto(v) \/ \E c \in Wanted : RequestCid(v, c)
  PROVE  VInv'
<1>1. CASE \E c \in Wanted : RequestCid(v, c)
  BY <1>1, AdmitKeeps, VirtualAssumption DEF RequestCid, virtual, VInv, TypeOK
<1>2. CASE RequestAuto(v)
  <2>1. /\ At(v, "idle") /\ v \in AutoViewers /\ UNCHANGED <<pinned, disabled, Elsewhere>>
        /\ pinned \in Cids \cup {None}
    BY <1>2 DEF RequestAuto, VInv, TypeOK
  <2>2. \/ \E c \in Cids : /\ active' = c /\ (Admit(v, c) \/ Ends(v)) /\ (pinned # None => c = pinned)
        \/ active' = Refreshed /\ Ends(v)
    <3>1. ASSUME pinned = None, NEW c \in UNION {Eligible(cs) : cs \in SUBSET Cids \ {{}}}
          PROVE  c \in Cids
      <4>1. PICK cs \in SUBSET Cids : c \in Eligible(cs)
        BY <3>1
      <4> QED BY <4>1 DEF Eligible
    <3> QED BY <1>2, <2>1, <3>1 DEF RequestAuto
  <2>3. CASE \E c \in Cids : active' = c /\ (Admit(v, c) \/ Ends(v)) /\ (pinned # None => c = pinned)
    BY <2>1, <2>3, AdmitKeeps, CidsAreKeys
  <2>4. CASE active' = Refreshed /\ Ends(v)
    <3>1. UNCHANGED <<bmap, bc, sc, admin, orders>> /\ lost' \in BOOLEAN
      BY <2>1 DEF Elsewhere, VInv, TypeOK
    <3> QED BY <2>1, <2>4, <3>1, RefreshedType, SameTypes, EndedKnowsNothing, ViewerStep
  <2> QED BY <2>2, <2>3, <2>4
<1> QED BY <1>1, <1>2

LEMMA RefusedKeeps ==
  ASSUME VInv, NEW v \in Viewers, Refused(v)
  PROVE  VInv'
<1>1. UNCHANGED <<active, pinned, disabled, bmap, bc, sc, admin, orders, lost>> /\ Ends(v)
  BY DEF Refused, virtual, Elsewhere
<1>2. active' \in Keys \cup {None} /\ lost' \in BOOLEAN
  BY <1>1 DEF VInv, TypeOK
<1> QED BY <1>1, <1>2, SameTypes, EndedKnowsNothing, ViewerStep

-------------------------------------------------------------------------------
(* Joining and playing.                                                     *)

\* A client joins a broadcast of key k: the one of its handler, or a new one.
LEMMA JoinsType ==
  ASSUME VInv, NEW v \in Viewers, NEW k \in Keys, CanGet(k), NEW c \in Clients, c[1] = v,
         bmap' = MapWith(k), bc' = [With(k) EXCEPT ![Got(k)] = Counted(@, c)],
         \/ sc' = [ClientsWith(k) EXCEPT ![c] = [current_broadcast |-> Got(k), closed |-> FALSE]]
         \/ sc' = [ClientsWith(k) EXCEPT ![Client(v)] = NoClient,
                                         ![c] = [current_broadcast |-> Got(k), closed |-> FALSE]]
  PROVE  /\ bmap' \in [Keys -> Sessions \cup {NoSession}] /\ Keyed'
         /\ bc' \in [Sessions -> SessionRecord] /\ sc' \in [Clients -> ClientRecord]
         /\ \A d \in Clients : d[1] # v => sc'[d].current_broadcast \in {sc[d].current_broadcast, NoSession}
         /\ sc'[c].current_broadcast = Got(k)
<1>1. Got(k) \in Sessions /\ Client(v) \in Clients /\ Client(v)[1] = v
  BY GotType, ViewerType
<1>2. /\ MapWith(k) \in [Keys -> Sessions \cup {NoSession}]
      /\ \A j \in Keys : MapWith(k)[j] # NoSession => MapWith(k)[j][1] = j
      /\ With(k) \in [Sessions -> SessionRecord] /\ ClientsWith(k) \in [Clients -> ClientRecord]
      /\ \A d \in Clients : ClientsWith(k)[d].current_broadcast \in {sc[d].current_broadcast, NoSession}
  BY GetsType
<1>3. bc' \in [Sessions -> SessionRecord]
  BY <1>1, <1>2, CountsType
<1> DEFINE r == [current_broadcast |-> Got(k), closed |-> FALSE]
<1>4. r \in ClientRecord /\ r.current_broadcast = Got(k)
  BY <1>1 DEF ClientRecord
<1> HIDE DEF r
<1>5. /\ sc' \in [Clients -> ClientRecord] /\ sc'[c] = r
      /\ \A d \in Clients : d[1] # v => sc'[d] = ClientsWith(k)[d]
  BY <1>1, <1>2, <1>4, NothingType DEF r
<1>6. Keyed'
  BY <1>2 DEF Keyed
<1> QED BY <1>2, <1>3, <1>4, <1>5, <1>6

LEMMA JoinKeeps ==
  ASSUME VInv, NEW v \in Viewers, Join(v)
  PROVE  VInv'
<1> DEFINE k == viewer[v].key
           r == [viewer[v] EXCEPT !.pc = "await", !.broadcast = Got(k)]
<1>1. /\ viewer[v].pc = "join" /\ CanGet(k) /\ bmap' = MapWith(k)
      /\ bc' = [With(k) EXCEPT ![Got(k)] = Counted(@, Client(v))]
      /\ sc' = [ClientsWith(k) EXCEPT ![Client(v)] = [current_broadcast |-> Got(k), closed |-> FALSE]]
      /\ viewer' = [viewer EXCEPT ![v] = r]
      /\ active' \in {k, active} /\ UNCHANGED <<pinned, disabled, admin, orders, lost>>
  BY DEF Join, At
<1>2. k \in Keys /\ viewer[v] \in ViewerRecord /\ Client(v) \in Clients /\ Client(v)[1] = v
      /\ Viewing(v) /\ Bound(v)
  BY <1>1, ViewerType DEF VInv, Viewing
<1>3. Got(k) \in Sessions /\ Got(k)[1] = k
  BY <1>1, <1>2, GotType
<1>4. /\ bmap' \in [Keys -> Sessions \cup {NoSession}] /\ Keyed'
      /\ bc' \in [Sessions -> SessionRecord] /\ sc' \in [Clients -> ClientRecord]
      /\ \A d \in Clients : d[1] # v => sc'[d].current_broadcast \in {sc[d].current_broadcast, NoSession}
      /\ sc'[Client(v)].current_broadcast = Got(k)
  BY <1>1, <1>2, JoinsType
<1>5. /\ r \in ViewerRecord /\ r.pc = "await" /\ r.broadcast = Got(k) /\ r.n = viewer[v].n
      /\ r.attempted = viewer[v].attempted /\ r.under = viewer[v].under
  BY <1>2, <1>3 DEF ViewerRecord, ViewerPC
<1>6. active' \in Keys \cup {None} /\ lost' \in BOOLEAN
  BY <1>1, <1>2 DEF VInv, TypeOK
<1>7. k = viewer[v].key
  OBVIOUS
<1> HIDE DEF r, k
<1>8. viewer'[v] = r
  BY <1>1 DEF VInv, TypeOK
<1>9. Viewing(v)'
  BY <1>1, <1>2, <1>3, <1>5, <1>8 DEF Viewing
<1>10. Client(v)' = Client(v)
  BY <1>5, <1>8 DEF Client
<1>11. Bound(v)'
  BY <1>1, <1>2, <1>3, <1>4, <1>5, <1>7, <1>8, <1>10 DEF Bound, Serves
<1> QED BY <1>1, <1>4, <1>5, <1>6, <1>9, <1>11, ViewerStep

LEMMA FirstChunkKeeps ==
  ASSUME VInv, NEW v \in Viewers, FirstChunk(v)
  PROVE  VInv'
<1> DEFINE r == [viewer[v] EXCEPT !.pc = "play", !.playing = TRUE]
<1>1. /\ viewer[v].pc = "await" /\ viewer' = [viewer EXCEPT ![v] = r]
      /\ UNCHANGED <<active, pinned, disabled, bmap, bc, sc, admin, orders, lost>>
  BY DEF FirstChunk, At, virtual, Elsewhere
<1>2. viewer[v] \in ViewerRecord /\ Viewing(v) /\ Bound(v)
  BY ViewerType DEF VInv
<1>3. /\ r \in ViewerRecord /\ r.pc = "play" /\ r.broadcast = viewer[v].broadcast /\ r.n = viewer[v].n
      /\ r.attempted = viewer[v].attempted /\ r.under = viewer[v].under
  BY <1>2 DEF ViewerRecord, ViewerPC
<1> HIDE DEF r
<1>4. viewer'[v] = r
  BY <1>1 DEF VInv, TypeOK
<1>5. Viewing(v)'
  BY <1>1, <1>2, <1>3, <1>4 DEF Viewing
<1>6. Client(v)' = Client(v)
  BY <1>3, <1>4 DEF Client
<1>7. Bound(v)'
  BY <1>1, <1>2, <1>3, <1>4, <1>6 DEF Bound, Serves
<1>8. active' \in Keys \cup {None} /\ lost' \in BOOLEAN
  BY <1>1 DEF VInv, TypeOK
<1> QED BY <1>1, <1>3, <1>5, <1>7, <1>8, SameTypes, ViewerStep

\* The broadcast a handler takes its client from is one.
LEMMA CurrentType ==
  ASSUME VInv, NEW v \in Viewers, viewer[v].pc \in {"await", "play", "failed", "rejoin"}
  PROVE  Current(v) \in Sessions
<1>1. Client(v) \in Clients /\ viewer[v].broadcast \in Sessions
  BY ViewerType DEF VInv, Viewing
<1>2. sc[Client(v)].current_broadcast \in Sessions \cup {NoSession}
  BY <1>1 DEF VInv, TypeOK, ClientRecord
<1>3. Lock(Client(v)) \in Sessions \cup {NoSession}
  BY <1>2 DEF Lock
<1> QED BY <1>1, <1>3 DEF Current

LEMMA LostType == VInv => \A v \in Viewers : (lost \/ Forgotten(v)) \in BOOLEAN
BY DEF VInv, TypeOK, Forgotten

LEMMA HeadKeeps ==
  ASSUME VInv, NEW v \in Viewers, Head(v)
  PROVE  VInv'
<1>1. /\ viewer[v].pc = "await" /\ UNCHANGED <<active, pinned, disabled, bmap, admin, orders>> /\ Ends(v)
      /\ bc' = [bc EXCEPT ![viewer[v].broadcast] = Discounted(@, Client(v))]
      /\ sc' = [sc EXCEPT ![Client(v)] = NoClient] /\ lost' = (lost \/ Forgotten(v))
  BY DEF Head, At, virtual
<1>2. /\ viewer[v].broadcast \in Sessions /\ Client(v) \in Clients /\ Client(v)[1] = v
      /\ bmap \in [Keys -> Sessions \cup {NoSession}] /\ bc \in [Sessions -> SessionRecord]
      /\ sc \in [Clients -> ClientRecord] /\ active \in Keys \cup {None}
  BY <1>1, ViewerType DEF VInv, Viewing, TypeOK
<1>3. bc' \in [Sessions -> SessionRecord]
  BY <1>1, <1>2, CountsType
<1>4. /\ sc' \in [Clients -> ClientRecord]
      /\ \A d \in Clients : d[1] # v => sc'[d].current_broadcast \in {sc[d].current_broadcast, NoSession}
  BY <1>1, <1>2, NothingType
<1>5. Keyed'
  BY <1>1 DEF VInv, Keyed
<1>6. lost' \in BOOLEAN
  BY <1>1, LostType
<1> QED BY <1>1, <1>2, <1>3, <1>4, <1>5, <1>6, EndedKnowsNothing, ViewerStep

LEMMA LeaveKeeps ==
  ASSUME VInv, NEW v \in Viewers, viewer[v].pc \in {"await", "play", "failed"},
         \E forced \in BOOLEAN : Leave(v, forced)
  PROVE  VInv'
<1> DEFINE s == Current(v)
           k == s[1]
           left == [bc EXCEPT ![s] = Discounted(@, Client(v))]
<1>1. /\ s \in Sessions /\ k \in Keys /\ Client(v) \in Clients /\ Client(v)[1] = v
      /\ bmap \in [Keys -> Sessions \cup {NoSession}] /\ bc \in [Sessions -> SessionRecord]
      /\ sc \in [Clients -> ClientRecord] /\ active \in Keys \cup {None}
  BY CurrentType, ViewerType, Bounds DEF VInv, TypeOK
<1>2. left \in [Sessions -> SessionRecord]
  BY <1>1, CountsType
<1>3. /\ sc' = [sc EXCEPT ![Client(v)] = NoClient] /\ lost' = (lost \/ Forgotten(v)) /\ Ends(v)
      /\ UNCHANGED <<pinned, disabled, admin, orders>> /\ active' \in {active, None}
  BY DEF Leave
<1>4. PICK stops : /\ bc' = [t \in Sessions |-> IF t \in stops THEN Stopped ELSE left[t]]
                   /\ bmap' = [bmap EXCEPT ![k] = IF stops # {} THEN NoSession ELSE @]
  BY DEF Leave
<1> HIDE DEF s, k, left
<1>5. bc' \in [Sessions -> SessionRecord]
  BY <1>2, <1>4, NothingType
<1>6. bmap' \in [Keys -> Sessions \cup {NoSession}] /\ Keyed'
  BY <1>1, <1>4 DEF VInv, Keyed
<1>7. /\ sc' \in [Clients -> ClientRecord]
      /\ \A d \in Clients : d[1] # v => sc'[d].current_broadcast \in {sc[d].current_broadcast, NoSession}
  BY <1>1, <1>3, NothingType
<1>8. lost' \in BOOLEAN /\ active' \in Keys \cup {None}
  BY <1>1, <1>3, LostType
<1> QED BY <1>3, <1>5, <1>6, <1>7, <1>8, EndedKnowsNothing, ViewerStep

LEMMA EndingKeeps ==
  ASSUME VInv, NEW v \in Viewers, Hangup(v) \/ GivesUp(v) \/ Exhausted(v)
  PROVE  VInv'
<1>1. viewer[v].pc \in {"await", "play", "failed"}
  BY DEF Hangup, GivesUp, Exhausted, Dry, At
<1>2. \E forced \in BOOLEAN : Leave(v, forced)
  BY Zenon DEF Hangup, GivesUp, Exhausted, Empty
<1> QED BY <1>1, <1>2, LeaveKeeps

LEMMA FailsKeeps ==
  ASSUME VInv, NEW v \in Viewers, Fails(v)
  PROVE  VInv'
<1> DEFINE r == [viewer[v] EXCEPT !.pc = "failed", !.broadcast = Current(v)]
<1>1. /\ viewer[v].pc \in {"await", "play"} /\ pinned = None /\ viewer' = [viewer EXCEPT ![v] = r]
      /\ bc' = [bc EXCEPT ![Current(v)] = Discounted(@, Client(v))]
      /\ sc' = [sc EXCEPT ![Client(v)].closed = TRUE] /\ lost' = (lost \/ Forgotten(v))
      /\ UNCHANGED <<active, pinned, disabled, bmap, admin, orders>>
  BY DEF Fails, Dry, At, RemoveFrom, virtual
<1>2. /\ Current(v) \in Sessions /\ Client(v) \in Clients /\ Client(v)[1] = v /\ viewer[v] \in ViewerRecord
      /\ bmap \in [Keys -> Sessions \cup {NoSession}] /\ bc \in [Sessions -> SessionRecord]
      /\ sc \in [Clients -> ClientRecord] /\ active \in Keys \cup {None} /\ Viewing(v) /\ Bound(v)
  BY <1>1, CurrentType, ViewerType DEF VInv, TypeOK
<1>3. /\ r \in ViewerRecord /\ r.pc = "failed" /\ r.broadcast = Current(v) /\ r.n = viewer[v].n
      /\ r.attempted = viewer[v].attempted /\ r.under = viewer[v].under
  BY <1>2 DEF ViewerRecord, ViewerPC
<1> HIDE DEF r
<1>4. bc' \in [Sessions -> SessionRecord]
  BY <1>1, <1>2, CountsType
<1>5. /\ sc' \in [Clients -> ClientRecord]
      /\ \A d \in Clients : d[1] # v => sc'[d].current_broadcast \in {sc[d].current_broadcast, NoSession}
  <2>1. [sc[Client(v)] EXCEPT !.closed = TRUE] \in ClientRecord
    BY <1>2 DEF ClientRecord
  <2> QED BY <1>1, <1>2, <2>1
<1>6. viewer'[v] = r
  BY <1>1 DEF VInv, TypeOK
<1>7. Viewing(v)'
  BY <1>1, <1>2, <1>3, <1>6 DEF Viewing
<1>8. r.under = None
  BY <1>1, <1>2, <1>3 DEF Bound
<1>9. Bound(v)'
  BY <1>6, <1>8 DEF Bound
<1>10. Keyed' /\ lost' \in BOOLEAN
  BY <1>1, LostType DEF VInv, Keyed
<1> QED BY <1>1, <1>2, <1>3, <1>4, <1>5, <1>7, <1>9, <1>10, ViewerStep

\* Stopping broadcasts, or not.
LEMMA MayStopType ==
  ASSUME VInv, UNCHANGED <<bmap, bc, sc>> \/ \E S : Stop(S)
  PROVE  /\ bmap' \in [Keys -> Sessions \cup {NoSession}] /\ Keyed'
         /\ bc' \in [Sessions -> SessionRecord] /\ sc' \in [Clients -> ClientRecord]
         /\ \A c \in Clients : sc'[c].current_broadcast \in {sc[c].current_broadcast, NoSession}
BY SameTypes, StopType

LEMMA NextCandidateKeeps ==
  ASSUME VInv, NEW v \in Viewers, NEW c \in Cids, NextCandidate(v, c)
  PROVE  VInv'
<1> DEFINE r == [viewer[v] EXCEPT !.pc = "rejoin", !.key = c, !.attempted = @ \cup {c}]
<1>1. /\ viewer[v].pc = "failed" /\ c \notin viewer[v].attempted /\ viewer' = [viewer EXCEPT ![v] = r]
      /\ active' = c /\ UNCHANGED <<pinned, disabled, admin, orders, lost>>
  BY DEF NextCandidate, At
<1>2. UNCHANGED <<bmap, bc, sc>> \/ \E S : Stop(S)
  BY DEF NextCandidate, ForceStop
<1>3. viewer[v] \in ViewerRecord /\ Viewing(v) /\ Bound(v) /\ c \in Keys
  BY ViewerType, CidsAreKeys DEF VInv
<1>4. viewer[v].attempted \subseteq Cids /\ viewer[v].attempted \subseteq Keys /\ viewer[v].n \in 1..Cardinality(Cids)
  BY <1>3 DEF Viewing, ViewerRecord
<1>5. /\ r \in ViewerRecord /\ r.pc = "rejoin" /\ r.broadcast = viewer[v].broadcast /\ r.n = viewer[v].n
      /\ r.attempted = viewer[v].attempted \cup {c} /\ r.under = viewer[v].under /\ r.key = c
  BY <1>3, <1>4 DEF ViewerRecord, ViewerPC
<1> HIDE DEF r
<1>6. viewer'[v] = r
  BY <1>1 DEF VInv, TypeOK
<1>7. Cardinality(viewer[v].attempted \cup {c}) = Cardinality(viewer[v].attempted) + 1
      /\ Cardinality(viewer[v].attempted) \in Nat
  BY <1>1, <1>4, CardinalityBound
<1>8. Viewing(v)'
  <2>1. viewer[v].n <= Cardinality(viewer[v].attempted) /\ viewer[v].broadcast \in Sessions
    BY <1>1, <1>3 DEF Viewing
  <2>2. viewer[v].n + 1 <= Cardinality(r.attempted)
    BY <1>4, <1>5, <1>7, <2>1
  <2> QED BY <1>3, <1>4, <1>5, <1>6, <2>1, <2>2 DEF Viewing
<1>9. Bound(v)'
  BY <1>1, <1>3, <1>5, <1>6 DEF Bound
<1>10. active' \in Keys \cup {None} /\ lost' \in BOOLEAN
  BY <1>1, <1>3 DEF VInv, TypeOK
<1> QED BY <1>1, <1>2, <1>5, <1>8, <1>9, <1>10, MayStopType, ViewerStep

LEMMA RejoinKeeps ==
  ASSUME VInv, NEW v \in Viewers, Rejoin(v)
  PROVE  VInv'
<1> DEFINE k == viewer[v].key
           n == IF viewer[v].playing THEN viewer[v].n ELSE viewer[v].n + 1
           r == [viewer[v] EXCEPT !.n = n, !.broadcast = Got(k),
                                  !.pc = IF viewer[v].playing THEN "play" ELSE "await"]
<1>1. /\ viewer[v].pc = "rejoin" /\ CanGet(k) /\ bmap' = MapWith(k)
      /\ bc' = [With(k) EXCEPT ![Got(k)] = Counted(@, <<v, n>>)]
      /\ sc' = [ClientsWith(k) EXCEPT ![Client(v)] = NoClient,
                                      ![<<v, n>>] = [current_broadcast |-> Got(k), closed |-> FALSE]]
      /\ viewer' = [viewer EXCEPT ![v] = r]
      /\ UNCHANGED <<active, pinned, disabled, admin, orders, lost>>
  BY DEF Rejoin, At, virtual
<1>2. k \in Keys /\ viewer[v] \in ViewerRecord /\ Viewing(v) /\ Bound(v)
  BY <1>1, ViewerType DEF VInv, Viewing
<1>3. Got(k) \in Sessions
  BY <1>1, <1>2, GotType
<1>4. n \in 1..Cardinality(Cids) /\ n <= Cardinality(viewer[v].attempted)
  <2>1. viewer[v].attempted \in SUBSET Cids /\ viewer[v].n + 1 <= Cardinality(viewer[v].attempted)
        /\ viewer[v].n \in 1..Cardinality(Cids)
    BY <1>1, <1>2 DEF Viewing, ViewerRecord
  <2>2. Cardinality(viewer[v].attempted) \in Nat /\ Cardinality(viewer[v].attempted) <= Cardinality(Cids)
        /\ Cardinality(Cids) \in Nat
    BY <2>1, CardinalityBound, CidsAreKeys
  <2> QED BY <2>1, <2>2
<1>5. <<v, n>> \in Clients /\ <<v, n>>[1] = v
  BY <1>4, Bounds
<1>6. /\ r \in ViewerRecord /\ r.pc \in {"await", "play"} /\ r.broadcast = Got(k) /\ r.n = n
      /\ r.attempted = viewer[v].attempted /\ r.under = viewer[v].under
  BY <1>2, <1>3, <1>4 DEF ViewerRecord, ViewerPC
<1> HIDE DEF r, n, k
<1>7. /\ bmap' \in [Keys -> Sessions \cup {NoSession}] /\ Keyed'
      /\ bc' \in [Sessions -> SessionRecord] /\ sc' \in [Clients -> ClientRecord]
      /\ \A d \in Clients : d[1] # v => sc'[d].current_broadcast \in {sc[d].current_broadcast, NoSession}
  BY <1>1, <1>2, <1>5, JoinsType
<1>8. viewer'[v] = r
  BY <1>1 DEF VInv, TypeOK
<1>9. Viewing(v)'
  BY <1>2, <1>3, <1>4, <1>6, <1>8 DEF Viewing
<1>10. Bound(v)'
  BY <1>1, <1>2, <1>6, <1>8 DEF Bound
<1>11. active' \in Keys \cup {None} /\ lost' \in BOOLEAN
  BY <1>1 DEF VInv, TypeOK
<1> QED BY <1>1, <1>6, <1>7, <1>9, <1>10, <1>11, ViewerStep

-------------------------------------------------------------------------------
(* The streams, the reaper and a request for status.                        *)

LEMMA StatusKeeps == VInv /\ Status => VInv'
<1> SUFFICES ASSUME VInv, Status PROVE VInv'
  OBVIOUS
<1>1. UNCHANGED <<viewer, pinned, disabled, admin, orders, lost, bmap, bc, sc>> /\ active' \in Keys \cup {None}
  BY RefreshedType DEF Status
<1>2. disabled' \subseteq Cids /\ lost' \in BOOLEAN /\ orders' \in 0..MaxOrders /\ admin' \in [Admins -> AdminRecord]
  BY <1>1 DEF VInv, TypeOK
<1>3. \A a \in Admins : Ordering(a)'
  BY <1>1 DEF VInv, Ordering
<1> QED BY <1>1, <1>2, <1>3, SameTypes, OutsideStep

LEMMA StreamEndsKeeps ==
  ASSUME VInv, NEW s \in Sessions, StreamEnds(s)
  PROVE  VInv'
<1>1. /\ UNCHANGED <<active, viewer, pinned, disabled, admin, orders, lost, bmap>>
      /\ bc' = [bc EXCEPT ![s].running_ = FALSE]
      /\ sc' = [c \in Clients |-> [sc[c] EXCEPT !.closed = @ \/ c \in bc[s].clients_]]
  BY DEF StreamEnds, virtual
<1>2. /\ active \in Keys \cup {None} /\ disabled \subseteq Cids /\ lost \in BOOLEAN /\ orders \in 0..MaxOrders
      /\ admin \in [Admins -> AdminRecord] /\ bc \in [Sessions -> SessionRecord]
      /\ sc \in [Clients -> ClientRecord] /\ bmap \in [Keys -> Sessions \cup {NoSession}]
  BY DEF VInv, TypeOK
<1>3. [bc[s] EXCEPT !.running_ = FALSE] \in SessionRecord
  BY <1>2 DEF SessionRecord
<1>4. bc' \in [Sessions -> SessionRecord]
  BY <1>1, <1>2, <1>3
<1>5. \A c \in Clients : [sc[c] EXCEPT !.closed = @ \/ c \in bc[s].clients_] \in ClientRecord
  BY <1>2 DEF ClientRecord
<1>6. /\ sc' \in [Clients -> ClientRecord]
      /\ \A c \in Clients : sc'[c].current_broadcast \in {sc[c].current_broadcast, NoSession}
  BY <1>1, <1>2, <1>5 DEF ClientRecord
<1>7. Keyed' /\ \A a \in Admins : Ordering(a)'
  BY <1>1 DEF VInv, Keyed, Ordering
<1> QED BY <1>1, <1>2, <1>4, <1>6, <1>7, OutsideStep

LEMMA ReapKeeps ==
  ASSUME VInv, NEW s \in Sessions, Reap(s)
  PROVE  VInv'
<1>1. UNCHANGED <<active, viewer, pinned, disabled, admin, orders, lost>> /\ Stop({s})
  BY DEF Reap, virtual
<1>2. /\ active \in Keys \cup {None} /\ disabled \subseteq Cids /\ lost \in BOOLEAN /\ orders \in 0..MaxOrders
      /\ admin \in [Admins -> AdminRecord]
  BY DEF VInv, TypeOK
<1>3. \A a \in Admins : Ordering(a)'
  BY <1>1 DEF VInv, Ordering
<1> QED BY <1>1, <1>2, <1>3, MayStopType, OutsideStep

-------------------------------------------------------------------------------
(* The administrator.                                                       *)

LEMMA OrderStep ==
  ASSUME VInv, NEW a \in Admins, NEW o \in AdminRecord, Does(a, o), Fits(o)
  PROVE  admin' \in [Admins -> AdminRecord] /\ \A b \in Admins : Ordering(b)'
<1>1. admin \in [Admins -> AdminRecord] /\ \A b \in Admins : Fits(admin[b])
  BY DEF VInv, TypeOK, Ordering
<1>2. admin' = [admin EXCEPT ![a] = o]
  BY DEF Does
<1>3. \A b \in Admins : admin'[b] = IF b = a THEN o ELSE admin[b]
  BY <1>1, <1>2
<1> QED BY <1>1, <1>2, <1>3 DEF Ordering

LEMMA OrderType ==
  ASSUME VInv, NEW a \in Admins
  PROVE  admin[a] \in AdminRecord /\ Fits(admin[a]) /\ NoOrder \in AdminRecord /\ Fits(NoOrder)
<1>1. NoOrder \in AdminRecord /\ Fits(NoOrder)
  BY DEF NoOrder, AdminRecord, AdminPC, Fits
<1> QED BY <1>1 DEF VInv, TypeOK, Ordering

\* The pin changes: no request goes by another one.
LEMMA UnboundStep ==
  ASSUME VInv, Unbound, pinned' \in Cids \cup {None}, active' \in Keys \cup {None},
         UNCHANGED <<disabled, bmap, bc, sc, lost>>, orders' \in 0..MaxOrders,
         admin' \in [Admins -> AdminRecord], \A a \in Admins : Ordering(a)'
  PROVE  VInv'
<1> DEFINE r(v) == [viewer[v] EXCEPT !.under = IF @ = pinned' THEN @ ELSE None]
<1>1. ASSUME NEW v \in Viewers
      PROVE  /\ r(v) \in ViewerRecord /\ r(v).under \in {viewer[v].under, None}
             /\ r(v).under # None => r(v).under = pinned' /\ viewer[v].under = pinned'
             /\ r(v).pc = viewer[v].pc /\ r(v).n = viewer[v].n /\ r(v).key = viewer[v].key
             /\ r(v).broadcast = viewer[v].broadcast /\ r(v).attempted = viewer[v].attempted
  BY ViewerType DEF ViewerRecord
<1>2. viewer' = [v \in Viewers |-> r(v)]
  BY DEF Unbound
<1> HIDE DEF r
<1>3. viewer' \in [Viewers -> ViewerRecord] /\ \A v \in Viewers : viewer'[v] = r(v)
  BY <1>1, <1>2
<1>4. TypeOK' /\ Keyed'
  BY <1>3 DEF VInv, TypeOK, Keyed
<1>5. ASSUME NEW v \in Viewers PROVE Viewing(v)' /\ Bound(v)'
  <2>1. Viewing(v) /\ Bound(v) /\ viewer'[v] = r(v)
    BY <1>3 DEF VInv
  <2>2. Client(v)' = Client(v)
    BY <1>1, <2>1 DEF Client
  <2>3. Viewing(v)'
    BY <1>1, <2>1 DEF Viewing
  <2>4. Bound(v)'
    BY <1>1, <2>1, <2>2 DEF Bound, Serves
  <2> QED BY <2>3, <2>4
<1> QED BY <1>4, <1>5 DEF VInv

LEMMA CountsOrders == VInv /\ Counts => orders' \in 0..MaxOrders
BY Bounds DEF VInv, TypeOK, Counts

LEMMA PinKeeps ==
  ASSUME VInv, NEW a \in Admins, NEW c \in Cids, Pin(a, c)
  PROVE  VInv'
<1> DEFINE o == [NoOrder EXCEPT !.pc = "collect", !.cid = c, !.stops = {active} \ {None, c}]
<1>1. /\ Counts /\ pinned' = c /\ active' = c /\ Unbound /\ Does(a, o)
      /\ UNCHANGED <<disabled, bmap, bc, sc, lost>>
  BY DEF Pin
<1>2. active \in Keys \cup {None} /\ c \in Keys
  BY CidsAreKeys DEF VInv, TypeOK
<1>3. o \in AdminRecord /\ Fits(o)
  BY <1>2 DEF NoOrder, AdminRecord, AdminPC, Fits
<1> HIDE DEF o
<1>4. admin' \in [Admins -> AdminRecord] /\ \A b \in Admins : Ordering(b)'
  BY <1>1, <1>3, OrderStep
<1> QED BY <1>1, <1>2, <1>4, CountsOrders, UnboundStep

LEMMA UnpinKeeps ==
  ASSUME VInv, NEW a \in Admins, Unpin(a)
  PROVE  VInv'
<1>1. pinned' = None /\ Unbound /\ UNCHANGED <<orders, active, disabled, bmap, bc, sc, admin, lost>>
  BY DEF Unpin
<1>2. active \in Keys \cup {None} /\ orders \in 0..MaxOrders /\ admin \in [Admins -> AdminRecord]
  BY DEF VInv, TypeOK
<1>3. \A b \in Admins : Ordering(b)'
  BY <1>1 DEF VInv, Ordering
<1> QED BY <1>1, <1>2, <1>3, UnboundStep

LEMMA ToggleKeeps ==
  ASSUME VInv, NEW a \in Admins, NEW c \in Cids, Toggle(a, c)
  PROVE  VInv'
<1>1. UNCHANGED <<active, pinned, bmap, bc, sc, viewer, lost>> /\ disabled' \subseteq Cids
  BY DEF Toggle, VInv, TypeOK
<1>2. active \in Keys \cup {None} /\ lost \in BOOLEAN
  BY DEF VInv, TypeOK
<1> DEFINE o == [NoOrder EXCEPT !.pc = "collect", !.what = "disable", !.cid = c]
<1>3. (Counts /\ Does(a, o)) \/ UNCHANGED <<admin, orders>>
  BY DEF Toggle
<1>4. o \in AdminRecord /\ Fits(o)
  BY DEF NoOrder, AdminRecord, AdminPC, Fits
<1> HIDE DEF o
<1>5. /\ orders' \in 0..MaxOrders /\ admin' \in [Admins -> AdminRecord]
      /\ \A b \in Admins : Ordering(b)'
  <2>1. CASE Counts /\ Does(a, o)
    BY <1>4, <2>1, CountsOrders, OrderStep
  <2>2. CASE UNCHANGED <<admin, orders>>
    BY <2>2 DEF VInv, TypeOK, Ordering
  <2> QED BY <1>3, <2>1, <2>2
<1> QED BY <1>1, <1>2, <1>5, SameTypes, OutsideStep

\* An order goes on, and the pin, the viewers and the count of orders stay.
LEMMA AdminWorkStep ==
  ASSUME VInv, NEW a \in Admins, NEW o \in AdminRecord, Does(a, o), Fits(o),
         UNCHANGED <<viewer, pinned, disabled, orders, lost>>, active' \in Keys \cup {None},
         bmap' \in [Keys -> Sessions \cup {NoSession}], Keyed',
         bc' \in [Sessions -> SessionRecord], sc' \in [Clients -> ClientRecord],
         \A c \in Clients : sc'[c].current_broadcast \in {sc[c].current_broadcast, NoSession}
  PROVE  VInv'
<1>1. admin' \in [Admins -> AdminRecord] /\ \A b \in Admins : Ordering(b)'
  BY OrderStep
<1>2. disabled' \subseteq Cids /\ lost' \in BOOLEAN /\ orders' \in 0..MaxOrders
  BY DEF VInv, TypeOK
<1> QED BY <1>1, <1>2, OutsideStep

LEMMA CollectKeeps ==
  ASSUME VInv, NEW a \in Admins, Collect(a)
  PROVE  VInv'
<1> DEFINE o == admin[a]
           from == IF o.what = "pin" THEN Listed \ {bmap[o.cid]} ELSE {bmap[o.cid]} \ {NoSession}
           copies == UNION {Present(s) : s \in from}
           users == {s \in from : Present(s) # {}}
           r == [o EXCEPT !.pc = IF copies = {} THEN "stop" ELSE "target",
                          !.all_b = from, !.copies = copies,
                          !.stops = IF o.what = "pin" THEN @ \cup {s[1] : s \in users}
                                    ELSE {k \in {o.cid} : copies # {}}]
<1>1. /\ o.pc = "collect" /\ Does(a, r)
      /\ UNCHANGED <<active, pinned, disabled, bmap, bc, sc, viewer, orders, lost>>
  BY DEF Collect, virtual
<1>2. o \in AdminRecord /\ o.cid \in Cids /\ o.cid \in Keys
  BY <1>1, OrderType, CidsAreKeys DEF Fits
<1>3. bmap \in [Keys -> Sessions \cup {NoSession}] /\ bc \in [Sessions -> SessionRecord] /\ active \in Keys \cup {None}
  BY DEF VInv, TypeOK
<1>4. from \in SUBSET Sessions
  BY <1>2, <1>3 DEF Listed
<1> HIDE DEF from
<1>5. copies \in SUBSET Clients
  <2>1. \A s \in Sessions : Present(s) \subseteq Clients
    BY <1>3 DEF Present, SessionRecord
  <2> QED BY <1>4, <2>1
<1>6. {s[1] : s \in users} \subseteq Keys
  BY <1>4, Bounds
<1> HIDE DEF copies, users
<1> DEFINE stops == IF o.what = "pin" THEN o.stops \cup {s[1] : s \in users} ELSE {k \in {o.cid} : copies # {}}
<1>7. stops \in SUBSET Keys
  BY <1>2, <1>6 DEF AdminRecord
<1>8. r = [o EXCEPT !.pc = IF copies = {} THEN "stop" ELSE "target", !.all_b = from, !.copies = copies, !.stops = stops]
  BY <1>2 DEF AdminRecord
<1> HIDE DEF stops, r
<1>9. /\ r \in AdminRecord /\ r.pc \in {"stop", "target"} /\ r.cid = o.cid
  BY <1>2, <1>4, <1>5, <1>7, <1>8 DEF AdminRecord, AdminPC
<1>10. Fits(r)
  BY <1>2, <1>9 DEF Fits
<1> QED BY <1>1, <1>3, <1>9, <1>10, SameTypes, AdminWorkStep

LEMMA TargetKeeps ==
  ASSUME VInv, NEW a \in Admins, Target(a)
  PROVE  VInv'
<1> DEFINE o == admin[a]
           goals == IF o.what = "pin" THEN {o.cid} ELSE Cids \ (disabled \cup {o.cid})
<1>1. /\ o.pc = "target" /\ active' \in {active, Refreshed}
      /\ UNCHANGED <<pinned, disabled, viewer, orders, lost>>
  BY DEF Target
<1>2. \/ Does(a, [o EXCEPT !.pc = "stop", !.copies = {}]) /\ UNCHANGED <<bmap, bc, sc>>
      \/ \E k \in goals : /\ CanGet(k) /\ bmap' = MapWith(k) /\ bc' = With(k) /\ sc' = ClientsWith(k)
                          /\ Does(a, [o EXCEPT !.pc = "detach", !.target = Got(k)])
      \/ Does(a, NoOrder) /\ UNCHANGED <<bmap, bc, sc>>
  BY DEF Target
<1>3. o \in AdminRecord /\ o.cid \in Cids
  BY <1>1, OrderType DEF Fits
<1>4. active' \in Keys \cup {None}
  BY <1>1, RefreshedType DEF VInv, TypeOK
<1>5. CASE Does(a, [o EXCEPT !.pc = "stop", !.copies = {}]) /\ UNCHANGED <<bmap, bc, sc>>
  <2> DEFINE r == [o EXCEPT !.pc = "stop", !.copies = {}]
  <2>1. r \in AdminRecord /\ Fits(r)
    BY <1>3 DEF AdminRecord, AdminPC, Fits
  <2> QED BY <1>1, <1>4, <1>5, <2>1, SameTypes, AdminWorkStep
<1>6. CASE Does(a, NoOrder) /\ UNCHANGED <<bmap, bc, sc>>
  BY <1>1, <1>4, <1>6, OrderType, SameTypes, AdminWorkStep
<1>7. ASSUME NEW k \in goals, CanGet(k), bmap' = MapWith(k), bc' = With(k), sc' = ClientsWith(k),
             Does(a, [o EXCEPT !.pc = "detach", !.target = Got(k)])
      PROVE  VInv'
  <2>1. k \in Keys /\ (o.what = "pin" => k = o.cid)
    BY <1>3, CidsAreKeys
  <2>2. Got(k) \in Sessions /\ Got(k)[1] = k
    BY <1>7, <2>1, GotType
  <2> DEFINE r == [o EXCEPT !.pc = "detach", !.target = Got(k)]
  <2>3. r \in AdminRecord /\ Fits(r)
    BY <1>3, <2>1, <2>2 DEF AdminRecord, AdminPC, Fits
  <2> HIDE DEF r
  <2>4. /\ bmap' \in [Keys -> Sessions \cup {NoSession}] /\ Keyed'
        /\ bc' \in [Sessions -> SessionRecord] /\ sc' \in [Clients -> ClientRecord]
        /\ \A c \in Clients : sc'[c].current_broadcast \in {sc[c].current_broadcast, NoSession}
    BY <1>7, <2>1, GetsType DEF Keyed
  <2>5. Does(a, r)
    BY <1>7 DEF r
  <2> QED BY <1>1, <1>4, <2>3, <2>4, <2>5, AdminWorkStep
<1> QED BY <1>2, <1>5, <1>6, <1>7

LEMMA DetachKeeps ==
  ASSUME VInv, NEW a \in Admins, Detach(a)
  PROVE  VInv'
<1> DEFINE o == admin[a]
<1>1. o \in AdminRecord /\ Fits(o)
  BY OrderType
<1>2. /\ o.pc = "detach"
      /\ UNCHANGED <<active, pinned, disabled, bmap, sc, viewer, orders, lost>>
  BY DEF Detach, virtual
<1>3. PICK c \in o.copies :
        /\ bc' = [s \in Sessions |-> IF s \in o.all_b THEN Discounted(bc[s], c) ELSE bc[s]]
        /\ Does(a, [o EXCEPT !.pc = "attach", !.client = c])
  BY DEF Detach
<1>4. c \in Clients
  BY <1>1 DEF AdminRecord
<1> DEFINE r == [o EXCEPT !.pc = "attach", !.client = c]
<1>5. r \in AdminRecord /\ Fits(r)
  BY <1>1, <1>2, <1>4 DEF AdminRecord, AdminPC, Fits
<1>6. bc' \in [Sessions -> SessionRecord]
  BY <1>3, <1>4, CountsType DEF VInv, TypeOK
<1>7. /\ bmap' \in [Keys -> Sessions \cup {NoSession}] /\ Keyed' /\ sc' \in [Clients -> ClientRecord]
      /\ \A d \in Clients : sc'[d].current_broadcast \in {sc[d].current_broadcast, NoSession}
      /\ active' \in Keys \cup {None}
  BY <1>2 DEF VInv, TypeOK, Keyed
<1> HIDE DEF o
<1> QED BY <1>2, <1>3, <1>5, <1>6, <1>7, AdminWorkStep

LEMMA AttachKeeps ==
  ASSUME VInv, NEW a \in Admins, Attach(a)
  PROVE  VInv'
<1> DEFINE o == admin[a]
           c == o.client
           left == o.copies \ {c}
           r == [o EXCEPT !.copies = left, !.client = None,
                          !.target = IF left = {} THEN NoSession ELSE @,
                          !.pc = CASE left = {} -> "stop"
                                   [] left # {} /\ o.what = "pin" -> "detach"
                                   [] OTHER -> "target"]
           q == [viewer[c[1]] EXCEPT !.under = IF o.what = "pin" /\ o.cid = @ THEN @ ELSE None]
<1>1. /\ o.pc = "attach" /\ Does(a, r) /\ UNCHANGED <<active, pinned, disabled, bmap, orders>>
      /\ bc' = [bc EXCEPT ![o.target] = Counted(@, c)]
      /\ sc' = [sc EXCEPT ![c].current_broadcast = o.target]
      /\ lost' = (lost \/ ~Holding(c))
      /\ viewer' = [viewer EXCEPT ![c[1]] = q]
  BY DEF Attach, virtual
<1>2. /\ o \in AdminRecord /\ o.cid \in Cids /\ o.target \in Sessions /\ c \in Clients
      /\ o.what = "pin" => o.target[1] = o.cid
  BY <1>1, OrderType DEF Fits
<1>3. c[1] \in Viewers /\ viewer[c[1]] \in ViewerRecord
  BY <1>2, Bounds, ViewerType
<1>4. /\ bmap \in [Keys -> Sessions \cup {NoSession}] /\ bc \in [Sessions -> SessionRecord]
      /\ sc \in [Clients -> ClientRecord] /\ viewer \in [Viewers -> ViewerRecord]
  BY DEF VInv, TypeOK
<1>5. r \in AdminRecord /\ Fits(r)
  <2> DEFINE target == IF left = {} THEN NoSession ELSE o.target
             pc == CASE left = {} -> "stop"
                     [] left # {} /\ o.what = "pin" -> "detach"
                     [] OTHER -> "target"
  <2>1. r = [o EXCEPT !.copies = left, !.client = None, !.target = target, !.pc = pc]
    BY <1>2 DEF AdminRecord
  <2>2. /\ left \in SUBSET Clients /\ target \in Sessions \cup {NoSession}
        /\ pc \in {"stop", "detach", "target"}
        /\ pc = "detach" => target = o.target
    BY <1>2 DEF AdminRecord
  <2> HIDE DEF target, pc, left, r
  <2>3. r \in AdminRecord /\ r.pc = pc /\ r.target = target /\ r.cid = o.cid /\ r.what = o.what
    BY <1>2, <2>1, <2>2 DEF AdminRecord, AdminPC
  <2> QED BY <1>2, <2>2, <2>3 DEF Fits
<1>6. /\ q \in ViewerRecord
      /\ q.under # None => o.what = "pin" /\ q.under = o.cid /\ q.under = viewer[c[1]].under
      /\ q.pc = viewer[c[1]].pc /\ q.n = viewer[c[1]].n /\ q.key = viewer[c[1]].key
      /\ q.broadcast = viewer[c[1]].broadcast /\ q.attempted = viewer[c[1]].attempted
  BY <1>3 DEF ViewerRecord
<1> HIDE DEF r, q
<1>7. viewer' \in [Viewers -> ViewerRecord] /\ \A u \in Viewers : viewer'[u] = IF u = c[1] THEN q ELSE viewer[u]
  BY <1>1, <1>3, <1>4, <1>6
<1>8. bc' \in [Sessions -> SessionRecord]
  BY <1>1, <1>2, <1>4, CountsType
<1>9. /\ sc' \in [Clients -> ClientRecord]
      /\ \A d \in Clients : sc'[d].current_broadcast = IF d = c THEN o.target ELSE sc[d].current_broadcast
  <2>1. [sc[c] EXCEPT !.current_broadcast = o.target] \in ClientRecord
    BY <1>2, <1>4 DEF ClientRecord
  <2>2. sc[c] \in ClientRecord
    BY <1>2, <1>4
  <2>3. [sc[c] EXCEPT !.current_broadcast = o.target].current_broadcast = o.target
    BY <2>2 DEF ClientRecord
  <2> QED BY <1>1, <1>2, <1>4, <2>1, <2>3
<1>10. admin' \in [Admins -> AdminRecord] /\ \A b \in Admins : Ordering(b)'
  BY <1>1, <1>5, OrderStep
<1>11. lost' \in BOOLEAN
  BY <1>1 DEF VInv, TypeOK, Holding
<1>12. TypeOK' /\ Keyed'
  BY <1>1, <1>4, <1>7, <1>8, <1>9, <1>10, <1>11 DEF VInv, TypeOK, Keyed
<1> HIDE DEF o, c, left
<1>13. ASSUME NEW u \in Viewers PROVE Viewing(u)' /\ Bound(u)'
  <2>1. Viewing(u) /\ Bound(u) /\ Client(u) \in Clients /\ Client(u)[1] = u
    BY ViewerType DEF VInv
  <2>2. /\ viewer'[u].pc = viewer[u].pc /\ viewer'[u].n = viewer[u].n /\ viewer'[u].key = viewer[u].key
        /\ viewer'[u].broadcast = viewer[u].broadcast /\ viewer'[u].attempted = viewer[u].attempted
        /\ viewer'[u].under # None => viewer'[u].under = viewer[u].under
    BY <1>6, <1>7
  <2>3. Client(u)' = Client(u)
    BY <2>2 DEF Client
  <2>4. Viewing(u)'
    BY <2>1, <2>2 DEF Viewing
  <2>5. viewer'[u].under # None /\ Client(u) = c => Serves(o.target, viewer'[u].under)
    BY <1>2, <1>6, <1>7, <2>1 DEF Serves
  <2>6. sc'[Client(u)].current_broadcast = IF Client(u) = c THEN o.target ELSE sc[Client(u)].current_broadcast
    BY <1>9, <2>1
  <2>7. Bound(u)'
    BY <1>1, <2>1, <2>2, <2>3, <2>5, <2>6 DEF Bound
  <2> QED BY <2>4, <2>7
<1> QED BY <1>10, <1>12, <1>13 DEF VInv

LEMMA AdminStopKeeps ==
  ASSUME VInv, NEW a \in Admins, AdminStop(a)
  PROVE  VInv'
<1> DEFINE o == admin[a]
<1>1. /\ o.pc = "stop" /\ UNCHANGED <<active, pinned, disabled, viewer, orders, lost>>
      /\ UNCHANGED <<bmap, bc, sc>> \/ \E S : Stop(S)
      /\ Does(a, NoOrder) \/ \E k \in o.stops : Does(a, [o EXCEPT !.stops = @ \ {k}])
  BY DEF AdminStop, ForceStop, virtual
<1>2. o \in AdminRecord /\ Fits(o) /\ NoOrder \in AdminRecord /\ Fits(NoOrder) /\ active \in Keys \cup {None}
  BY OrderType DEF VInv, TypeOK
<1>3. \A k : [o EXCEPT !.stops = @ \ {k}] \in AdminRecord /\ Fits([o EXCEPT !.stops = @ \ {k}])
  BY <1>1, <1>2 DEF AdminRecord, Fits
<1>4. PICK r \in AdminRecord : Does(a, r) /\ Fits(r)
  BY <1>1, <1>2, <1>3
<1> QED BY <1>1, <1>2, <1>4, MayStopType, AdminWorkStep

-------------------------------------------------------------------------------
(* What a broadcast counts.                                                 *)

\* A broadcast counts no more subscribers than it has clients on its list.
Fair(b) == IsFiniteSet(b.clients_) /\ b.subscribers_ <= Cardinality(b.clients_)

\* The handler of client c plays from broadcast s, or waits for its first chunk.
Serving(c, s) ==
  /\ viewer[c[1]].pc \in {"await", "play"} /\ Client(c[1]) = c
  /\ sc[c].current_broadcast = s

Accounted(s) == Fair(bc[s]) /\ \A c \in bc[s].clients_ : Serving(c, s)

\* The first wait is before the first chunk.
Waits(v) == viewer[v].pc \in {"idle", "join", "await"} => ~viewer[v].playing

\* The broadcasts of the map are right unless a client was lost; what an
\* administrator does to a broadcast that is no longer there does not matter.
CInv ==
  /\ VInv
  /\ \A v \in Viewers : Waits(v)
  /\ ~lost => \A s \in Listed : Accounted(s)

LEMMA NobodyIsFair ==
  /\ Fair(Stopped) /\ Stopped.clients_ = {}
  /\ Fair(Fresh) /\ Fresh.clients_ = {}
BY FS_EmptySet DEF Fair, Stopped, Fresh

\* A client that joins counts once.
LEMMA CountedFair ==
  ASSUME NEW b \in SessionRecord, NEW c, Fair(b), c \notin b.clients_
  PROVE  Fair(Counted(b, c)) /\ Counted(b, c).clients_ = b.clients_ \cup {c}
<1>1. Counted(b, c).clients_ = b.clients_ \cup {c} /\ Counted(b, c).subscribers_ = b.subscribers_ + 1
  BY DEF Counted, SessionRecord
<1>2. b.subscribers_ \in Nat /\ IsFiniteSet(b.clients_) /\ b.subscribers_ <= Cardinality(b.clients_)
  BY DEF Fair, SessionRecord
<1>3. IsFiniteSet(b.clients_ \cup {c}) /\ Cardinality(b.clients_ \cup {c}) = Cardinality(b.clients_) + 1
      /\ Cardinality(b.clients_) \in Nat
  BY <1>2, FS_AddElement, FS_CardinalityType
<1> QED BY <1>1, <1>2, <1>3 DEF Fair

\* One that leaves is discounted, and so is one that was not on the list.
LEMMA DiscountedFair ==
  ASSUME NEW b \in SessionRecord, NEW c, Fair(b)
  PROVE  Fair(Discounted(b, c)) /\ Discounted(b, c).clients_ = b.clients_ \ {c}
<1>1. /\ Discounted(b, c).clients_ = b.clients_ \ {c}
      /\ Discounted(b, c).subscribers_ = IF b.subscribers_ <= 1 THEN 0 ELSE b.subscribers_ - 1
  BY DEF Discounted, SessionRecord
<1>2. b.subscribers_ \in Nat /\ IsFiniteSet(b.clients_) /\ b.subscribers_ <= Cardinality(b.clients_)
  BY DEF Fair, SessionRecord
<1>3. /\ IsFiniteSet(b.clients_ \ {c})
      /\ Cardinality(b.clients_ \ {c}) \in {Cardinality(b.clients_), Cardinality(b.clients_) - 1}
  BY <1>2, FS_RemoveElement
<1>4. Cardinality(b.clients_) \in Nat /\ Cardinality(b.clients_ \ {c}) \in Nat
  BY <1>2, <1>3, FS_CardinalityType
<1> QED BY <1>1, <1>2, <1>3, <1>4 DEF Fair

LEMMA ListedType ==
  ASSUME VInv, NEW s \in Listed
  PROVE  /\ s \in Sessions /\ s # NoSession /\ Referenced(s) /\ bc[s] \in SessionRecord
         /\ \A c \in bc[s].clients_ : c \in Clients /\ c[1] \in Viewers
<1>1. s \in Sessions /\ s # NoSession /\ bc[s] \in SessionRecord
  BY DEF Listed, VInv, TypeOK
<1>2. bc[s].clients_ \in SUBSET Clients
  BY <1>1 DEF SessionRecord
<1> QED BY <1>1, <1>2, Bounds DEF Referenced

\* A broadcast of the map that stays, and may lose clients.
Loses(s) ==
  /\ s \in Listed
  /\ Fair(bc[s]) => Fair(bc'[s])
  /\ bc'[s].clients_ \subseteq bc[s].clients_
  /\ \A c \in bc'[s].clients_ : Serving(c, s) => Serving(c, s)'

Emptied(s) == bc'[s] \in {Stopped, Fresh}

LEMMA StaysAccounted ==
  ASSUME CInv, ~lost, NEW s, Loses(s) \/ Emptied(s)
  PROVE  Accounted(s)'
<1>1. CASE Loses(s)
  <2>1. Accounted(s)
    BY <1>1 DEF CInv, Loses
  <2> QED BY <1>1, <2>1 DEF Loses, Accounted, Fair
<1>2. CASE Emptied(s)
  BY <1>2, NobodyIsFair DEF Emptied, Accounted, Fair
<1> QED BY <1>1, <1>2

\* What the handlers of the clients that are served do in a step of others.
Unmoved(v) ==
  viewer[v].pc \in {"await", "play"} =>
    viewer'[v].pc \in {"await", "play"} /\ viewer'[v].n = viewer[v].n

\* A step in which nobody joins a broadcast of the map or leaves one.
LEMMA QuietCounts ==
  ASSUME CInv, VInv', \A v \in Viewers : Unmoved(v) /\ Waits(v)', lost' = lost,
         \A s \in Listed' :
           \/ Emptied(s)
           \/ /\ s \in Listed
              /\ \/ bc'[s] = bc[s] \/ (\E c : bc'[s] = Discounted(bc[s], c))
                 \/ bc'[s] = [bc[s] EXCEPT !.running_ = FALSE]
              /\ \A c \in Clients : sc[c].current_broadcast = s => sc'[c].current_broadcast = s
  PROVE  CInv'
<1>1. ASSUME ~lost, NEW s \in Listed' PROVE Loses(s) \/ Emptied(s)
  <2> SUFFICES ASSUME ~Emptied(s) PROVE Loses(s)
    OBVIOUS
  <2>1. /\ s \in Listed
        /\ \/ bc'[s] = bc[s] \/ (\E c : bc'[s] = Discounted(bc[s], c))
           \/ bc'[s] = [bc[s] EXCEPT !.running_ = FALSE]
        /\ \A c \in Clients : sc[c].current_broadcast = s => sc'[c].current_broadcast = s
    BY <1>1
  <2>2. bc[s] \in SessionRecord /\ \A c \in bc[s].clients_ : c \in Clients /\ c[1] \in Viewers
    BY <2>1, ListedType DEF CInv
  <2>3. (Fair(bc[s]) => Fair(bc'[s])) /\ bc'[s].clients_ \subseteq bc[s].clients_
    <3>1. CASE bc'[s] = bc[s]
      BY <3>1
    <3>2. CASE \E c : bc'[s] = Discounted(bc[s], c)
      <4>1. PICK c : bc'[s] = Discounted(bc[s], c)
        BY <3>2
      <4>2. bc'[s].clients_ = bc[s].clients_ \ {c}
        BY <4>1, <2>2 DEF Discounted, SessionRecord
      <4> QED BY <4>1, <4>2, <2>2, DiscountedFair
    <3>3. CASE bc'[s] = [bc[s] EXCEPT !.running_ = FALSE]
      BY <3>3, <2>2 DEF Fair, SessionRecord
    <3> QED BY <2>1, <3>1, <3>2, <3>3
  <2>4. ASSUME NEW c \in bc'[s].clients_, Serving(c, s) PROVE Serving(c, s)'
    <3>1. c \in Clients /\ c[1] \in Viewers
      BY <2>2, <2>3
    <3>2. Unmoved(c[1])
      BY <3>1
    <3> QED BY <2>1, <2>4, <3>1, <3>2 DEF Serving, Unmoved, Client
  <2> QED BY <2>1, <2>3, <2>4 DEF Loses
<1>2. ~lost' => \A s \in Listed' : Accounted(s)'
  BY <1>1, StaysAccounted
<1> QED BY <1>2 DEF CInv

\* The records of the handlers and the clients stay, or change in what does
\* not matter here.
LEMMA SameHandlers ==
  ASSUME CInv, UNCHANGED viewer
  PROVE  \A v \in Viewers : Unmoved(v) /\ Waits(v)'
BY DEF CInv, Unmoved, Waits

LEMMA SameCounts ==
  ASSUME UNCHANGED <<bmap, bc, sc>>
  PROVE  \A s \in Listed' :
           s \in Listed /\ bc'[s] = bc[s]
           /\ \A c \in Clients : sc[c].current_broadcast = s => sc'[c].current_broadcast = s
BY DEF Listed

LEMMA StopCounts ==
  ASSUME VInv, NEW S, Stop(S)
  PROVE  \A s \in Listed' :
           s \in Listed /\ bc'[s] \in {bc[s], Stopped}
           /\ \A c \in Clients : sc[c].current_broadcast = s => sc'[c].current_broadcast = s
<1>1. \A c \in Clients : sc'[c].current_broadcast = sc[c].current_broadcast
  BY StopType
<1>2. ASSUME NEW s \in Listed' PROVE s \in Listed /\ bc'[s] \in {bc[s], Stopped}
  <2>1. s \in Listed
    BY <1>2 DEF Listed, Stop
  <2>2. s \in Sessions
    BY <2>1, ListedType
  <2> QED BY <2>1, <2>2 DEF Stop
<1> QED BY <1>1, <1>2

LEMMA GetCounts ==
  ASSUME VInv, NEW k \in Keys, CanGet(k), bmap' = MapWith(k), bc' = With(k), sc' = ClientsWith(k)
  PROVE  \A s \in Listed' :
           \/ Emptied(s)
           \/ /\ s \in Listed /\ bc'[s] = bc[s]
              /\ \A c \in Clients : sc[c].current_broadcast = s => sc'[c].current_broadcast = s
<1> SUFFICES ASSUME NEW s \in Listed'
             PROVE  \/ Emptied(s)
                    \/ /\ s \in Listed /\ bc'[s] = bc[s]
                       /\ \A c \in Clients : sc[c].current_broadcast = s => sc'[c].current_broadcast = s
  OBVIOUS
<1>1. bmap \in [Keys -> Sessions \cup {NoSession}] /\ bc \in [Sessions -> SessionRecord]
      /\ sc \in [Clients -> ClientRecord] /\ Got(k) \in Sessions
  BY GotType DEF VInv, TypeOK
<1>2. s \in Listed \cup {Got(k)} /\ s # NoSession
  BY <1>1 DEF Listed, MapWith
<1>3. CASE bmap[k] # NoSession
  <2>1. Got(k) \in Listed
    BY <1>3 DEF Got, Listed
  <2> QED BY <1>2, <1>3, <2>1 DEF With, ClientsWith
<1>4. CASE bmap[k] = NoSession /\ s = Got(k)
  BY <1>1, <1>4 DEF With, Emptied
<1>5. CASE bmap[k] = NoSession /\ s # Got(k)
  <2>1. s \in Listed /\ s \in Sessions
    BY <1>2, <1>5, ListedType
  <2>2. bc'[s] = bc[s]
    BY <1>1, <1>5, <2>1 DEF With
  <2>3. \A c \in Clients : sc[c].current_broadcast = s => sc'[c].current_broadcast = s
    BY <1>1, <1>5 DEF ClientsWith, ClientRecord
  <2> QED BY <2>1, <2>2, <2>3
<1> QED BY <1>3, <1>4, <1>5

-------------------------------------------------------------------------------
(* What each step does to the counts.                                       *)

\* A handler that no broadcast serves starts, ends or gets another candidate.
LEMMA UnservedCounts ==
  ASSUME CInv, VInv', NEW v \in Viewers, viewer[v].pc \notin {"await", "play"}, NEW r,
         viewer' = [viewer EXCEPT ![v] = r], r.pc \in {"idle", "join", "await"} => ~r.playing,
         lost' = lost, UNCHANGED <<bmap, bc, sc>> \/ \E S : Stop(S)
  PROVE  CInv'
<1>1. \A u \in Viewers : viewer'[u] = IF u = v THEN r ELSE viewer[u]
  BY DEF CInv, VInv, TypeOK
<1>2. \A u \in Viewers : Unmoved(u) /\ Waits(u)'
  BY <1>1 DEF CInv, Unmoved, Waits
<1>3. VInv
  BY DEF CInv
<1> QED BY <1>2, <1>3, SameCounts, StopCounts, QuietCounts DEF Emptied

LEMMA RequestCounts ==
  ASSUME CInv, VInv', NEW v \in Viewers, RequestAuto(v) \/ \E c \in Wanted : RequestCid(v, c)
  PROVE  CInv'
<1>1. viewer[v].pc = "idle" /\ UNCHANGED <<bmap, bc, sc, lost>>
  BY DEF RequestAuto, RequestCid, At, Elsewhere
<1>2. Ends(v) \/ \E c : Admit(v, c)
  BY DEF RequestAuto, RequestCid
<1>3. CASE Ends(v)
  BY <1>1, <1>3, UnservedCounts DEF Ends, NoViewer
<1>4. ASSUME NEW c, Admit(v, c), ~Ends(v) PROVE CInv'
  <2>1. PICK k \in Infohash[c] :
          viewer' = [viewer EXCEPT ![v].pc = "join", ![v].key = k, ![v].attempted = {c},
                                   ![v].under = IF v \in AutoViewers THEN pinned ELSE None]
    BY <1>4 DEF Admit
  <2> DEFINE r == [viewer[v] EXCEPT !.pc = "join", !.key = k, !.attempted = {c},
                                    !.under = IF v \in AutoViewers THEN pinned ELSE None]
  <2>2. viewer[v] \in ViewerRecord /\ ~viewer[v].playing
    BY <1>1, ViewerType DEF CInv, Waits
  <2>3. viewer' = [viewer EXCEPT ![v] = r]
    BY <2>1
  <2>4. ~r.playing
    BY <2>2 DEF ViewerRecord
  <2> HIDE DEF r
  <2> QED BY <1>1, <2>3, <2>4, UnservedCounts
<1> QED BY <1>2, <1>3, <1>4

LEMMA RefusedCounts ==
  ASSUME CInv, VInv', NEW v \in Viewers, Refused(v)
  PROVE  CInv'
<1>1. viewer[v].pc \in {"join", "rejoin"} /\ UNCHANGED <<bmap, bc, sc, lost>> /\ Ends(v)
  BY DEF Refused, Elsewhere
<1> QED BY <1>1, UnservedCounts DEF Ends, NoViewer

LEMMA NextCandidateCounts ==
  ASSUME CInv, VInv', NEW v \in Viewers, NEW c \in Cids, NextCandidate(v, c)
  PROVE  CInv'
<1> DEFINE r == [viewer[v] EXCEPT !.pc = "rejoin", !.key = c, !.attempted = @ \cup {c}]
<1>1. viewer[v].pc = "failed" /\ viewer' = [viewer EXCEPT ![v] = r] /\ lost' = lost
  BY DEF NextCandidate, At
<1>2. UNCHANGED <<bmap, bc, sc>> \/ \E S : Stop(S)
  BY DEF NextCandidate, ForceStop
<1>3. r.pc = "rejoin"
  BY ViewerType DEF CInv, ViewerRecord
<1> HIDE DEF r
<1> QED BY <1>1, <1>2, <1>3, UnservedCounts

LEMMA FirstChunkCounts ==
  ASSUME CInv, VInv', NEW v \in Viewers, FirstChunk(v)
  PROVE  CInv'
<1> DEFINE r == [viewer[v] EXCEPT !.pc = "play", !.playing = TRUE]
<1>1. viewer' = [viewer EXCEPT ![v] = r] /\ lost' = lost /\ UNCHANGED <<bmap, bc, sc>>
  BY DEF FirstChunk, Elsewhere
<1>2. r.pc = "play" /\ r.n = viewer[v].n
  BY ViewerType DEF CInv, ViewerRecord
<1> HIDE DEF r
<1>3. \A u \in Viewers : viewer'[u] = IF u = v THEN r ELSE viewer[u]
  BY <1>1 DEF CInv, VInv, TypeOK
<1>4. \A u \in Viewers : Unmoved(u) /\ Waits(u)'
  BY <1>2, <1>3 DEF CInv, Unmoved, Waits
<1> QED BY <1>1, <1>4, SameCounts, QuietCounts

\* A client that is served is served by the broadcast its handler takes it
\* from, if that one did not forget where it is.
LEMMA ServedByCurrent ==
  ASSUME CInv, NEW v \in Viewers, ~Forgotten(v), NEW s \in Listed, Serving(Client(v), s)
  PROVE  s = Current(v)
<1>1. Client(v)[1] = v /\ s # NoSession /\ Referenced(s) /\ sc[Client(v)].current_broadcast = s
  BY ViewerType, ListedType DEF CInv, Serving
<1>2. Lock(Client(v)) = s
  BY <1>1 DEF Lock
<1> QED BY <1>1, <1>2 DEF Forgotten, Current

\* A handler lets go of its client: no broadcast of the map keeps it.
LEMMA DepartureCounts ==
  ASSUME CInv, VInv', NEW v \in Viewers, NEW r, viewer' = [viewer EXCEPT ![v] = r],
         r.pc \notin {"idle", "join", "await"}, lost' = (lost \/ Forgotten(v)),
         \A d \in Clients : d # Client(v) => sc'[d] = sc[d],
         Listed' \subseteq Listed,
         \A s \in Listed' :
           bc'[s] \in {Stopped, IF s = Current(v) THEN Discounted(bc[s], Client(v)) ELSE bc[s]}
  PROVE  CInv'
<1>1. \A u \in Viewers : viewer'[u] = IF u = v THEN r ELSE viewer[u]
  BY DEF CInv, VInv, TypeOK
<1>2. \A u \in Viewers : Waits(u)'
  BY <1>1 DEF CInv, Waits
<1>3. ASSUME ~lost, ~Forgotten(v), NEW s \in Listed' PROVE Loses(s) \/ Emptied(s)
  <2> SUFFICES ASSUME ~Emptied(s) PROVE Loses(s)
    OBVIOUS
  <2>1. s \in Listed /\ bc'[s] = IF s = Current(v) THEN Discounted(bc[s], Client(v)) ELSE bc[s]
    BY DEF Emptied
  <2>2. bc[s] \in SessionRecord /\ \A c \in bc[s].clients_ : c \in Clients /\ c[1] \in Viewers
    BY <2>1, ListedType DEF CInv
  <2>3. Accounted(s)
    BY <1>3, <2>1 DEF CInv
  <2>4. Fair(bc'[s]) /\ bc'[s].clients_ = bc[s].clients_ \ {Client(v)}
    <3>1. CASE s = Current(v)
      BY <2>1, <2>2, <2>3, <3>1, DiscountedFair DEF Accounted
    <3>2. CASE s # Current(v)
      <4>1. Client(v) \notin bc[s].clients_
        BY <1>3, <2>1, <2>3, <3>2, ServedByCurrent DEF Accounted
      <4> QED BY <2>1, <2>3, <3>2, <4>1 DEF Accounted
    <3> QED BY <3>1, <3>2
  <2>5. ASSUME NEW c \in bc'[s].clients_ PROVE Serving(c, s)'
    <3>1. c \in Clients /\ c[1] \in Viewers /\ c # Client(v) /\ Serving(c, s)
      BY <2>2, <2>3, <2>4 DEF Accounted
    <3>2. c[1] # v
      BY <3>1 DEF Serving
    <3> QED BY <1>1, <3>1, <3>2 DEF Serving, Client
  <2> QED BY <2>1, <2>4, <2>5 DEF Loses
<1>4. ~lost' => \A s \in Listed' : Accounted(s)'
  BY <1>3, StaysAccounted
<1> QED BY <1>2, <1>4 DEF CInv

LEMMA HeadCounts ==
  ASSUME CInv, VInv', NEW v \in Viewers, Head(v)
  PROVE  CInv'
<1>1. /\ viewer[v].pc = "await" /\ UNCHANGED bmap /\ Ends(v)
      /\ bc' = [bc EXCEPT ![viewer[v].broadcast] = Discounted(@, Client(v))]
      /\ sc' = [sc EXCEPT ![Client(v)] = NoClient] /\ lost' = (lost \/ Forgotten(v))
  BY DEF Head, At
<1>2. Current(v) = viewer[v].broadcast
  BY <1>1 DEF CInv, Waits, Current
<1>3. bc \in [Sessions -> SessionRecord] /\ sc \in [Clients -> ClientRecord] /\ \A s \in Listed : s \in Sessions
  BY ListedType DEF CInv, VInv, TypeOK
<1>4. Listed' = Listed
  BY <1>1 DEF Listed
<1>5. \A s \in Listed' : bc'[s] = IF s = Current(v) THEN Discounted(bc[s], Client(v)) ELSE bc[s]
  BY <1>1, <1>2, <1>3, <1>4
<1>6. \A d \in Clients : d # Client(v) => sc'[d] = sc[d]
  BY <1>1, <1>3
<1> QED BY <1>1, <1>4, <1>5, <1>6, DepartureCounts DEF Ends, NoViewer

LEMMA FailsCounts ==
  ASSUME CInv, VInv', NEW v \in Viewers, Fails(v)
  PROVE  CInv'
<1> DEFINE r == [viewer[v] EXCEPT !.pc = "failed", !.broadcast = Current(v)]
<1>1. /\ viewer' = [viewer EXCEPT ![v] = r] /\ UNCHANGED bmap
      /\ bc' = [bc EXCEPT ![Current(v)] = Discounted(@, Client(v))]
      /\ sc' = [sc EXCEPT ![Client(v)].closed = TRUE] /\ lost' = (lost \/ Forgotten(v))
  BY DEF Fails, RemoveFrom
<1>2. r.pc = "failed"
  BY ViewerType DEF CInv, ViewerRecord
<1> HIDE DEF r
<1>3. bc \in [Sessions -> SessionRecord] /\ sc \in [Clients -> ClientRecord] /\ \A s \in Listed : s \in Sessions
  BY ListedType DEF CInv, VInv, TypeOK
<1>4. Listed' = Listed
  BY <1>1 DEF Listed
<1>5. \A s \in Listed' : bc'[s] = IF s = Current(v) THEN Discounted(bc[s], Client(v)) ELSE bc[s]
  BY <1>1, <1>3, <1>4
<1>6. \A d \in Clients : d # Client(v) => sc'[d] = sc[d]
  BY <1>1, <1>3
<1> QED BY <1>1, <1>2, <1>4, <1>5, <1>6, DepartureCounts

LEMMA EndingCounts ==
  ASSUME CInv, VInv', NEW v \in Viewers, Hangup(v) \/ GivesUp(v) \/ Exhausted(v)
  PROVE  CInv'
<1>1. \E forced \in BOOLEAN : Leave(v, forced)
  BY Zenon DEF Hangup, GivesUp, Exhausted, Empty
<1> DEFINE s == Current(v)
           k == s[1]
           left == [bc EXCEPT ![s] = Discounted(@, Client(v))]
<1>2. /\ sc' = [sc EXCEPT ![Client(v)] = NoClient] /\ lost' = (lost \/ Forgotten(v)) /\ Ends(v)
  BY <1>1 DEF Leave
<1>3. PICK stops : /\ bc' = [t \in Sessions |-> IF t \in stops THEN Stopped ELSE left[t]]
                   /\ bmap' = [bmap EXCEPT ![k] = IF stops # {} THEN NoSession ELSE @]
  BY <1>1 DEF Leave
<1>4. /\ bc \in [Sessions -> SessionRecord] /\ sc \in [Clients -> ClientRecord]
      /\ bmap \in [Keys -> Sessions \cup {NoSession}] /\ \A t \in Listed : t \in Sessions
  BY ListedType DEF CInv, VInv, TypeOK
<1>5. \A t \in Sessions : left[t] = IF t = Current(v) THEN Discounted(bc[t], Client(v)) ELSE bc[t]
  BY <1>4
<1> HIDE DEF left, s, k
<1>6. Listed' \subseteq Listed
  BY <1>3, <1>4 DEF Listed
<1>7. \A t \in Listed' :
        bc'[t] \in {Stopped, IF t = Current(v) THEN Discounted(bc[t], Client(v)) ELSE bc[t]}
  BY <1>3, <1>4, <1>5, <1>6
<1>8. \A d \in Clients : d # Client(v) => sc'[d] = sc[d]
  BY <1>2, <1>4
<1> QED BY <1>2, <1>6, <1>7, <1>8, DepartureCounts DEF Ends, NoViewer

\* A handler whose client is on no list joins a broadcast, a new one or one of
\* the map, and is counted there.
LEMMA JoinedCounts ==
  ASSUME CInv, VInv', NEW v \in Viewers, viewer[v].pc \in {"join", "rejoin"},
         NEW k \in Keys, CanGet(k), NEW c \in Clients, c[1] = v, bmap' = MapWith(k),
         bc' = [With(k) EXCEPT ![Got(k)] = Counted(@, c)],
         \A d \in Clients : d[1] # v => sc'[d] = ClientsWith(k)[d],
         sc'[c].current_broadcast = Got(k),
         NEW r, viewer' = [viewer EXCEPT ![v] = r], r.pc \in {"await", "play"}, <<v, r.n>> = c,
         r.pc = "await" => ~r.playing, lost' = lost
  PROVE  CInv'
<1>1. \A u \in Viewers : viewer'[u] = IF u = v THEN r ELSE viewer[u]
  BY DEF CInv, VInv, TypeOK
<1>2. \A u \in Viewers : Waits(u)'
  BY <1>1 DEF CInv, Waits
<1>3. /\ bmap \in [Keys -> Sessions \cup {NoSession}] /\ bc \in [Sessions -> SessionRecord]
      /\ sc \in [Clients -> ClientRecord] /\ With(k) \in [Sessions -> SessionRecord]
      /\ Got(k) \in Sessions /\ VInv
  BY GotType, GetsType DEF CInv, VInv, TypeOK
<1>4. ASSUME ~lost, NEW s \in Listed' PROVE Accounted(s)'
  <2>1. s \in Listed \cup {Got(k)}
    BY <1>3, <1>4 DEF Listed, MapWith
  <2>2. ASSUME NEW d, s \in Listed, d \in bc[s].clients_,
               bmap[k] = NoSession => s # Got(k)
        PROVE  d # c /\ Serving(d, s)'
    <3>1. d \in Clients /\ d[1] \in Viewers /\ Serving(d, s)
      BY <1>3, <1>4, <2>2, ListedType DEF CInv, Accounted
    <3>2. d[1] # v
      BY <3>1 DEF Serving
    <3>3. sc'[d].current_broadcast = s
      BY <1>3, <2>2, <3>1, <3>2 DEF ClientsWith, ClientRecord, Serving
    <3> QED BY <1>1, <3>1, <3>2, <3>3 DEF Serving, Client
  <2>3. CASE s # Got(k)
    <3>1. s \in Listed /\ s \in Sessions
      BY <1>3, <2>1, <2>3, ListedType
    <3>2. bc'[s] = bc[s]
      BY <1>3, <2>3, <3>1 DEF With
    <3>3. Fair(bc[s])
      BY <1>4, <3>1 DEF CInv, Accounted
    <3> QED BY <2>2, <2>3, <3>1, <3>2, <3>3 DEF Accounted, Fair
  <2>4. CASE s = Got(k)
    <3> DEFINE b == With(k)[s]
    <3>1. bc'[s] = Counted(b, c) /\ b \in SessionRecord
      BY <1>3, <2>4
    <3>2. Serving(c, s)'
      BY <1>1, <2>4 DEF Serving, Client
    <3>3. Fair(b) /\ c \notin b.clients_ /\ \A d \in b.clients_ : Serving(d, s)'
      <4>1. CASE bmap[k] = NoSession
        <5>1. b = Fresh
          BY <1>3, <2>4, <4>1 DEF With
        <5> QED BY <5>1, NobodyIsFair
      <4>2. CASE bmap[k] # NoSession
        <5>1. b = bc[s] /\ s \in Listed
          BY <2>4, <4>2 DEF With, Got, Listed
        <5>2. Fair(bc[s])
          BY <1>4, <5>1 DEF CInv, Accounted
        <5>3. \A d \in bc[s].clients_ : d # c /\ Serving(d, s)'
          BY <2>2, <4>2, <5>1
        <5> HIDE DEF b
        <5> QED BY <5>1, <5>2, <5>3
      <4> QED BY <4>1, <4>2
    <3> HIDE DEF b
    <3>4. Fair(Counted(b, c)) /\ Counted(b, c).clients_ = b.clients_ \cup {c}
      BY <3>1, <3>3, CountedFair
    <3>5. Fair(bc'[s]) /\ \A d \in bc'[s].clients_ : Serving(d, s)'
      BY <3>1, <3>2, <3>3, <3>4
    <3> QED BY <3>5 DEF Accounted, Fair
  <2> QED BY <2>3, <2>4
<1> QED BY <1>2, <1>4 DEF CInv

LEMMA JoinCounts ==
  ASSUME CInv, VInv', NEW v \in Viewers, Join(v)
  PROVE  CInv'
<1> DEFINE k == viewer[v].key
           r == [viewer[v] EXCEPT !.pc = "await", !.broadcast = Got(k)]
<1>1. /\ viewer[v].pc = "join" /\ CanGet(k) /\ bmap' = MapWith(k)
      /\ bc' = [With(k) EXCEPT ![Got(k)] = Counted(@, Client(v))]
      /\ sc' = [ClientsWith(k) EXCEPT ![Client(v)] = [current_broadcast |-> Got(k), closed |-> FALSE]]
      /\ viewer' = [viewer EXCEPT ![v] = r] /\ lost' = lost
  BY DEF Join, At
<1>2. k \in Keys /\ Client(v) \in Clients /\ Client(v)[1] = v /\ VInv /\ ~viewer[v].playing
  BY <1>1, ViewerType DEF CInv, VInv, Viewing, Waits
<1>3. r.pc = "await" /\ <<v, r.n>> = Client(v) /\ ~r.playing
  BY <1>2, ViewerType DEF ViewerRecord, Client
<1> HIDE DEF r, k
<1>4. ClientsWith(k) \in [Clients -> ClientRecord]
  BY <1>1, <1>2, GetsType
<1>5. sc'[Client(v)].current_broadcast = Got(k) /\ \A d \in Clients : d[1] # v => sc'[d] = ClientsWith(k)[d]
  BY <1>1, <1>2, <1>4
<1> QED BY <1>1, <1>2, <1>3, <1>5, JoinedCounts

LEMMA RejoinCounts ==
  ASSUME CInv, VInv', NEW v \in Viewers, Rejoin(v)
  PROVE  CInv'
<1> DEFINE k == viewer[v].key
           n == IF viewer[v].playing THEN viewer[v].n ELSE viewer[v].n + 1
           r == [viewer[v] EXCEPT !.n = n, !.broadcast = Got(k),
                                  !.pc = IF viewer[v].playing THEN "play" ELSE "await"]
<1>1. /\ viewer[v].pc = "rejoin" /\ CanGet(k) /\ bmap' = MapWith(k)
      /\ bc' = [With(k) EXCEPT ![Got(k)] = Counted(@, <<v, n>>)]
      /\ sc' = [ClientsWith(k) EXCEPT ![Client(v)] = NoClient,
                                      ![<<v, n>>] = [current_broadcast |-> Got(k), closed |-> FALSE]]
      /\ viewer' = [viewer EXCEPT ![v] = r] /\ lost' = lost
  BY DEF Rejoin, At
<1>2. /\ k \in Keys /\ Client(v) \in Clients /\ Client(v)[1] = v /\ VInv
      /\ viewer[v] \in ViewerRecord
  BY <1>1, ViewerType DEF CInv, VInv, Viewing
<1>3. r.n = n /\ r.pc \in {"await", "play"} /\ (r.pc = "await" => ~r.playing)
  BY <1>2 DEF ViewerRecord
<1>4. r \in ViewerRecord
  <2>1. viewer' \in [Viewers -> ViewerRecord]
    BY DEF VInv, TypeOK
  <2>2. viewer'[v] = r
    BY <1>1 DEF CInv, VInv, TypeOK
  <2> QED BY <2>1, <2>2
<1>5. n \in 1..Cardinality(Cids)
  BY <1>3, <1>4 DEF ViewerRecord
<1> HIDE DEF r, k, n
<1>6. <<v, n>> \in Clients /\ <<v, n>>[1] = v
  BY <1>5, Bounds
<1>7. ClientsWith(k) \in [Clients -> ClientRecord]
  BY <1>1, <1>2, GetsType
<1>8. sc'[<<v, n>>].current_broadcast = Got(k) /\ \A d \in Clients : d[1] # v => sc'[d] = ClientsWith(k)[d]
  BY <1>1, <1>2, <1>6, <1>7
<1> QED BY <1>1, <1>2, <1>3, <1>6, <1>8, JoinedCounts

\* The steps in which no client moves.
LEMMA OthersCount ==
  ASSUME CInv, VInv',
         \/ Status
         \/ \E s \in Sessions : StreamEnds(s) \/ Reap(s)
         \/ \E a \in Admins : \/ Unpin(a) \/ Collect(a) \/ AdminStop(a)
                              \/ \E c \in Cids : Pin(a, c) \/ Toggle(a, c)
  PROVE  CInv'
<1>1. CASE \E s \in Sessions : StreamEnds(s)
  <2>1. PICK s \in Sessions : StreamEnds(s)
    BY <1>1
  <2>2. /\ UNCHANGED <<viewer, bmap, lost>> /\ bc' = [bc EXCEPT ![s].running_ = FALSE]
        /\ sc' = [c \in Clients |-> [sc[c] EXCEPT !.closed = @ \/ c \in bc[s].clients_]]
    BY <2>1 DEF StreamEnds
  <2>3. bc \in [Sessions -> SessionRecord] /\ sc \in [Clients -> ClientRecord] /\ \A t \in Listed : t \in Sessions
    BY ListedType DEF CInv, VInv, TypeOK
  <2>4. \A c \in Clients : sc'[c].current_broadcast = sc[c].current_broadcast
    BY <2>2, <2>3 DEF ClientRecord
  <2>5. \A t \in Listed' : t \in Listed /\ bc'[t] \in {bc[t], [bc[t] EXCEPT !.running_ = FALSE]}
    BY <2>2, <2>3 DEF Listed
  <2> QED BY <2>2, <2>4, <2>5, SameHandlers, QuietCounts
<1>2. ASSUME UNCHANGED <<viewer, lost>>, UNCHANGED <<bmap, bc, sc>> \/ \E S : Stop(S) PROVE CInv'
  <2>1. VInv
    BY DEF CInv
  <2> QED BY <1>2, <2>1, SameHandlers, SameCounts, StopCounts, QuietCounts DEF Emptied
<1>3. CASE Status \/ (\E s \in Sessions : Reap(s)) \/ \E a \in Admins : Collect(a) \/ AdminStop(a)
  BY <1>2, <1>3 DEF Status, Reap, Collect, AdminStop, ForceStop
<1>4. CASE \E a \in Admins, c \in Cids : Toggle(a, c)
  BY <1>2, <1>4 DEF Toggle
<1>5. CASE \E a \in Admins : Unpin(a) \/ \E c \in Cids : Pin(a, c)
  <2>1. Unbound /\ UNCHANGED <<bmap, bc, sc, lost>>
    BY <1>5 DEF Pin, Unpin
  <2>2. \A v \in Viewers : /\ viewer'[v].pc = viewer[v].pc /\ viewer'[v].n = viewer[v].n
                           /\ viewer'[v].playing = viewer[v].playing
    BY <2>1, ViewerType DEF CInv, Unbound, ViewerRecord
  <2>3. \A v \in Viewers : Unmoved(v) /\ Waits(v)'
    BY <2>2 DEF CInv, Unmoved, Waits
  <2> QED BY <2>1, <2>3, SameCounts, QuietCounts
<1> QED BY <1>1, <1>3, <1>4, <1>5

LEMMA TargetCounts ==
  ASSUME CInv, VInv', NEW a \in Admins, Target(a)
  PROVE  CInv'
<1> DEFINE o == admin[a]
           goals == IF o.what = "pin" THEN {o.cid} ELSE Cids \ (disabled \cup {o.cid})
<1>1. o.pc = "target" /\ UNCHANGED <<viewer, lost>>
  BY DEF Target
<1>2. \/ UNCHANGED <<bmap, bc, sc>>
      \/ \E k \in goals : CanGet(k) /\ bmap' = MapWith(k) /\ bc' = With(k) /\ sc' = ClientsWith(k)
  BY DEF Target
<1>3. VInv /\ goals \subseteq Keys
  BY <1>1, OrderType, CidsAreKeys DEF CInv, Fits
<1>4. \A s \in Listed' :
        \/ Emptied(s)
        \/ /\ s \in Listed /\ bc'[s] = bc[s]
           /\ \A c \in Clients : sc[c].current_broadcast = s => sc'[c].current_broadcast = s
  <2>1. CASE UNCHANGED <<bmap, bc, sc>>
    BY <2>1, SameCounts
  <2>2. ASSUME NEW k \in goals, CanGet(k), bmap' = MapWith(k), bc' = With(k), sc' = ClientsWith(k)
        PROVE  \A s \in Listed' :
                 \/ Emptied(s)
                 \/ /\ s \in Listed /\ bc'[s] = bc[s]
                    /\ \A c \in Clients : sc[c].current_broadcast = s => sc'[c].current_broadcast = s
    <3>1. k \in Keys
      BY <1>3
    <3> QED BY <1>3, <2>2, <3>1, GetCounts
  <2> QED BY <1>2, <2>1, <2>2
<1> QED BY <1>1, <1>4, SameHandlers, QuietCounts

LEMMA DetachCounts ==
  ASSUME CInv, VInv', NEW a \in Admins, Detach(a)
  PROVE  CInv'
<1>1. /\ UNCHANGED <<viewer, bmap, sc, lost>>
      /\ \E c : bc' = [s \in Sessions |-> IF s \in admin[a].all_b THEN Discounted(bc[s], c) ELSE bc[s]]
  BY DEF Detach
<1>2. \A s \in Listed' : s \in Listed /\ s \in Sessions
  BY <1>1, ListedType DEF CInv, Listed
<1>3. \A s \in Listed' : bc'[s] = bc[s] \/ \E c : bc'[s] = Discounted(bc[s], c)
  BY <1>1, <1>2
<1> QED BY <1>1, <1>2, <1>3, SameHandlers, QuietCounts

\* The administrator's copy of a client joins the target; while the handler
\* holds it, no broadcast of the map serves it.
LEMMA AttachCounts ==
  ASSUME CInv, VInv', NEW a \in Admins, Attach(a)
  PROVE  CInv'
<1>0. PICK target, c : target = admin[a].target /\ c = admin[a].client
  OBVIOUS
<1>1. /\ UNCHANGED bmap /\ bc' = [bc EXCEPT ![target] = Counted(@, c)]
      /\ sc' = [sc EXCEPT ![c].current_broadcast = target]
      /\ lost' = (lost \/ ~Holding(c)) /\ admin[a].pc = "attach"
  BY <1>0 DEF Attach
<1>2. target \in Sessions /\ c \in Clients /\ c[1] \in Viewers
  BY <1>0, <1>1, OrderType, Bounds DEF CInv, Fits
<1>3. /\ bc \in [Sessions -> SessionRecord] /\ sc \in [Clients -> ClientRecord]
      /\ viewer \in [Viewers -> ViewerRecord]
  BY DEF CInv, VInv, TypeOK
<1>4. \A v \in Viewers : /\ viewer'[v].pc = viewer[v].pc /\ viewer'[v].n = viewer[v].n
                         /\ viewer'[v].playing = viewer[v].playing
  <2>1. viewer' = [viewer EXCEPT ![c[1]].under = IF admin[a].what = "pin" /\ admin[a].cid = @ THEN @ ELSE None]
    BY <1>0 DEF Attach
  <2> QED BY <1>2, <1>3, <2>1 DEF ViewerRecord
<1>5. \A v \in Viewers : Waits(v)'
  BY <1>4 DEF CInv, Waits
<1>6. /\ \A d \in Clients \ {c} : sc'[d].current_broadcast = sc[d].current_broadcast
      /\ sc'[c].current_broadcast = target
  BY <1>1, <1>2, <1>3 DEF ClientRecord
<1>7. ASSUME ~lost, Holding(c), NEW s \in Listed' PROVE Accounted(s)'
  <2>1. s \in Listed
    BY <1>1 DEF Listed
  <2>2. /\ s \in Sessions /\ Referenced(s) /\ bc[s] \in SessionRecord /\ Accounted(s)
        /\ \A d \in bc[s].clients_ : d \in Clients /\ d[1] \in Viewers
    BY <1>7, <2>1, ListedType DEF CInv
  <2>3. c \notin bc[s].clients_
    BY <1>7, <2>2 DEF Holding
  <2>4. \A d \in bc[s].clients_ : Serving(d, s)'
    BY <1>4, <1>6, <2>2, <2>3 DEF Accounted, Serving, Client
  <2>5. CASE s # target
    <3>1. bc'[s] = bc[s]
      BY <1>1, <1>3, <2>2, <2>5
    <3> QED BY <2>2, <2>4, <3>1 DEF Accounted, Fair
  <2>6. CASE s = target
    <3>1. bc'[s] = Counted(bc[s], c)
      BY <1>1, <1>3, <2>2, <2>6
    <3>2. Serving(c, s)'
      BY <1>2, <1>4, <1>6, <1>7, <2>6 DEF Holding, Serving, Client
    <3>3. Fair(bc'[s]) /\ bc'[s].clients_ = bc[s].clients_ \cup {c}
      BY <2>2, <2>3, <3>1, CountedFair DEF Accounted
    <3>4. \A d \in bc'[s].clients_ : Serving(d, s)'
      BY <2>4, <3>2, <3>3
    <3> QED BY <3>3, <3>4 DEF Accounted, Fair
  <2> QED BY <2>5, <2>6
<1> QED BY <1>1, <1>5, <1>7 DEF CInv

LEMMA InitCounts == Init => CInv
<1> SUFFICES ASSUME Init PROVE CInv
  OBVIOUS
<1>1. Listed = {}
  BY DEF Init, Listed
<1>2. \A v \in Viewers : Waits(v)
  BY DEF Init, Waits, NoViewer
<1> QED BY <1>1, <1>2, InitHolds DEF CInv

LEMMA CountsStep == CInv /\ VInv' /\ [Next]_vars => CInv'
<1> SUFFICES ASSUME CInv, VInv', [Next]_vars PROVE CInv'
  OBVIOUS
<1>1. CASE UNCHANGED vars
  BY <1>1, SameHandlers, SameCounts, QuietCounts DEF vars
<1>2. ASSUME NEW v \in Viewers,
             \/ RequestAuto(v) \/ Hangup(v) \/ FirstChunk(v) \/ Head(v) \/ ViewerWork(v)
             \/ \E c \in Wanted : RequestCid(v, c)
      PROVE  CInv'
  BY <1>2, RequestCounts, EndingCounts, FirstChunkCounts, HeadCounts, JoinCounts, RefusedCounts, FailsCounts,
     RejoinCounts, NextCandidateCounts DEF ViewerWork
<1>3. ASSUME NEW a \in Admins, Unpin(a) \/ AdminWork(a) \/ \E c \in Cids : Pin(a, c) \/ Toggle(a, c)
      PROVE  CInv'
  BY <1>3, OthersCount, TargetCounts, DetachCounts, AttachCounts DEF AdminWork
<1>4. CASE Status \/ \E s \in Sessions : StreamEnds(s) \/ Reap(s)
  BY <1>4, OthersCount
<1> QED BY <1>1, <1>2, <1>3, <1>4 DEF Next

-------------------------------------------------------------------------------
(* The theorems.                                                            *)

LEMMA StepHolds == VInv /\ [Next]_vars => VInv'
<1> SUFFICES ASSUME VInv, [Next]_vars PROVE VInv'
  OBVIOUS
<1>1. CASE UNCHANGED vars
  <2>1. UNCHANGED <<active, pinned, disabled, bmap, bc, sc, viewer, admin, orders, lost>>
    BY <1>1 DEF vars, virtual
  <2>2. /\ active \in Keys \cup {None} /\ disabled \subseteq Cids /\ lost \in BOOLEAN /\ orders \in 0..MaxOrders
        /\ admin \in [Admins -> AdminRecord]
    BY DEF VInv, TypeOK
  <2>3. \A b \in Admins : Ordering(b)'
    BY <2>1 DEF VInv, Ordering
  <2> QED BY <2>1, <2>2, <2>3, SameTypes, OutsideStep
<1>2. ASSUME NEW v \in Viewers,
             \/ RequestAuto(v) \/ Hangup(v) \/ FirstChunk(v) \/ Head(v) \/ ViewerWork(v)
             \/ \E c \in Wanted : RequestCid(v, c)
      PROVE  VInv'
  BY <1>2, RequestKeeps, EndingKeeps, FirstChunkKeeps, HeadKeeps, JoinKeeps, RefusedKeeps, FailsKeeps,
     RejoinKeeps, NextCandidateKeeps DEF ViewerWork
<1>3. ASSUME NEW a \in Admins, Unpin(a) \/ AdminWork(a) \/ \E c \in Cids : Pin(a, c) \/ Toggle(a, c)
      PROVE  VInv'
  BY <1>3, UnpinKeeps, PinKeeps, ToggleKeeps, CollectKeeps, TargetKeeps, DetachKeeps, AttachKeeps,
     AdminStopKeeps DEF AdminWork
<1>4. ASSUME NEW s \in Sessions, StreamEnds(s) \/ Reap(s)
      PROVE  VInv'
  BY <1>4, StreamEndsKeeps, ReapKeeps
<1>5. CASE Status
  BY <1>5, StatusKeeps
<1> QED BY <1>1, <1>2, <1>3, <1>4, <1>5 DEF Next

\* The inductive invariant holds in every state of the channel.
THEOREM Invariance == Spec => []VInv
BY InitHolds, StepHolds, PTL DEF Spec

\* Every variable of the channel keeps to its type; with it, a handler never
\* runs out of client objects, as each failover of the first wait takes a
\* candidate it has not tried.
THEOREM Typing == Spec => []TypeOK
<1>1. VInv => TypeOK
  BY DEF VInv
<1> QED BY <1>1, Invariance, PTL

\* A request that found a pin is served by the pinned candidate while the pin
\* stays: neither its own failover nor another's move takes it away.
THEOREM PinIsKept == Spec => []PinnedRequestStays
<1>1. VInv => PinnedRequestStays
  BY DEF VInv, Bound, Serves, PinnedRequestStays
<1> QED BY <1>1, Invariance, PTL

\* As long as no client was lost, a broadcast of the map counts no more
\* subscribers than it serves: whatever the failovers, the migrations and the
\* ends of the requests do to each other's lists, every count is given back.
THEOREM CountsComeBack == Spec => []CountsAreReturned
<1>1. Spec => []CInv
  BY Invariance, InitCounts, CountsStep, PTL DEF Spec
<1>2. CInv => CountsAreReturned
  <2> SUFFICES ASSUME CInv, ~lost, NEW s \in Listed
               PROVE  bc[s].subscribers_ <= Cardinality(Present(s))
    BY DEF CountsAreReturned
  <2>1. Accounted(s) /\ \A c \in bc[s].clients_ : c[1] \in Viewers
    BY ListedType DEF CInv
  <2>2. \A c \in bc[s].clients_ : Alive(c)
    BY <2>1 DEF Accounted, Serving, Alive
  <2>3. Present(s) = bc[s].clients_
    BY <2>2 DEF Present
  <2> QED BY <2>1, <2>3 DEF Accounted, Fair
<1> QED BY <1>1, <1>2, PTL
===============================================================================
