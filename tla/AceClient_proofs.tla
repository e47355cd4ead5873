--------------------------- MODULE AceClient_proofs ---------------------------
(***************************************************************************)
(* Theorems about the control connection, for any number of handlers,       *)
(* contents, hosts and unread lines: every variable keeps to its type, the  *)
(* idle client is connected for the selected engine, and a handler finds no *)
(* answer to another content as long as nobody has given up on one.         *)
(***************************************************************************)
EXTENDS AceClient, TLAPS

\* A handler that has asked knows what for.
Wanted == \A h \in Handlers : pc[h] # "free" => want[h] \in Contents

\* Between the first look at the idle client and the return the mutex is held.
Holds == \A h \in Handlers \cup {"setter"} : pc[h] \notin {"free", "enter"} => idle_mutex_ = h

Typed == TypeOK /\ Wanted /\ Holds

-------------------------------------------------------------------------------
(* Lines.                                                                   *)

LEMMA AwaitedIsCommand ==
  ASSUME NEW t, Waits(t)
  PROVE  Awaited[pc[t]] \in Commands
BY DEF Waits, Awaited, Commands

LEMMA SaysTypes ==
  ASSUME TypeOK, NEW command \in Commands, NEW of \in Contents \cup {NoContent}, NEW ok \in BOOLEAN,
         Says(command, of, ok)
  PROVE  messages_' \in [Commands -> Seq(Line)]
<1>1. [of |-> of, ok |-> ok] \in Line
  BY DEF Line
<1>2. Append(messages_[command], [of |-> of, ok |-> ok]) \in Seq(Line)
  BY <1>1 DEF TypeOK
<1> QED BY <1>2 DEF Says, TypeOK

LEMMA TailTypes ==
  ASSUME TypeOK, NEW command \in Commands, messages_[command] # <<>>,
         messages_' = [messages_ EXCEPT ![command] = Tail(@)]
  PROVE  messages_' \in [Commands -> Seq(Line)]
<1>1. Tail(messages_[command]) \in Seq(Line)
  BY DEF TypeOK
<1> QED BY <1>1 DEF TypeOK

LEMMA WaitTypes ==
  ASSUME TypeOK, NEW t, Takes(t) \/ GivesUp(t)
  PROVE  messages_' \in [Commands -> Seq(Line)]
<1>1. Awaited[pc[t]] \in Commands
  BY AwaitedIsCommand DEF Takes, GivesUp
<1>2. "ERROR" \in Commands
  BY DEF Commands
<1>3. UNCHANGED messages_ => messages_' \in [Commands -> Seq(Line)]
  BY DEF TypeOK
<1>4. CASE Takes(t)
  BY <1>1, <1>4, TailTypes DEF Takes, Inbox
<1>5. CASE GivesUp(t)
  BY <1>2, <1>3, <1>5, TailTypes DEF GivesUp, Errors
<1> QED BY <1>4, <1>5

LEMMA WritesTypes ==
  ASSUME TypeOK, NEW command \in {"HELLOBG", "READY", "LOADASYNC", "START", "LIVESEEK", "STATUS"},
         NEW of \in Contents \cup {NoContent}, Writes(command, of)
  PROVE  asked' \in Seq(Request)
<1>1. [command |-> command, of |-> of] \in Request
  BY DEF Request
<1> QED BY <1>1 DEF Writes, TypeOK

LEMMA NothingTypes ==
  /\ NoMessages \in [Commands -> Seq(Line)]
  /\ <<>> \in Seq(Request)
  /\ <<[command |-> "HELLOBG", of |-> NoContent]>> \in Seq(Request)
<1>1. [command |-> "HELLOBG", of |-> NoContent] \in Request
  BY DEF Request
<1> QED BY <1>1 DEF NoMessages

LEMMA ConnectsTypes ==
  ASSUME Typed, NEW t, Connects(t)
  PROVE  /\ client' \in [there : BOOLEAN, running : BOOLEAN, issued : BOOLEAN, named : Hosts \cup {NoHost}]
         /\ reader' = "reading" /\ playing' = FALSE /\ strayed' = FALSE
         /\ messages_' \in [Commands -> Seq(Line)] /\ asked' \in Seq(Request)
         /\ pc' = [pc EXCEPT ![t] = "hello"]
BY NothingTypes DEF Connects, Goes, Typed, TypeOK

LEMMA JoinedTypes ==
  ASSUME Typed, ReaderIsJoined
  PROVE  /\ client' \in [there : BOOLEAN, running : BOOLEAN, issued : BOOLEAN, named : Hosts \cup {NoHost}]
         /\ reader' = "none" /\ playing' \in BOOLEAN /\ strayed' = FALSE
         /\ messages_' \in [Commands -> Seq(Line)] /\ asked' = <<>>
BY NothingTypes DEF ReaderIsJoined, NoClient, Typed, TypeOK

LEMMA ReplyIsCommand ==
  ASSUME NEW r \in Request, NEW reply \in Replies[r.command]
  PROVE  reply \in Commands
<1>1. r.command \in {"HELLOBG", "READY", "LOADASYNC", "START", "LIVESEEK", "STATUS"}
  BY DEF Request
<1> QED BY <1>1 DEF Replies, Commands

LEMMA WithoutTypes ==
  ASSUME TypeOK, NEW i \in DOMAIN asked
  PROVE  WithoutRequest(i) \in Seq(Request)
<1>1. SubSeq(asked, 1, i - 1) \in Seq(Request) /\ SubSeq(asked, i + 1, Len(asked)) \in Seq(Request)
  BY DEF TypeOK
<1> QED BY <1>1 DEF WithoutRequest

-------------------------------------------------------------------------------
LEMMA InitTypes == Init => Typed
<1> SUFFICES ASSUME Init PROVE Typed
  OBVIOUS
<1>1. owner \in {"idle", "session"} /\ host \in Hosts
  BY ClientAssumption DEF Init
<1>2. client \in [there : BOOLEAN, running : BOOLEAN, issued : BOOLEAN, named : Hosts \cup {NoHost}]
  BY DEF Init, NoClient
<1>3. asked \in Seq(Request) /\ messages_ \in [Commands -> Seq(Line)]
  BY NothingTypes DEF Init
<1>4. pc \in [Threads -> Places]
  BY DEF Init, Places, Awaited
<1>5. \A h \in Handlers \cup {"setter"} : pc[h] = "free"
  BY ClientAssumption DEF Init, Threads
<1>6. /\ reader = "none" /\ playing = FALSE /\ idle_mutex_ = Nobody
      /\ want \in [Handlers -> Contents \cup {NoContent}] /\ running_ = FALSE /\ strayed = FALSE
  BY DEF Init
<1>7. TypeOK
  BY <1>1, <1>2, <1>3, <1>4, <1>6 DEF TypeOK
<1> QED BY <1>5, <1>7 DEF Typed, Wanted, Holds

LEMMA EngineTypes ==
  ASSUME Typed, Engine
  PROVE  Typed'
<1>1. UNCHANGED <<client, reader, playing, strayed, Elsewhere>>
  BY DEF Engine, EngineAnswers, EngineComplains, EngineTells
<1>2. messages_' \in [Commands -> Seq(Line)] /\ asked' \in Seq(Request)
  <2>1. CASE EngineAnswers
    <3>1. PICK i \in DOMAIN asked, ok \in BOOLEAN : \E reply \in Replies[asked[i].command] :
             Says(reply, asked[i].of, ok) /\ asked' = WithoutRequest(i)
      BY <2>1 DEF EngineAnswers
    <3>2. PICK reply \in Replies[asked[i].command] : Says(reply, asked[i].of, ok)
      BY <3>1
    <3>3. asked[i] \in Request
      BY DEF Typed, TypeOK
    <3>4. asked[i].of \in Contents \cup {NoContent}
      BY <3>3 DEF Request
    <3>5. reply \in Commands
      BY <3>2, <3>3, ReplyIsCommand
    <3> QED BY <3>1, <3>2, <3>4, <3>5, SaysTypes, WithoutTypes DEF Typed
  <2>2. CASE EngineComplains
    BY <2>2, SaysTypes DEF EngineComplains, Commands, Typed, TypeOK
  <2>3. CASE EngineTells
    <3>1. PICK command \in {"EVENT", "STATUS"} : Says(command, NoContent, TRUE)
      BY <2>3 DEF EngineTells
    <3> QED BY <2>3, <3>1, SaysTypes DEF EngineTells, Commands, Typed, TypeOK
  <2> QED BY <2>1, <2>2, <2>3 DEF Engine
<1>3. TypeOK'
  BY <1>1, <1>2 DEF Typed, TypeOK, Elsewhere
<1> QED BY <1>1, <1>3 DEF Typed, Wanted, Holds, Elsewhere

LEMMA ReaderTypes ==
  ASSUME Typed, Reader
  PROVE  Typed'
BY DEF Reader, ReaderThrows, ReaderEnds, Typed, TypeOK, Wanted, Holds, Elsewhere

-------------------------------------------------------------------------------
(* The idle client.                                                         *)

LEMMA ReturnsHolds ==
  ASSUME Typed, NEW h \in Handlers, pc[h] \notin {"free", "enter"}, Returns(h)
  PROVE  /\ want' \in [Handlers -> Contents \cup {NoContent}] /\ pc' \in [Threads -> Places]
         /\ idle_mutex_' \in Threads \cup {Nobody} /\ Wanted' /\ Holds'
<1>1. want' \in [Handlers -> Contents \cup {NoContent}]
  BY DEF Returns, Typed, TypeOK
<1>2. pc' \in [Threads -> Places]
  BY DEF Returns, Goes, Typed, TypeOK, Places
<1>3. h \in Threads
  BY DEF Threads
<1>4. Wanted'
  BY <1>3 DEF Returns, Goes, Typed, TypeOK, Wanted, Threads
<1>5. Holds'
  BY <1>3 DEF Returns, Goes, Typed, TypeOK, Holds, Threads
<1> QED BY <1>1, <1>2, <1>4, <1>5 DEF Returns

\* A step of handler h to another place of get_content_info.
LEMMA InsideHolds ==
  ASSUME Typed, NEW h \in Handlers, pc[h] \notin {"free", "enter"}, NEW place \in Places,
         Goes(h, place), UNCHANGED <<want, idle_mutex_>>
  PROVE  pc' \in [Threads -> Places] /\ Wanted' /\ Holds'
BY DEF Goes, Typed, TypeOK, Wanted, Holds, Threads

LEMMA HandlerTypes ==
  ASSUME Typed, NEW h \in Handlers, Handler(h)
  PROVE  Typed'
<1> USE DEF Typed
<1>1. h \in Threads
  BY DEF Threads
<1>2. {"ask", "connect", "hello", "auth", "drop", "load", "join", "enter", "free"} \subseteq Places
  BY DEF Places, Awaited
<1>3. CASE \E c \in Contents : GetContentInfo(h, c)
  <2>1. PICK c \in Contents : GetContentInfo(h, c)
    BY <1>3
  <2>2. pc' \in [Threads -> Places] /\ Wanted' /\ Holds'
    BY <1>1, <1>2, <2>1 DEF GetContentInfo, Goes, TypeOK, Wanted, Holds, Threads
  <2>3. want' \in [Handlers -> Contents \cup {NoContent}]
    BY <2>1 DEF GetContentInfo, TypeOK
  <2> QED BY <2>1, <2>2, <2>3 DEF GetContentInfo, TypeOK, connection
<1>4. CASE Enter(h)
  <2>1. pc' \in [Threads -> Places]
    BY <1>1, <1>2, <1>4 DEF Enter, Goes, TypeOK
  <2>2. PICK place \in {"ask", "connect"} : pc' = [pc EXCEPT ![h] = place]
    BY <1>4 DEF Enter, Goes
  <2>3. /\ pc[h] = "enter" /\ idle_mutex_ = Nobody /\ idle_mutex_' = h /\ want' = want
        /\ \A t \in Handlers \cup {"setter"} : t # h => pc'[t] = pc[t]
    BY <1>1, <1>4, <2>2 DEF Enter, TypeOK, Threads
  <2>4. Wanted'
    BY <2>2, <2>3 DEF Wanted
  <2>5. Holds'
    BY <2>3, ClientAssumption DEF Holds
  <2> QED BY <1>1, <1>4, <2>1, <2>4, <2>5 DEF Enter, TypeOK, connection
<1>5. CASE Connect(h)
  <2>1. pc' \in [Threads -> Places] /\ Wanted' /\ Holds'
    BY <1>2, <1>5, InsideHolds DEF Connect, Connects
  <2> QED BY <1>5, <2>1, ConnectsTypes DEF Connect, TypeOK
<1>6. CASE Authenticate(h)
  <2>1. pc' \in [Threads -> Places] /\ Wanted' /\ Holds'
    BY <1>2, <1>6, InsideHolds DEF Authenticate, SendsReady
  <2>2. messages_' \in [Commands -> Seq(Line)]
    BY <1>6, WaitTypes DEF Authenticate, SendsReady
  <2>3. asked' \in Seq(Request)
    BY <1>6, WritesTypes DEF Authenticate, SendsReady, TypeOK
  <2> QED BY <1>6, <2>1, <2>2, <2>3 DEF Authenticate, SendsReady, TypeOK
<1>7. CASE CannotConnect(h)
  <2>1. pc' \in [Threads -> Places] /\ Wanted' /\ Holds'
    BY <1>2, <1>7, InsideHolds DEF CannotConnect
  <2>2. messages_' \in [Commands -> Seq(Line)]
    BY <1>7, WaitTypes DEF CannotConnect, TypeOK
  <2> QED BY <1>7, <2>1, <2>2 DEF CannotConnect, TypeOK
<1>8. CASE Ask(h)
  <2>1. pc' \in [Threads -> Places] /\ Wanted' /\ Holds'
    BY <1>2, <1>8, InsideHolds DEF Ask
  <2>2. asked' \in Seq(Request)
    BY <1>8, WritesTypes DEF Ask, TypeOK
  <2> QED BY <1>8, <2>1, <2>2 DEF Ask, TypeOK
<1>9. CASE StandIn(h)
  <2>1. pc[h] \notin {"free", "enter"} /\ want[h] \in Contents
    BY <1>9 DEF StandIn, Wanted
  <2>2. messages_' \in [Commands -> Seq(Line)]
    BY <1>9, WaitTypes DEF StandIn, TypeOK
  <2>3. strayed' \in BOOLEAN
    BY <1>9, <2>1 DEF StandIn, TypeOK
  <2> QED BY <1>9, <2>1, <2>2, <2>3, ReturnsHolds DEF StandIn, TypeOK
<1>10. CASE Answered(h)
  <2>1. pc[h] \notin {"free", "enter"} /\ want[h] \in Contents
    BY <1>10 DEF Answered, Wanted
  <2>2. messages_' \in [Commands -> Seq(Line)]
    BY <1>10, WaitTypes DEF Answered
  <2>3. strayed' \in BOOLEAN
    BY <1>10, <2>1 DEF Answered, TypeOK
  <2>4. /\ want' \in [Handlers -> Contents \cup {NoContent}] /\ pc' \in [Threads -> Places]
        /\ idle_mutex_' \in Threads \cup {Nobody} /\ Wanted' /\ Holds'
    <3>1. CASE Returns(h)
      BY <2>1, <3>1, ReturnsHolds
    <3>2. CASE Goes(h, "drop") /\ UNCHANGED <<want, idle_mutex_>>
      BY <1>2, <2>1, <3>2, InsideHolds DEF TypeOK
    <3> QED BY <1>10, <3>1, <3>2 DEF Answered
  <2> QED BY <1>10, <2>2, <2>3, <2>4 DEF Answered, TypeOK
<1>11. CASE Drop(h)
  <2>1. pc' \in [Threads -> Places] /\ Wanted' /\ Holds'
    BY <1>2, <1>11, InsideHolds DEF Drop, Destroys
  <2> QED BY <1>11, <2>1 DEF Drop, Destroys, TypeOK
<1>12. CASE Dropped(h)
  <2>1. pc[h] \notin {"free", "enter"} /\ Returns(h)
    BY <1>12 DEF Dropped
  <2>2. CASE UNCHANGED connection
    BY <1>12, <2>1, <2>2, ReturnsHolds DEF Dropped, TypeOK, connection
  <2>3. CASE ReaderIsJoined
    <3>1. asked' \in Seq(Request)
      BY <2>3, JoinedTypes, NothingTypes
    <3> QED BY <1>12, <2>1, <2>3, <3>1, ReturnsHolds, JoinedTypes DEF Dropped, TypeOK
  <2> QED BY <1>12, <2>2, <2>3 DEF Dropped
<1> QED BY <1>3, <1>4, <1>5, <1>6, <1>7, <1>8, <1>9, <1>10, <1>11, <1>12 DEF Handler, HandlerGoesOn

LEMMA SetterTypes ==
  ASSUME Typed, Setter \/ Administrator
  PROVE  Typed'
<1> USE DEF Typed
<1>1. "setter" \in Threads /\ "setter" \notin Handlers
  BY ClientAssumption DEF Threads
<1>2. {"enter", "drop", "join", "free"} \subseteq Places
  BY DEF Places
<1>3. CASE Administrator
  <2>1. /\ host' \in Hosts /\ pc' = [pc EXCEPT !["setter"] = "enter"] /\ pc["setter"] = "free"
        /\ UNCHANGED <<owner, connection, idle_mutex_, want, running_>>
    BY <1>3 DEF Administrator, RestartEngine, SetEngine, Goes, TypeOK
  <2>2. pc' \in [Threads -> Places] /\ Wanted' /\ Holds'
    BY <1>1, <1>2, <2>1 DEF TypeOK, Wanted, Holds, Threads
  <2> QED BY <2>1, <2>2 DEF TypeOK, connection
<1>4. CASE SetterEnters
  <2>1. pc' \in [Threads -> Places] /\ Wanted' /\ Holds'
    BY <1>1, <1>2, <1>4, ClientAssumption DEF SetterEnters, Goes, TypeOK, Wanted, Holds, Threads
  <2> QED BY <1>1, <1>4, <2>1 DEF SetterEnters, TypeOK, connection
<1>5. CASE Drop("setter")
  <2>1. pc' \in [Threads -> Places] /\ Wanted' /\ Holds'
    BY <1>1, <1>2, <1>5 DEF Drop, Destroys, Goes, TypeOK, Wanted, Holds, Threads
  <2> QED BY <1>5, <2>1 DEF Drop, Destroys, TypeOK
<1>6. CASE Dropped("setter")
  <2>1. /\ pc["setter"] \notin {"free", "enter"} /\ Goes("setter", "free") /\ idle_mutex_' = Nobody
        /\ UNCHANGED <<owner, host, running_, want>>
    BY <1>1, <1>6 DEF Dropped
  <2>2. pc' \in [Threads -> Places] /\ Wanted' /\ Holds'
    BY <1>1, <1>2, <2>1 DEF Goes, TypeOK, Wanted, Holds, Threads
  <2>3. CASE UNCHANGED connection
    BY <2>1, <2>2, <2>3 DEF TypeOK, connection
  <2>4. CASE ReaderIsJoined
    <3>1. asked' \in Seq(Request)
      BY <2>4, JoinedTypes, NothingTypes
    <3> QED BY <2>1, <2>2, <2>4, <3>1, JoinedTypes DEF TypeOK
  <2> QED BY <1>6, <2>3, <2>4 DEF Dropped
<1> QED BY <1>3, <1>4, <1>5, <1>6 DEF Setter

-------------------------------------------------------------------------------
(* The client of a broadcast.                                               *)

\* Threads of a broadcast move, handlers and the setter do not.
LEMMA OffstageTypes ==
  ASSUME Typed, pc' \in [Threads -> Places], \A h \in Handlers \cup {"setter"} : pc'[h] = pc[h],
         client' \in [there : BOOLEAN, running : BOOLEAN, issued : BOOLEAN, named : Hosts \cup {NoHost}],
         reader' \in {"none", "reading", "done", "terminated"},
         asked' \in Seq(Request), playing' \in BOOLEAN, messages_' \in [Commands -> Seq(Line)],
         strayed' \in BOOLEAN, running_' \in BOOLEAN, UNCHANGED Offstage
  PROVE  Typed'
<1>1. TypeOK'
  BY DEF Typed, TypeOK, Offstage
<1> QED BY <1>1 DEF Typed, Wanted, Holds, Offstage

LEMMA StageHolds ==
  ASSUME Typed, NEW t \in {"stream", "keepalive", "stopper"}, NEW place \in Places, Goes(t, place)
  PROVE  pc' \in [Threads -> Places] /\ \A h \in Handlers \cup {"setter"} : pc'[h] = pc[h]
BY ClientAssumption DEF Goes, Typed, TypeOK, Threads

\* Lines and places of the steps of a broadcast.
LEMMA LinesTypes ==
  ASSUME Typed, NEW t, Takes(t) \/ GivesUp(t) \/ UNCHANGED messages_,
         UNCHANGED asked \/ \E c \in {"READY", "START", "LIVESEEK", "STATUS"} : Writes(c, NoContent)
  PROVE  messages_' \in [Commands -> Seq(Line)] /\ asked' \in Seq(Request)
<1>1. messages_' \in [Commands -> Seq(Line)]
  BY WaitTypes DEF Typed, TypeOK
<1>2. asked' \in Seq(Request)
  BY WritesTypes DEF Typed, TypeOK
<1> QED BY <1>1, <1>2

LEMMA StreamTypes ==
  ASSUME Typed, Stream
  PROVE  Typed'
<1> USE DEF Typed
<1>1. {"hello", "auth", "ready", "issue", "say", "start", "event", "seek", "playing", "test", "clear", "stop",
       "shutdown", "joins", "join", "gone", "sleep"} \subseteq Places
  BY DEF Places, Awaited
<1>2. CASE Construct
  <2>1. UNCHANGED <<running_, Offstage>>
    BY <1>2 DEF Construct
  <2>2. CASE Connects("stream")
    <3>1. pc' \in [Threads -> Places] /\ \A h \in Handlers \cup {"setter"} : pc'[h] = pc[h]
      BY <1>1, <2>2, StageHolds DEF Connects
    <3> QED BY <2>1, <2>2, <3>1, ConnectsTypes, OffstageTypes DEF TypeOK
  <2>3. CASE SendsReady("stream")
    <3>1. pc' \in [Threads -> Places] /\ \A h \in Handlers \cup {"setter"} : pc'[h] = pc[h]
      BY <1>1, <2>3, StageHolds DEF SendsReady
    <3>2. messages_' \in [Commands -> Seq(Line)] /\ asked' \in Seq(Request)
      BY <2>3, LinesTypes DEF SendsReady
    <3> QED BY <2>1, <2>3, <3>1, <3>2, OffstageTypes DEF SendsReady, TypeOK
  <2>4. CASE /\ pc["stream"] = "auth" /\ Takes("stream") /\ Goes("stream", "ready")
             /\ UNCHANGED <<client, reader, asked, playing, strayed>>
    <3>1. pc' \in [Threads -> Places] /\ \A h \in Handlers \cup {"setter"} : pc'[h] = pc[h]
      BY <1>1, <2>4, StageHolds
    <3>2. messages_' \in [Commands -> Seq(Line)] /\ asked' \in Seq(Request)
      BY <2>4, LinesTypes
    <3> QED BY <2>1, <2>4, <3>1, <3>2, OffstageTypes DEF TypeOK
  <2> QED BY <1>2, <2>2, <2>3, <2>4 DEF Construct
<1>3. CASE ConstructFails
  <2>1. pc' \in [Threads -> Places] /\ \A h \in Handlers \cup {"setter"} : pc'[h] = pc[h]
    BY <1>1, <1>3, ClientAssumption DEF ConstructFails, TypeOK, Threads
  <2>2. messages_' \in [Commands -> Seq(Line)] /\ asked' \in Seq(Request)
    BY <1>3, LinesTypes DEF ConstructFails, connection
  <2>3. client' \in [there : BOOLEAN, running : BOOLEAN, issued : BOOLEAN, named : Hosts \cup {NoHost}]
    BY <1>3 DEF ConstructFails, connection, TypeOK
  <2>4. UNCHANGED <<reader, playing, strayed, running_, Offstage>>
    BY <1>3 DEF ConstructFails, connection
  <2> QED BY <2>1, <2>2, <2>3, <2>4, OffstageTypes DEF TypeOK
<1>4. CASE StartOnce
  <2>1. pc' \in [Threads -> Places] /\ \A h \in Handlers \cup {"setter"} : pc'[h] = pc[h]
    BY <1>1, <1>4, ClientAssumption DEF StartOnce, TypeOK, Threads
  <2> QED BY <1>4, <2>1, OffstageTypes DEF StartOnce, connection, TypeOK
<1>5. CASE Issue
  <2>1. pc' \in [Threads -> Places] /\ \A h \in Handlers \cup {"setter"} : pc'[h] = pc[h]
    BY <1>1, <1>5, StageHolds DEF Issue
  <2> QED BY <1>5, <2>1, OffstageTypes DEF Issue, TypeOK
<1>6. CASE SayStart
  <2>1. pc' \in [Threads -> Places] /\ \A h \in Handlers \cup {"setter"} : pc'[h] = pc[h]
    BY <1>1, <1>6, StageHolds DEF SayStart
  <2>2. messages_' \in [Commands -> Seq(Line)] /\ asked' \in Seq(Request)
    BY <1>6, LinesTypes DEF SayStart
  <2> QED BY <1>6, <2>1, <2>2, OffstageTypes DEF SayStart, TypeOK
<1>7. CASE Started
  <2>1. pc' \in [Threads -> Places] /\ \A h \in Handlers \cup {"setter"} : pc'[h] = pc[h]
    BY <1>1, <1>7, StageHolds DEF Started
  <2>2. messages_' \in [Commands -> Seq(Line)] /\ asked' \in Seq(Request)
    BY <1>7, LinesTypes DEF Started
  <2> QED BY <1>7, <2>1, <2>2, OffstageTypes DEF Started, TypeOK
<1>8. CASE StreamEnds
  <2>1. pc' \in [Threads -> Places] /\ \A h \in Handlers \cup {"setter"} : pc'[h] = pc[h]
    BY <1>1, <1>8, StageHolds DEF StreamEnds
  <2>2. messages_' \in [Commands -> Seq(Line)] /\ asked' \in Seq(Request)
    BY <1>8, LinesTypes DEF StreamEnds
  <2> QED BY <1>8, <2>1, <2>2, OffstageTypes DEF StreamEnds, TypeOK
<1>9. CASE SaysStop("stream")
  <2>1. pc' \in [Threads -> Places] /\ \A h \in Handlers \cup {"setter"} : pc'[h] = pc[h]
    <3>1. PICK place \in {"clear", "shutdown", "stop", "gone"} : Goes("stream", place)
      BY <1>9 DEF SaysStop
    <3> QED BY <1>1, <3>1, StageHolds
  <2> QED BY <1>9, <2>1, OffstageTypes DEF SaysStop, TypeOK
<1> QED BY <1>2, <1>3, <1>4, <1>5, <1>6, <1>7, <1>8, <1>9 DEF Stream

LEMMA KeepAliveTypes ==
  ASSUME Typed, KeepAlive
  PROVE  Typed'
<1> USE DEF Typed
<1>1. {"status", "sleep", "gone"} \subseteq Places
  BY DEF Places, Awaited
<1>2. pc' \in [Threads -> Places] /\ \A h \in Handlers \cup {"setter"} : pc'[h] = pc[h]
  BY <1>1, StageHolds DEF KeepAlive
<1>3. messages_' \in [Commands -> Seq(Line)] /\ asked' \in Seq(Request)
  BY LinesTypes DEF KeepAlive
<1> QED BY <1>2, <1>3, OffstageTypes DEF KeepAlive, TypeOK

LEMMA StopperTypes ==
  ASSUME Typed, Stopper \/ StopBroadcast
  PROVE  Typed'
<1> USE DEF Typed
<1>1. {"test", "clear", "stop", "shutdown", "joins", "join", "gone"} \subseteq Places
  BY DEF Places
<1>2. pc' \in [Threads -> Places] /\ \A h \in Handlers \cup {"setter"} : pc'[h] = pc[h]
  <2>1. PICK place \in Places : Goes("stopper", place)
    BY <1>1 DEF Stopper, StopBroadcast, SaysStop, JoinThreads, Destroys, Released
  <2> QED BY <2>1, StageHolds
<1>3. CASE StopBroadcast
  BY <1>2, <1>3, OffstageTypes DEF StopBroadcast, connection, TypeOK
<1>4. CASE SaysStop("stopper")
  BY <1>2, <1>4, OffstageTypes DEF SaysStop, TypeOK
<1>5. CASE JoinThreads
  BY <1>2, <1>5, OffstageTypes DEF JoinThreads, Destroys, TypeOK
<1>6. CASE Released
  <2>1. asked' \in Seq(Request)
    BY <1>6, JoinedTypes, NothingTypes DEF Released
  <2> QED BY <1>2, <1>6, <2>1, JoinedTypes, OffstageTypes DEF Released, TypeOK
<1> QED BY <1>3, <1>4, <1>5, <1>6 DEF Stopper

LEMMA StepTypes == Typed /\ [Next]_vars => Typed'
<1> SUFFICES ASSUME Typed, [Next]_vars PROVE Typed'
  OBVIOUS
<1>1. CASE UNCHANGED vars
  BY <1>1 DEF vars, connection, Typed, TypeOK, Wanted, Holds
<1> QED BY <1>1, EngineTypes, ReaderTypes, SetterTypes, HandlerTypes, StreamTypes, KeepAliveTypes, StopperTypes
        DEF Next

\* Every variable keeps to its type, whatever the engine answers.
THEOREM Typing == Spec => []TypeOK
<1>1. Typed => TypeOK
  BY DEF Typed
<1> QED BY <1>1, InitTypes, StepTypes, PTL DEF Spec

-------------------------------------------------------------------------------
(* The engine that is selected.                                             *)

\* Init and every step of the idle client keep it on the selected engine.
THEOREM SelectedEngine == Spec => []IdleIsOnSelected
<1>1. Init => IdleIsOnSelected
  BY DEF Init, NoClient, IdleIsOnSelected
<1>2. Typed /\ IdleIsOnSelected /\ [Next]_vars => IdleIsOnSelected'
  <2> SUFFICES ASSUME Typed, IdleIsOnSelected, [Next]_vars, owner' = "idle", client'.there, pc'["setter"] = "free"
               PROVE  client'.named = host'
    BY DEF IdleIsOnSelected
  <2>1. CASE client' = client /\ host' = host /\ owner' = owner /\ pc'["setter"] = pc["setter"]
    BY <2>1 DEF IdleIsOnSelected
  <2>2. CASE /\ client'.there = client.there /\ client'.named = client.named
             /\ host' = host /\ owner' = owner /\ pc'["setter"] = pc["setter"]
    BY <2>2 DEF IdleIsOnSelected
  <2>3. "setter" \in Threads /\ "setter" \notin Handlers
    BY ClientAssumption DEF Threads
  <2>4. CASE Engine \/ Reader \/ UNCHANGED vars
    <3>1. /\ client'.there = client.there /\ client'.named = client.named
          /\ host' = host /\ owner' = owner /\ pc'["setter"] = pc["setter"]
      BY <2>4 DEF Engine, EngineAnswers, EngineComplains, EngineTells, Reader, ReaderThrows, ReaderEnds, Elsewhere,
                  vars, connection, Typed, TypeOK
    <3> QED BY <3>1, <2>2
  <2>5. CASE Administrator
    <3>1. pc'["setter"] = "enter"
      BY <2>3, <2>5 DEF Administrator, RestartEngine, SetEngine, Goes, Typed, TypeOK
    <3> QED BY <3>1
  <2>6. CASE Setter
    <3>1. pc'["setter"] = "free" => Dropped("setter")
      BY <2>3, <2>6 DEF Setter, SetterEnters, Drop, Destroys, Goes, Typed, TypeOK
    <3>2. Dropped("setter") => ~client'.there
      BY <2>3 DEF Dropped, ReaderIsJoined, NoClient, connection
    <3> QED BY <3>1, <3>2
  <2>7. ASSUME NEW h \in Handlers, Handler(h)
        PROVE  client'.named = host'
    <3>1. pc'["setter"] = pc["setter"]
      BY <2>3, <2>7 DEF Handler, HandlerGoesOn, GetContentInfo, Enter, Connect, Connects, Authenticate, SendsReady,
           CannotConnect, Ask, StandIn, Answered, Drop, Destroys, Dropped, Returns, Goes, Typed, TypeOK
    <3>2. host' = host /\ owner' = owner
      BY <2>7 DEF Handler, HandlerGoesOn, GetContentInfo, Enter, Connect, Authenticate, CannotConnect, Ask, StandIn,
           Answered, Drop, Dropped
    <3>3. CASE Connect(h)
      BY <3>2, <3>3 DEF Connect, Connects
    <3>4. CASE Drop(h)
      BY <3>1, <3>2, <3>4, <2>2 DEF Drop, Destroys, Typed, TypeOK
    <3>5. CASE Dropped(h) /\ ReaderIsJoined
      BY <3>5 DEF ReaderIsJoined, NoClient
    <3>6. Connect(h) \/ Drop(h) \/ (Dropped(h) /\ ReaderIsJoined) \/ client' = client
      BY <2>7 DEF Handler, HandlerGoesOn, GetContentInfo, Enter, Authenticate, SendsReady, CannotConnect, Ask,
           StandIn, Answered, Dropped, connection
    <3> QED BY <2>1, <3>1, <3>2, <3>3, <3>4, <3>5, <3>6
  <2>8. owner' = "idle" => ~(StopBroadcast \/ (owner = "session" /\ (Stream \/ KeepAlive \/ Stopper)))
    BY DEF StopBroadcast, Stream, Construct, ConstructFails, StartOnce, Issue, SayStart, Started, StreamEnds, SaysStop,
           KeepAlive, Stopper, JoinThreads, Released, Offstage
  <2> QED BY <2>4, <2>5, <2>6, <2>7, <2>8 DEF Next
<1>3. Typed /\ IdleIsOnSelected => IdleIsOnSelected
  OBVIOUS
<1> QED BY <1>1, <1>2, InitTypes, StepTypes, PTL DEF Spec

-------------------------------------------------------------------------------
(* Answers.                                                                 *)

Loading == {want[h] : h \in {h \in Handlers : pc[h] = "load"}}

\* What is on its way to a waiting handler: unread answers, and requests the
\* engine has still to answer.
Told(c)  == \E i \in DOMAIN messages_["LOADRESP"] : messages_["LOADRESP"][i].of = c
Asked(c) == \E i \in DOMAIN asked : asked[i].of = c

\* The contents whose lines need not be those of the handler that waits.
Excused == IF strayed THEN Contents ELSE {}

Owed == \A c \in Contents : Told(c) \/ Asked(c) => c \in Excused \cup Loading

\* As long as nobody has given up on this connection there is one line for a
\* content at most: the request, or its answer.
OneLine ==
  \A c \in Contents \ Excused :
    /\ \A i, j \in DOMAIN asked : asked[i].of = c /\ asked[j].of = c => i = j
    /\ \A i, j \in DOMAIN messages_["LOADRESP"] :
         messages_["LOADRESP"][i].of = c /\ messages_["LOADRESP"][j].of = c => i = j
    /\ ~(Told(c) /\ Asked(c))

\* Requests for a content, and their answers, name one.
OwnLine    == [of : Contents, ok : BOOLEAN]
OwnRequest == {r \in Request : r.command = "LOADASYNC" => r.of \in Contents}
Named      == messages_["LOADRESP"] \in Seq(OwnLine) /\ asked \in Seq(OwnRequest)

AnswersInv == Typed /\ Owed /\ OneLine /\ Named

m == messages_["LOADRESP"]

LEMMA OwedIs == Owed <=> \A c \in Contents : Told(c) \/ Asked(c) => c \in Excused \cup Loading
BY DEF Owed

\* At most one handler is asking.
LEMMA OneLoads ==
  ASSUME Typed, NEW h \in Handlers, pc[h] \notin {"free", "enter"}
  PROVE  Loading = IF pc[h] = "load" THEN {want[h]} ELSE {}
<1>1. \A k \in Handlers : pc[k] = "load" => k = h
  BY DEF Typed, Holds
<1> QED BY <1>1 DEF Loading

LEMMA LoadingIsKept ==
  ASSUME Typed, want' = want, \A h \in Handlers : pc'[h] = pc[h]
  PROVE  Loading' = Loading
BY DEF Loading

LEMMA LinesAreSequences ==
  ASSUME Typed
  PROVE  m \in Seq(Line) /\ asked \in Seq(Request)
<1>1. "LOADRESP" \in Commands
  BY DEF Commands
<1> QED BY <1>1 DEF m, Typed, TypeOK

\* Told and Asked of another pair of sequences.
Unique(s, c) == \A i, j \in DOMAIN s : s[i].of = c /\ s[j].of = c => i = j
In(s, c) == \E i \in DOMAIN s : s[i].of = c

LEMMA ByIn ==
  /\ \A c : (Told(c) <=> In(m, c)) /\ (Asked(c) <=> In(asked, c))
  /\ OneLine <=> \A c \in Contents \ Excused : Unique(asked, c) /\ Unique(m, c) /\ ~(In(m, c) /\ In(asked, c))
BY DEF Told, Asked, In, m, OneLine, Unique

\* The same of the next state.
LEMMA NextByIn ==
  /\ Owed' <=> \A c \in Contents : In(m', c) \/ In(asked', c) => c \in Excused' \cup Loading'
  /\ OneLine' <=> \A c \in Contents \ Excused' : Unique(asked', c) /\ Unique(m', c) /\ ~(In(m', c) /\ In(asked', c))
<1>1. Owed' <=> \A c \in Contents : In(m', c) \/ In(asked', c) => c \in Excused' \cup Loading'
  BY DEF Owed, Told, Asked, In, m
<1>2. OneLine' <=> \A c \in Contents \ Excused' : Unique(asked', c) /\ Unique(m', c) /\ ~(In(m', c) /\ In(asked', c))
  BY DEF Told, Asked, In, m, OneLine, Unique
<1> QED BY <1>1, <1>2

LEMMA TailIn ==
  ASSUME NEW S, NEW s \in Seq(S), s # <<>>, NEW c
  PROVE  /\ In(Tail(s), c) => In(s, c)
         /\ Unique(s, c) => Unique(Tail(s), c)
         /\ Unique(s, c) /\ Head(s).of = c => ~In(Tail(s), c)
<1> DEFINE q == Tail(s)
<1>1. \A i \in DOMAIN q : i + 1 \in DOMAIN s /\ q[i] = s[i + 1] /\ i + 1 # 1 /\ i \in Nat
  OBVIOUS
<1>2. 1 \in DOMAIN s /\ Head(s) = s[1]
  OBVIOUS
<1> HIDE DEF q
<1>3. In(q, c) => In(s, c)
  BY <1>1 DEF In
<1>4. Unique(s, c) => Unique(q, c)
  <2> SUFFICES ASSUME Unique(s, c), NEW i \in DOMAIN q, NEW j \in DOMAIN q, q[i].of = c, q[j].of = c
               PROVE  i = j
    BY DEF Unique
  <2>1. i + 1 = j + 1
    BY <1>1 DEF Unique
  <2> QED BY <1>1, <2>1
<1>5. Unique(s, c) /\ Head(s).of = c => ~In(q, c)
  BY <1>1, <1>2 DEF Unique, In
<1> QED BY <1>3, <1>4, <1>5 DEF q

LEMMA AppendIn ==
  ASSUME NEW S, NEW s \in Seq(S), NEW r \in S, NEW c
  PROVE  /\ In(Append(s, r), c) => In(s, c) \/ r.of = c
         /\ Unique(s, c) /\ (r.of = c => ~In(s, c)) => Unique(Append(s, r), c)
<1> DEFINE q == Append(s, r)
<1>1. \A i \in DOMAIN q : (i \in DOMAIN s /\ q[i] = s[i]) \/ (i = Len(s) + 1 /\ q[i] = r)
  OBVIOUS
<1> HIDE DEF q
<1>2. In(q, c) => In(s, c) \/ r.of = c
  BY <1>1 DEF In
<1>3. Unique(s, c) /\ (r.of = c => ~In(s, c)) => Unique(q, c)
  BY <1>1 DEF In, Unique
<1> QED BY <1>2, <1>3 DEF q

LEMMA WithoutIn ==
  ASSUME Typed, NEW i \in DOMAIN asked, NEW c
  PROVE  /\ In(WithoutRequest(i), c) => In(asked, c)
         /\ Unique(asked, c) => Unique(WithoutRequest(i), c)
         /\ Unique(asked, c) /\ asked[i].of = c => ~In(WithoutRequest(i), c)
<1> DEFINE q == WithoutRequest(i)
<1>1. asked \in Seq(Request) /\ i \in 1..Len(asked)
  BY LinesAreSequences
<1>2. \A k \in DOMAIN q : /\ k \in Nat
                          /\ k < i => k \in DOMAIN asked /\ q[k] = asked[k]
                          /\ k >= i => k + 1 \in DOMAIN asked /\ q[k] = asked[k + 1]
  <2> DEFINE a == SubSeq(asked, 1, i - 1)
             b == SubSeq(asked, i + 1, Len(asked))
  <2>1. a \in Seq(Request) /\ Len(a) = i - 1 /\ \A k \in 1..(i - 1) : a[k] = asked[k]
    BY <1>1
  <2>2. b \in Seq(Request) /\ Len(b) = Len(asked) - i /\ \A k \in 1..(Len(asked) - i) : b[k] = asked[i + k]
    BY <1>1
  <2>3. q = a \o b
    BY DEF WithoutRequest, q
  <2> HIDE DEF a, b, q
  <2>4. Len(q) = Len(asked) - 1 /\ DOMAIN q = 1..(Len(asked) - 1)
    BY <1>1, <2>1, <2>2, <2>3
  <2>5. \A k \in 1..(Len(asked) - 1) : q[k] = IF k < i THEN a[k] ELSE b[k - (i - 1)]
    BY <1>1, <2>1, <2>2, <2>3
  <2>6. \A k \in 1..(Len(asked) - 1) : k >= i => b[k - (i - 1)] = asked[k + 1]
    <3> SUFFICES ASSUME NEW k \in 1..(Len(asked) - 1), k >= i PROVE b[k - (i - 1)] = asked[k + 1]
      OBVIOUS
    <3>1. k - (i - 1) \in 1..(Len(asked) - i) /\ i + (k - (i - 1)) = k + 1
      BY <1>1
    <3> QED BY <2>2, <3>1
  <2> QED BY <1>1, <2>1, <2>4, <2>5, <2>6
<1> HIDE DEF q
<1>3. In(q, c) => In(asked, c)
  BY <1>1, <1>2 DEF In
<1>4. Unique(asked, c) => Unique(q, c)
  BY <1>1, <1>2 DEF Unique
<1>5. Unique(asked, c) /\ asked[i].of = c => ~In(q, c)
  BY <1>1, <1>2 DEF Unique, In
<1> QED BY <1>3, <1>4, <1>5 DEF q

-------------------------------------------------------------------------------
LEMMA ShortSeq == ASSUME NEW S, NEW e \in S PROVE <<>> \in Seq(S) /\ <<e>> \in Seq(S)
OBVIOUS

LEMMA TailSeq == ASSUME NEW S, NEW s \in Seq(S), s # <<>> PROVE Tail(s) \in Seq(S)
OBVIOUS

\* No content is named by any line after a connection begins or ends.
LEMMA ClearedAnswers ==
  ASSUME m' = <<>>, asked' = <<>> \/ asked' = <<[command |-> "HELLOBG", of |-> NoContent]>>
  PROVE  Owed' /\ OneLine' /\ Named'
<1>1. \A c \in Contents : ~In(m', c) /\ ~In(asked', c)
  BY ClientAssumption DEF In
<1>2. \A c \in Contents : Unique(m', c) /\ Unique(asked', c)
  BY ClientAssumption DEF Unique
<1>3. [command |-> "HELLOBG", of |-> NoContent] \in OwnRequest
  BY DEF OwnRequest, Request
<1>4. m' \in Seq(OwnLine)
  OBVIOUS
<1>5. asked' \in Seq(OwnRequest)
  BY <1>3, ShortSeq
<1> QED BY <1>1, <1>2, <1>4, <1>5, NextByIn DEF Named, m

\* Lines are taken, or requests made that name no content.
LEMMA QuietAnswers ==
  ASSUME AnswersInv, m' = m \/ (m # <<>> /\ m' = Tail(m)),
         asked' = asked \/ \E r \in OwnRequest : r.of \notin Contents /\ asked' = Append(asked, r),
         Excused \subseteq Excused', Excused \cup Loading \subseteq Excused' \cup Loading'
  PROVE  Owed' /\ OneLine' /\ Named'
<1>1. m \in Seq(Line) /\ asked \in Seq(Request)
  BY LinesAreSequences DEF AnswersInv
<1>2. \A c \in Contents : /\ In(m', c) => In(m, c)
                          /\ Unique(m, c) => Unique(m', c)
  BY <1>1, TailIn
<1>3. \A c \in Contents : /\ In(asked', c) => In(asked, c)
                          /\ Unique(asked, c) => Unique(asked', c)
  BY <1>1, AppendIn DEF OwnRequest
<1>4. Owed'
  BY <1>2, <1>3, OwedIs, ByIn, NextByIn DEF AnswersInv
<1>5. OneLine'
  BY <1>2, <1>3, ByIn, NextByIn DEF AnswersInv
<1>6. m \in Seq(OwnLine) /\ asked \in Seq(OwnRequest)
  BY DEF Named, m, AnswersInv
<1>7. m' \in Seq(OwnLine)
  BY <1>6, TailSeq
<1>8. asked' \in Seq(OwnRequest)
  BY <1>6
<1> QED BY <1>4, <1>5, <1>7, <1>8 DEF Named, m

LEMMA WaitTakes ==
  ASSUME Typed, NEW t, Takes(t) \/ GivesUp(t) \/ UNCHANGED messages_
  PROVE  m' = m \/ (m # <<>> /\ m' = Tail(m))
<1>1. "LOADRESP" \in Commands /\ messages_ \in [Commands -> Seq(Line)]
  BY DEF Commands, Typed, TypeOK
<1> QED BY <1>1 DEF Takes, GivesUp, Errors, Inbox, m

LEMMA NoContentNamesNone ==
  ASSUME NEW command \in {"READY", "START", "LIVESEEK", "STATUS"}, Writes(command, NoContent)
  PROVE  asked' = asked \/ \E r \in OwnRequest : r.of \notin Contents /\ asked' = Append(asked, r)
<1>1. /\ [command |-> command, of |-> NoContent] \in OwnRequest
      /\ [command |-> command, of |-> NoContent].of \notin Contents
  BY ClientAssumption DEF OwnRequest, Request
<1> QED BY <1>1 DEF Writes

LEMMA EngineAnswersOwed ==
  ASSUME AnswersInv, Engine
  PROVE  Owed' /\ OneLine' /\ Named'
<1>1. UNCHANGED <<strayed, pc, want>>
  BY DEF Engine, EngineAnswers, EngineComplains, EngineTells, Elsewhere
<1>2. Loading' = Loading /\ Excused' = Excused
  BY <1>1 DEF Loading, Excused
<1>3. \A command \in Commands, of \in Contents \cup {NoContent}, ok \in BOOLEAN :
        Says(command, of, ok) =>
          m' = IF command = "LOADRESP" THEN Append(m, [of |-> of, ok |-> ok]) ELSE m
  BY DEF Says, m, AnswersInv, Typed, TypeOK, Commands
<1>4. CASE EngineComplains \/ EngineTells
  <2>1. m' = m /\ asked' = asked
    BY <1>3, <1>4 DEF EngineComplains, EngineTells, Commands
  <2> QED BY <1>1, <1>2, <2>1, QuietAnswers
<1>5. CASE EngineAnswers
  <2>1. PICK i \in DOMAIN asked, ok \in BOOLEAN : \E reply \in Replies[asked[i].command] :
             Says(reply, asked[i].of, ok) /\ asked' = WithoutRequest(i)
    BY <1>5 DEF EngineAnswers
  <2>2. PICK reply \in Replies[asked[i].command] : Says(reply, asked[i].of, ok)
    BY <2>1
  <2>3. asked[i] \in Request
    BY DEF AnswersInv, Typed, TypeOK
  <2>4. asked[i].of \in Contents \cup {NoContent} /\ reply \in Commands
    BY <2>2, <2>3, ReplyIsCommand DEF Request
  <2> DEFINE line == [of |-> asked[i].of, ok |-> ok]
  <2>5. line \in Line /\ line.of = asked[i].of
    BY <2>4 DEF Line
  <2>6. m' = m \/ m' = Append(m, line)
    BY <1>3, <2>1, <2>2, <2>4
  <2> HIDE DEF line
  <2>7. m \in Seq(Line)
    BY LinesAreSequences DEF AnswersInv
  <2>8. \A c : /\ In(m', c) => In(m, c) \/ asked[i].of = c
               /\ Unique(m, c) /\ (asked[i].of = c => ~In(m, c)) => Unique(m', c)
    BY <2>5, <2>6, <2>7, AppendIn
  <2>9. \A c : /\ In(asked', c) => In(asked, c)
               /\ Unique(asked, c) => Unique(asked', c)
               /\ Unique(asked, c) /\ asked[i].of = c => ~In(asked', c)
    BY <2>1, WithoutIn DEF AnswersInv
  <2>10. \A c : asked[i].of = c => In(asked, c)
    BY DEF In
  <2>11. Owed'
    BY <1>1, <1>2, <2>8, <2>9, <2>10, OwedIs, ByIn, NextByIn DEF AnswersInv
  <2>12. OneLine'
    <3> SUFFICES ASSUME NEW c \in Contents \ Excused'
                 PROVE  Unique(asked', c) /\ Unique(m', c) /\ ~(In(m', c) /\ In(asked', c))
      BY NextByIn
    <3>1. Unique(asked, c) /\ Unique(m, c) /\ ~(In(m, c) /\ In(asked, c))
      BY <1>2, ByIn DEF AnswersInv
    <3> QED BY <3>1, <2>8, <2>9, <2>10
  <2>13. m' \in Seq(OwnLine)
    <3>1. asked[i] \in OwnRequest /\ m \in Seq(OwnLine)
      BY DEF AnswersInv, Named, m
    <3>2. CASE reply = "LOADRESP"
      <4>1. asked[i].command = "LOADASYNC"
        BY <2>3, <3>2 DEF Replies, Request
      <4>2. line \in OwnLine
        BY <3>1, <4>1 DEF OwnRequest, OwnLine, line
      <4> QED BY <2>6, <3>1, <4>2
    <3>3. CASE reply # "LOADRESP"
      <4>1. m' = m
        BY <1>3, <2>2, <2>4, <3>3
      <4> QED BY <3>1, <4>1
    <3> QED BY <3>2, <3>3
  <2>14. asked' \in Seq(OwnRequest)
    <3>1. asked \in Seq(OwnRequest) /\ i \in 1..Len(asked)
      BY DEF AnswersInv, Named
    <3>2. SubSeq(asked, 1, i - 1) \in Seq(OwnRequest) /\ SubSeq(asked, i + 1, Len(asked)) \in Seq(OwnRequest)
      BY <3>1
    <3> QED BY <2>1, <3>2 DEF WithoutRequest
  <2> QED BY <2>11, <2>12, <2>13, <2>14 DEF Named, m
<1> QED BY <1>4, <1>5 DEF Engine

LEMMA LoadingIsContents == ASSUME Typed PROVE Loading \subseteq Contents
BY DEF Loading, Typed, Wanted

\* The handler that waits takes what has come: unless somebody has given up
\* it was the only line there was for a content.
LEMMA TakenAnswer ==
  ASSUME AnswersInv, NEW h \in Handlers, pc[h] = "load", Takes(h), asked' = asked, strayed' = strayed
  PROVE  Owed' /\ OneLine' /\ Named'
<1>1. Typed /\ Loading = {want[h]} /\ Excused' = Excused
  BY OneLoads DEF AnswersInv, Excused
<1>2. m # <<>> /\ m' = Tail(m)
  <2>1. Awaited[pc[h]] = "LOADRESP" /\ Inbox(h) = m
    BY DEF Awaited, Inbox, m
  <2> QED BY <1>1, <2>1 DEF Takes, m, Typed, TypeOK, Commands
<1>3. m \in Seq(OwnLine) /\ Head(m) \in OwnLine
  BY <1>2 DEF AnswersInv, Named, m
<1>4. Named'
  BY <1>2, <1>3 DEF Named, m, AnswersInv
<1>5. CASE strayed
  BY <1>4, <1>5, <1>1, NextByIn DEF Excused
<1>6. CASE ~strayed
  <2>1. Excused = {}
    BY <1>6 DEF Excused
  <2>2. In(m, Head(m).of) /\ Head(m).of \in Contents
    BY <1>2, <1>3 DEF In, OwnLine
  <2>3. Head(m).of = want[h] /\ \A c \in Contents : In(m, c) \/ In(asked, c) => c = want[h]
    BY <1>1, <2>1, <2>2, OwedIs, ByIn DEF AnswersInv
  <2>4. Unique(m, want[h]) /\ ~In(asked, want[h])
    BY <2>1, <2>2, <2>3, ByIn DEF AnswersInv
  <2>5. \A c \in Contents : ~In(m', c) /\ ~In(asked', c)
    BY <1>2, <1>3, <2>3, <2>4, TailIn
  <2>6. \A c \in Contents : Unique(m', c) /\ Unique(asked', c)
    BY <2>5 DEF In, Unique
  <2> QED BY <1>4, <2>5, <2>6, NextByIn
<1> QED BY <1>5, <1>6

LEMMA HandlerAnswersOwed ==
  ASSUME AnswersInv, NEW h \in Handlers, Handler(h)
  PROVE  Owed' /\ OneLine' /\ Named'
<1>1. Typed /\ h \in Threads /\ Typed'
  BY HandlerTypes DEF AnswersInv, Threads
<1>2. pc[h] \notin {"free", "enter"} => Loading = IF pc[h] = "load" THEN {want[h]} ELSE {}
  BY <1>1, OneLoads
<1>3. \A k \in Handlers : k # h => pc'[k] = pc[k] /\ want'[k] = want[k]
  <2>1. \E place : Goes(h, place)
    BY DEF Handler, HandlerGoesOn, GetContentInfo, Enter, Connect, Connects, Authenticate, SendsReady,
       CannotConnect, Ask, StandIn, Answered, Drop, Destroys, Dropped, Returns
  <2>2. want' = want \/ \E c : want' = [want EXCEPT ![h] = c]
    BY DEF Handler, HandlerGoesOn, GetContentInfo, Enter, Connect, Authenticate, CannotConnect, Ask, StandIn,
       Answered, Drop, Dropped, Returns
  <2>3. pc \in [Threads -> Places] /\ want \in [Handlers -> Contents \cup {NoContent}] /\ Handlers \subseteq Threads
    BY <1>1 DEF Typed, TypeOK, Threads
  <2> QED BY <2>1, <2>2, <2>3 DEF Goes
<1>4. ASSUME pc[h] # "load" PROVE Loading \subseteq Loading'
  BY <1>3, <1>4 DEF Loading
<1>13. strayed' = strayed => Excused' = Excused
  BY DEF Excused
<1>5. m \in Seq(Line) /\ asked \in Seq(Request)
  BY LinesAreSequences DEF AnswersInv
<1>6. CASE (\E c \in Contents : GetContentInfo(h, c)) \/ Enter(h) \/ Drop(h)
  <2>1. UNCHANGED <<messages_, asked, strayed>> /\ pc[h] # "load"
    BY <1>6 DEF GetContentInfo, Enter, Drop, Destroys, connection
  <2> QED BY <1>4, <1>13, <2>1, QuietAnswers DEF m
<1>7. CASE Connect(h)
  <2>1. m' = <<>>
    BY <1>7 DEF Connect, Connects, m, NoMessages, Commands
  <2> QED BY <1>7, <2>1, ClearedAnswers DEF Connect, Connects
<1>8. CASE Authenticate(h) \/ CannotConnect(h)
  <2>1. strayed' = strayed /\ pc[h] # "load"
    BY <1>8 DEF Authenticate, SendsReady, CannotConnect
  <2>2. m' = m \/ (m # <<>> /\ m' = Tail(m))
    BY <1>1, <1>8, WaitTakes DEF Authenticate, SendsReady, CannotConnect
  <2>3. asked' = asked \/ \E r \in OwnRequest : r.of \notin Contents /\ asked' = Append(asked, r)
    BY <1>8, NoContentNamesNone DEF Authenticate, SendsReady, CannotConnect
  <2> QED BY <1>4, <1>13, <2>1, <2>2, <2>3, QuietAnswers
<1>9. CASE Ask(h)
  <2>1. pc[h] = "ask" /\ UNCHANGED <<messages_, strayed, want>> /\ pc' = [pc EXCEPT ![h] = "load"]
    BY <1>9 DEF Ask, Goes
  <2>2. want[h] \in Contents /\ Loading = {}
    BY <1>1, <1>2, <2>1 DEF Typed, Wanted
  <2>3. want[h] \in Loading'
    BY <1>1, <2>1 DEF Loading, Typed, TypeOK
  <2> DEFINE r == [command |-> "LOADASYNC", of |-> want[h]]
  <2>4. r \in Request /\ r.of = want[h]
    BY <2>2 DEF Request
  <2>5. asked' = asked \/ asked' = Append(asked, r)
    BY <1>9 DEF Ask, Writes
  <2> HIDE DEF r
  <2>6. \A c : /\ In(asked', c) => In(asked, c) \/ want[h] = c
               /\ Unique(asked, c) /\ (want[h] = c => ~In(asked, c)) => Unique(asked', c)
    BY <1>5, <2>4, <2>5, AppendIn
  <2>7. \A c \in Contents : In(m, c) \/ In(asked, c) => c \in Excused
    BY <2>2, OwedIs, ByIn DEF AnswersInv
  <2>8. m' = m
    BY <2>1 DEF m
  <2>9. Owed'
    BY <1>13, <2>1, <2>3, <2>6, <2>7, <2>8, NextByIn
  <2>10. OneLine'
    BY <1>13, <2>1, <2>6, <2>7, <2>8, ByIn, NextByIn DEF AnswersInv
  <2>11. r \in OwnRequest
    BY <2>2, <2>4 DEF OwnRequest
  <2>12. Named'
    BY <2>5, <2>8, <2>11 DEF Named, m, AnswersInv
  <2> QED BY <2>9, <2>10, <2>12
<1>10. CASE StandIn(h)
  <2>1. m' = m \/ (m # <<>> /\ m' = Tail(m))
    BY <1>1, <1>10, WaitTakes DEF StandIn
  <2>2. asked' = asked
    BY <1>10 DEF StandIn
  <2>3. CASE pc[h] = "ask" /\ strayed' = strayed
    BY <1>4, <1>13, <2>1, <2>2, <2>3, QuietAnswers
  <2>4. CASE strayed'
    <3>1. Excused' = Contents /\ Excused \subseteq Contents
      BY <2>4 DEF Excused
    <3>2. pc[h] = "load" \/ strayed' = strayed
      BY <1>10 DEF StandIn
    <3> QED BY <1>1, <1>2, <1>4, <3>1, <2>1, <2>2, LoadingIsContents, QuietAnswers
  <2>5. CASE pc[h] = "load" /\ Takes(h) /\ strayed' = strayed
    BY <2>2, <2>5, TakenAnswer DEF AnswersInv
  <2> QED BY <1>10, <2>3, <2>4, <2>5 DEF StandIn
<1>11. CASE Answered(h)
  BY <1>11, TakenAnswer DEF Answered
<1>12. CASE Dropped(h)
  <2>1. CASE ReaderIsJoined
    BY <2>1, ClearedAnswers DEF ReaderIsJoined, m, NoMessages, Commands
  <2>2. CASE UNCHANGED connection
    <3>1. pc[h] # "load"
      BY <1>12 DEF Dropped
    <3> QED BY <1>4, <1>13, <2>2, <3>1, QuietAnswers DEF connection, m
  <2> QED BY <1>12, <2>1, <2>2 DEF Dropped
<1> QED BY <1>6, <1>7, <1>8, <1>9, <1>10, <1>11, <1>12 DEF Handler, HandlerGoesOn

\* Threads that ask for no content: the setter, and those of a broadcast.
LEMMA OthersAnswersOwed ==
  ASSUME AnswersInv,
         Reader \/ Setter \/ Administrator \/ StopBroadcast \/ Stream \/ KeepAlive \/ Stopper \/ UNCHANGED vars
  PROVE  Owed' /\ OneLine' /\ Named'
<1>1. Typed
  BY DEF AnswersInv
<1>2. {"setter", "stream", "keepalive", "stopper"} \cap Handlers = {} /\ pc \in [Threads -> Places]
  BY <1>1, ClientAssumption DEF Typed, TypeOK
<1>3. want' = want /\ \A h \in Handlers : pc'[h] = pc[h]
  <2>1. want' = want
    BY <1>2 DEF Reader, ReaderThrows, ReaderEnds, Elsewhere, vars, Setter, SetterEnters, Drop, Dropped, Administrator,
       RestartEngine, SetEngine, StopBroadcast, KeepAlive, Stopper, SaysStop, JoinThreads, Released, Stream, Construct,
       ConstructFails, StartOnce, Issue, SayStart, Started, StreamEnds, Offstage, connection
  <2>2. CASE Reader \/ UNCHANGED vars
    BY <2>2 DEF Reader, ReaderThrows, ReaderEnds, Elsewhere, vars
  <2>3. CASE Setter \/ Administrator \/ StopBroadcast \/ KeepAlive \/ Stopper
    <3>1. \E t \in {"setter", "keepalive", "stopper"} : \E place : Goes(t, place)
      BY <1>2, <2>3 DEF Setter, SetterEnters, Drop, Destroys, Dropped, Administrator, RestartEngine, SetEngine,
         StopBroadcast, KeepAlive, Stopper, SaysStop, JoinThreads, Released
    <3> QED BY <1>2, <2>1, <3>1 DEF Goes, Threads
  <2>4. CASE Stream
    <3>1. \/ \E place : Goes("stream", place)
          \/ \E place, next : pc' = [pc EXCEPT !["stream"] = place, !["stopper"] = next]
          \/ \E place, next : pc' = [pc EXCEPT !["stream"] = place, !["keepalive"] = next]
      BY <2>4 DEF Stream, Construct, Connects, SendsReady, ConstructFails, StartOnce, Issue, SayStart, Started,
         StreamEnds, SaysStop
    <3> QED BY <1>2, <2>1, <3>1 DEF Goes, Threads
  <2> QED BY <2>1, <2>2, <2>3, <2>4
<1>4. Loading' = Loading
  BY <1>1, <1>3, LoadingIsKept
<1>5. CASE ReaderIsJoined \/ Connects("stream")
  <2>1. m' = <<>>
    BY <1>5 DEF ReaderIsJoined, Connects, m, NoMessages, Commands
  <2> QED BY <1>5, <2>1, ClearedAnswers DEF ReaderIsJoined, Connects
<1>14. strayed' = strayed => Excused' = Excused
  BY DEF Excused
<1>6. CASE /\ strayed' = strayed
           /\ \E t \in Threads : Takes(t) \/ GivesUp(t) \/ UNCHANGED messages_
           /\ UNCHANGED asked \/ \E c \in {"READY", "START", "LIVESEEK", "STATUS"} : Writes(c, NoContent)
  <2>1. m' = m \/ (m # <<>> /\ m' = Tail(m))
    BY <1>1, <1>6, WaitTakes
  <2>2. asked' = asked \/ \E r \in OwnRequest : r.of \notin Contents /\ asked' = Append(asked, r)
    BY <1>6, NoContentNamesNone
  <2> QED BY <1>4, <1>6, <1>14, <2>1, <2>2, QuietAnswers
<1>7. "stream" \in Threads /\ "keepalive" \in Threads
  BY DEF Threads
<1>8. CASE Reader \/ UNCHANGED vars \/ StopBroadcast \/ Administrator
  BY <1>6, <1>7, <1>8 DEF Reader, ReaderThrows, ReaderEnds, vars, StopBroadcast, Administrator, RestartEngine, SetEngine,
     connection
<1>9. CASE Setter
  BY <1>5, <1>6, <1>7, <1>9 DEF Setter, SetterEnters, Drop, Destroys, Dropped, connection
<1>10. CASE KeepAlive \/ Stopper
  BY <1>5, <1>6, <1>7, <1>10 DEF KeepAlive, Stopper, SaysStop, JoinThreads, Destroys, Released
<1>11. CASE Construct \/ ConstructFails
  BY <1>5, <1>6, <1>7, <1>11 DEF Construct, SendsReady, ConstructFails, connection
<1>12. CASE StartOnce \/ Issue \/ SayStart \/ SaysStop("stream")
  BY <1>6, <1>7, <1>12 DEF StartOnce, Issue, SayStart, SaysStop, connection
<1>13. CASE Started \/ StreamEnds
  BY <1>6, <1>7, <1>13 DEF Started, StreamEnds
<1> QED BY <1>8, <1>9, <1>10, <1>11, <1>12, <1>13 DEF Stream

\* However many handlers ask, and whatever the engine leaves out or an earlier
\* connection has left behind: on a connection on which nobody has given up on
\* an answer (load_async keeps it then), each finds the answer to his own
\* request and no other.
THEOREM OwnAnswers == Spec => []AnswersAreOwn
<1>1. Init => AnswersInv
  <2> SUFFICES ASSUME Init PROVE AnswersInv
    OBVIOUS
  <2>1. m = <<>> /\ asked = <<>>
    BY DEF Init, m, NoMessages, Commands
  <2>2. \A c : ~In(m, c) /\ ~In(asked, c) /\ Unique(m, c) /\ Unique(asked, c)
    BY <2>1 DEF In, Unique
  <2>3. Named
    BY <2>1 DEF Named, m
  <2> QED BY <2>2, <2>3, InitTypes, OwedIs, ByIn DEF AnswersInv
<1>2. AnswersInv /\ [Next]_vars => AnswersInv'
  <2> SUFFICES ASSUME AnswersInv, [Next]_vars PROVE AnswersInv'
    OBVIOUS
  <2>1. Typed'
    BY StepTypes DEF AnswersInv
  <2>2. Owed' /\ OneLine' /\ Named'
    BY EngineAnswersOwed, HandlerAnswersOwed, OthersAnswersOwed DEF Next
  <2> QED BY <2>1, <2>2 DEF AnswersInv
<1>3. AnswersInv => AnswersAreOwn
  <2> SUFFICES ASSUME AnswersInv, NEW h \in Handlers, pc[h] = "load", ~strayed, NEW i \in DOMAIN Inbox(h)
               PROVE  Inbox(h)[i].of = want[h]
    BY DEF AnswersAreOwn
  <2>1. Inbox(h) = m
    BY DEF Inbox, Awaited, m
  <2>2. m[i].of \in Contents
    <3>1. m \in Seq(OwnLine) /\ i \in DOMAIN m
      BY <2>1 DEF AnswersInv, Named, m
    <3>2. m[i] \in OwnLine
      BY <3>1
    <3> QED BY <3>2 DEF OwnLine
  <2>3. m[i].of \in Excused \cup Loading
    BY <2>1, <2>2, OwedIs DEF AnswersInv, Told, m
  <2>4. Excused = {} /\ Loading = {want[h]}
    BY OneLoads DEF Excused, AnswersInv
  <2> QED BY <2>1, <2>3, <2>4
<1> QED BY <1>1, <1>2, <1>3, PTL DEF Spec
===============================================================================
