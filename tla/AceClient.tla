------------------------------- MODULE AceClient -------------------------------
(***************************************************************************)
(* The control connection to the engine (ace_client.cpp) and its users: a  *)
(* socket, a reader thread that sorts the lines of the engine by command,  *)
(* and threads that write a command and wait for the line that answers it. *)
(*                                                                         *)
(* A client belongs to one of two owners. The idle one (Proxy::idle_ace_)  *)
(* lives on from request to request: handlers ask it for the infohash of a *)
(* content, and an administrator who selects or restarts an engine throws  *)
(* it away. The one of a broadcast serves its stream thread and its        *)
(* keepalive thread, until stop() and the destructor end all three.        *)
(***************************************************************************)
EXTENDS Naturals, Sequences, FiniteSets

CONSTANTS
  Handlers,     \* the HTTP threads
  Contents, NoContent,
  Hosts,        \* the engines that may be selected
  NoHost, Nobody,
  MaxLines      \* bound: lines under way and unread, and requests the engine has to answer

ASSUME ClientAssumption ==
  /\ MaxLines \in Nat \ {0}
  /\ NoContent \notin Contents /\ NoHost \notin Hosts /\ Hosts # {}
  /\ {"setter", "stream", "keepalive", "stopper"} \cap Handlers = {}
  /\ Nobody \notin Handlers \cup {"setter"}

VARIABLES
  owner,      \* "idle" or "session"
  host,       \* config_.ace_host of the proxy
  client,     \* the AceClient: whether it is there, running_, start_issued_, and the host
              \* its copy of the configuration names
  reader,     \* reader_
  asked,      \* commands the engine has not answered
  playing,    \* a START was the last word the engine heard about streaming
  messages_,  \* per command, the lines read and not taken
  idle_mutex_,
  pc, want,   \* where a thread is, and the content it asks for
  running_,   \* Broadcast::running_
  strayed     \* history: a content was given up on this connection, its answer may still come

connection == <<client, reader, asked, playing, messages_, strayed>>
vars == <<owner, host, connection, idle_mutex_, pc, want, running_>>

Threads  == Handlers \cup {"setter", "stream", "keepalive", "stopper"}
Commands == {"HELLOTS", "AUTH", "LOADRESP", "START", "EVENT", "STATUS", "ERROR"}
Line     == [of : Contents \cup {NoContent}, ok : BOOLEAN]
Request  == [command : {"HELLOBG", "READY", "LOADASYNC", "START", "LIVESEEK", "STATUS"},
             of : Contents \cup {NoContent}]

\* What a thread waits for at the places where it does.
Awaited == [hello |-> "HELLOTS", auth |-> "AUTH", load |-> "LOADRESP",
            start |-> "START", event |-> "EVENT", seek |-> "START", status |-> "STATUS"]
Waits(t) == pc[t] \in DOMAIN Awaited

Places == DOMAIN Awaited \cup
  {"free", "enter", "connect", "ask", "drop", "join", "probe",
   "ready", "issue", "say", "playing", "sleep", "test", "clear", "stop", "shutdown", "joins", "gone"}

Elsewhere == <<owner, host, idle_mutex_, pc, want, running_>>

NoClient == [there |-> FALSE, running |-> FALSE, issued |-> FALSE, named |-> NoHost]

TypeOK ==
  /\ owner \in {"idle", "session"}
  /\ host \in Hosts
  /\ client \in [there : BOOLEAN, running : BOOLEAN, issued : BOOLEAN,
                 named : Hosts \cup {NoHost}]
  /\ reader \in {"none", "reading", "done", "terminated"}
  /\ asked \in Seq(Request)
  /\ playing \in BOOLEAN
  /\ messages_ \in [Commands -> Seq(Line)]
  /\ idle_mutex_ \in Threads \cup {Nobody}
  /\ pc \in [Threads -> Places]
  /\ want \in [Handlers -> Contents \cup {NoContent}]
  /\ running_ \in BOOLEAN
  /\ strayed \in BOOLEAN

NoMessages == [c \in Commands |-> <<>>]

Init ==
  /\ owner \in {"idle", "session"}
  /\ IF owner = "idle" THEN host \in Hosts ELSE host = CHOOSE e \in Hosts : TRUE
  /\ client = NoClient /\ reader = "none"
  /\ asked = <<>> /\ playing = FALSE /\ messages_ = NoMessages
  /\ idle_mutex_ = Nobody
  /\ pc = [t \in Threads |-> CASE t = "stream" /\ owner = "session" -> "connect" [] OTHER -> "free"]
  /\ want = [h \in Handlers |-> NoContent]
  /\ running_ = FALSE /\ strayed = FALSE

Goes(t, place) == pc' = [pc EXCEPT ![t] = place]

-----------------------------------------------------------------------------
(***************************************************************************)
(* The engine. It answers in any order, complains instead of answering or  *)
(* on top of it, speaks unasked, or does not react at all.                 *)
(***************************************************************************)
Unread == Cardinality(UNION {{c} \X DOMAIN messages_[c] : c \in Commands})

\* Mutant: only the command is kept of a line.
SaysCommandOnly(command, of, ok) ==
  /\ reader = "reading" /\ client.running /\ Unread < MaxLines
  /\ messages_' = [messages_ EXCEPT ![command] = Append(@, [of |-> command, ok |-> ok])]

\* A line, read by the reader thread and put with those of its command.
Says(command, of, ok) ==
  /\ reader = "reading" /\ client.running /\ Unread < MaxLines
  /\ messages_' = [messages_ EXCEPT ![command] = Append(@, [of |-> of, ok |-> ok])]

WithoutRequest(i) == SubSeq(asked, 1, i - 1) \o SubSeq(asked, i + 1, Len(asked))

Replies == [HELLOBG |-> {"HELLOTS"}, READY |-> {"AUTH"}, LOADASYNC |-> {"LOADRESP"},
            START |-> {"START"}, LIVESEEK |-> {"START"}, STATUS |-> {"STATUS"}]

EngineAnswers ==
  /\ \E i \in DOMAIN asked, ok \in BOOLEAN : \E reply \in Replies[asked[i].command] :
       /\ reply # "LOADRESP" => ok
       /\ Says(reply, asked[i].of, ok) /\ asked' = WithoutRequest(i)
  /\ UNCHANGED <<client, reader, playing, strayed, Elsewhere>>

\* "Cannot retrieve torrent", "showdialog" and their like.
EngineComplains ==
  /\ asked # <<>> /\ Says("ERROR", NoContent, TRUE)
  /\ UNCHANGED <<client, reader, asked, playing, strayed, Elsewhere>>

\* EVENT getuserdata is answered by the reader itself.
EngineTells ==
  /\ playing
  /\ \E command \in {"EVENT", "STATUS"} : Says(command, NoContent, TRUE)
  /\ UNCHANGED <<client, reader, asked, playing, strayed, Elsewhere>>

-----------------------------------------------------------------------------
(***************************************************************************)
(* The reader thread ends with the connection. A recv that gives up after  *)
(* SO_RCVTIMEO, 4 s at most, is as good as its end.                        *)
(***************************************************************************)
ReaderEnds ==
  /\ reader = "reading"
  /\ reader' = "done" /\ client' = [client EXCEPT !.running = FALSE]
  /\ UNCHANGED <<asked, playing, messages_, strayed, Elsewhere>>

\* The answer to EVENT getuserdata cannot be written: write_line throws, and
\* nothing catches in the reader thread.
ReaderThrows ==
  /\ reader = "reading" /\ client.running /\ playing
  /\ reader' = "terminated"
  /\ UNCHANGED <<client, asked, playing, messages_, strayed, Elsewhere>>

-----------------------------------------------------------------------------
(***************************************************************************)
(* wait_for: an ERROR goes to whoever looks first; a client whose reader   *)
(* has ended answers nobody, whatever it has read.                         *)
(***************************************************************************)
Inbox(t) == messages_[Awaited[pc[t]]]
Errors   == messages_["ERROR"]

Takes(t) ==
  /\ Waits(t) /\ client.running /\ Errors = <<>> /\ Inbox(t) # <<>>
  /\ messages_' = [messages_ EXCEPT ![Awaited[pc[t]]] = Tail(@)]

\* Mutant: a wait without a deadline.
GivesUpOnErrors(t) ==
  /\ Waits(t) /\ client.running /\ Errors # <<>> /\ messages_' = [messages_ EXCEPT !["ERROR"] = Tail(@)]

GivesUp(t) ==
  /\ Waits(t)
  /\ \/ ~client.running /\ UNCHANGED messages_
     \/ client.running /\ Errors # <<>> /\ messages_' = [messages_ EXCEPT !["ERROR"] = Tail(@)]
     \/ client.running /\ Errors = <<>> /\ Inbox(t) = <<>> /\ UNCHANGED messages_

\* write_line, when it does not throw. The engine need not take it in.
Writes(command, of) ==
  asked' = IF reader = "reading" /\ Len(asked) < MaxLines
           THEN Append(asked, [command |-> command, of |-> of]) ELSE asked

\* Mutant: the object connects again, with what the last connection has read.
ConnectsAgain(t) ==
  /\ client' = [there |-> TRUE, running |-> TRUE, issued |-> FALSE, named |-> host]
  /\ reader' = "reading" /\ playing' = FALSE /\ strayed' = FALSE /\ UNCHANGED messages_
  /\ asked' = <<[command |-> "HELLOBG", of |-> NoContent]>>
  /\ Goes(t, "hello")

\* The constructor and HELLOBG: the selected host, or one tried in its place.
Connects(t) ==
  /\ client' = [there |-> TRUE, running |-> TRUE, issued |-> FALSE, named |-> host]
  /\ reader' = "reading" /\ playing' = FALSE /\ messages_' = NoMessages /\ strayed' = FALSE
  /\ asked' = <<[command |-> "HELLOBG", of |-> NoContent]>>
  /\ Goes(t, "hello")

\* authenticate, once HELLOTS has brought the key.
SendsReady(t) ==
  /\ pc[t] = "hello" /\ Takes(t) /\ Writes("READY", NoContent) /\ Goes(t, "auth")
  /\ UNCHANGED <<client, reader, playing, strayed>>

\* ~AceClient: running_ is cleared, STOP (if a START was issued) and SHUTDOWN
\* are written, the socket is closed; the reader is yet to be joined.
Destroys(t) ==
  /\ client' = [client EXCEPT !.running = FALSE, !.issued = FALSE] /\ playing' = FALSE
  /\ Goes(t, "join")
  /\ UNCHANGED <<reader, asked, messages_, strayed>>

ReaderIsJoined ==
  /\ reader = "done" /\ reader' = "none"
  /\ client' = NoClient /\ asked' = <<>> /\ messages_' = NoMessages /\ strayed' = FALSE
  /\ UNCHANGED playing

-----------------------------------------------------------------------------
(***************************************************************************)
(* get_content_info, under idle_mutex_.                                    *)
(***************************************************************************)
Returns(h) ==
  /\ want' = [want EXCEPT ![h] = NoContent]
  /\ Goes(h, "free") /\ idle_mutex_' = Nobody

GetContentInfo(h, c) ==
  /\ pc[h] = "free" /\ want' = [want EXCEPT ![h] = c] /\ Goes(h, "enter")
  /\ UNCHANGED <<owner, host, connection, idle_mutex_, running_>>

Enter(h) ==
  /\ pc[h] = "enter" /\ idle_mutex_ = Nobody /\ idle_mutex_' = h
  /\ Goes(h, IF client.there /\ client.running THEN "ask" ELSE "connect")
  /\ UNCHANGED <<owner, host, connection, want, running_>>

\* The client whose reader has ended is replaced by a new one.
Connect(h) ==
  /\ pc[h] = "connect" /\ Connects(h)
  /\ UNCHANGED <<owner, host, idle_mutex_, want, running_>>

Authenticate(h) ==
  /\ \/ SendsReady(h)
     \/ /\ pc[h] = "auth" /\ Takes(h) /\ Goes(h, "ask")
        /\ UNCHANGED <<client, reader, asked, playing, strayed>>
  /\ UNCHANGED <<owner, host, idle_mutex_, want, running_>>

\* No host answers, a line cannot be written, or authenticate gives up:
\* idle_ace_ is reset.
CannotConnect(h) ==
  /\ \/ pc[h] = "connect" /\ UNCHANGED messages_
     \/ pc[h] \in {"hello", "auth"} /\ (GivesUp(h) \/ Takes(h))
  /\ Goes(h, "drop")
  /\ UNCHANGED <<owner, host, client, reader, asked, playing, strayed, idle_mutex_, want, running_>>

Ask(h) ==
  /\ pc[h] = "ask" /\ Writes("LOADASYNC", want[h]) /\ Goes(h, "load")
  /\ UNCHANGED <<owner, host, client, reader, playing, messages_, strayed, idle_mutex_, want, running_>>

\* load_async catches whatever goes wrong, a line it cannot parse included, and
\* hands back the content_id as infohash: the connection is kept.
StandIn(h) ==
  /\ \/ pc[h] = "ask" /\ UNCHANGED <<messages_, strayed>>
     \/ pc[h] = "load" /\ Takes(h) /\ UNCHANGED strayed
     \/ pc[h] = "load" /\ GivesUp(h) /\ strayed' = TRUE
  /\ Returns(h)
  /\ UNCHANGED <<owner, host, client, reader, asked, playing, running_>>

Answered(h) ==
  /\ pc[h] = "load" /\ Takes(h)
  /\ IF Head(Inbox(h)).ok
     THEN Returns(h)
     ELSE Goes(h, "drop") /\ UNCHANGED <<want, idle_mutex_>>
  /\ UNCHANGED <<owner, host, client, reader, asked, playing, strayed, running_>>

-----------------------------------------------------------------------------
(***************************************************************************)
(* idle_ace_.reset(): after a failure, in set_engine and in restart_engine.*)
(***************************************************************************)
\* Mutant: the idle client is left alone.
SetEngineOnly(e) ==
  /\ owner = "idle" /\ pc["setter"] = "free" /\ host' = e
  /\ UNCHANGED <<owner, connection, idle_mutex_, pc, want, running_>>

SetEngine(e) ==
  /\ owner = "idle" /\ pc["setter"] = "free" /\ host' = e /\ Goes("setter", "enter")
  /\ UNCHANGED <<owner, connection, idle_mutex_, want, running_>>

RestartEngine ==
  /\ owner = "idle" /\ pc["setter"] = "free" /\ Goes("setter", "enter")
  /\ UNCHANGED <<owner, host, connection, idle_mutex_, want, running_>>

SetterEnters ==
  /\ pc["setter"] = "enter" /\ idle_mutex_ = Nobody /\ idle_mutex_' = "setter" /\ Goes("setter", "drop")
  /\ UNCHANGED <<owner, host, connection, want, running_>>

Drop(t) ==
  /\ pc[t] = "drop" /\ client.there /\ Destroys(t)
  /\ UNCHANGED <<owner, host, idle_mutex_, want, running_>>

Dropped(t) ==
  /\ \/ pc[t] = "drop" /\ ~client.there /\ UNCHANGED connection
     \/ pc[t] = "join" /\ ReaderIsJoined
  /\ IF t \in Handlers
     THEN Returns(t)
     ELSE Goes(t, "free") /\ idle_mutex_' = Nobody /\ UNCHANGED want
  /\ UNCHANGED <<owner, host, running_>>

-----------------------------------------------------------------------------
(***************************************************************************)
(* A broadcast: its constructor connects and authenticates, start_once     *)
(* starts its stream thread and its keepalive thread.                      *)
(***************************************************************************)
Offstage == <<owner, host, idle_mutex_, want>>

Construct ==
  /\ \/ pc["stream"] = "connect" /\ Connects("stream")
     \/ SendsReady("stream")
     \/ /\ pc["stream"] = "auth" /\ Takes("stream") /\ Goes("stream", "ready")
        /\ UNCHANGED <<client, reader, asked, playing, strayed>>
  /\ UNCHANGED <<running_, Offstage>>

ConstructFails ==
  /\ \/ /\ pc["stream"] = "connect"
        /\ pc' = [pc EXCEPT !["stream"] = "gone", !["stopper"] = "gone"]
        /\ UNCHANGED connection
     \/ /\ pc["stream"] \in {"hello", "auth"} /\ GivesUp("stream")
        /\ client' = [client EXCEPT !.running = FALSE]
        /\ pc' = [pc EXCEPT !["stream"] = "gone", !["stopper"] = "join"]
        /\ UNCHANGED <<reader, asked, playing, strayed>>
  /\ UNCHANGED <<running_, Offstage>>

StartOnce ==
  /\ pc["stream"] = "ready" /\ running_' = TRUE
  /\ pc' = [pc EXCEPT !["stream"] = "issue", !["keepalive"] = "sleep"]
  /\ UNCHANGED <<connection, Offstage>>

\* start_broadcast notes that a START is issued before it writes it.
Issue ==
  /\ pc["stream"] = "issue" /\ client' = [client EXCEPT !.issued = TRUE] /\ Goes("stream", "say")
  /\ UNCHANGED <<reader, asked, playing, messages_, strayed, running_, Offstage>>

SayStart ==
  /\ pc["stream"] = "say" /\ Writes("START", NoContent) /\ playing' = TRUE /\ Goes("stream", "start")
  /\ UNCHANGED <<client, reader, messages_, strayed, running_, Offstage>>

\* The URL is there, or the position in a live stream is awaited, and a START
\* for an earlier one, if video_seekback asks for it.
Started ==
  /\ pc["stream"] \in {"start", "event", "seek"} /\ Takes("stream")
  /\ \/ Goes("stream", "playing") /\ UNCHANGED asked
     \/ pc["stream"] = "start" /\ Goes("stream", "event") /\ UNCHANGED asked
     \/ pc["stream"] = "event" /\ Writes("LIVESEEK", NoContent) /\ Goes("stream", "seek")
  /\ UNCHANGED <<client, reader, playing, strayed, running_, Offstage>>

\* stream_loop is left, with or without the STOP that an unused broadcast sends.
StreamEnds ==
  /\ \/ pc["stream"] \in {"say", "playing"} /\ UNCHANGED messages_
     \/ pc["stream"] \in {"start", "event", "seek"} /\ (GivesUp("stream") \/ Takes("stream"))
  /\ running_' = FALSE
  /\ Goes("stream", "gone") \/ Goes("stream", "test")
  /\ UNCHANGED <<client, reader, asked, playing, strayed, Offstage>>

KeepAlive ==
  /\ \/ /\ pc["keepalive"] = "sleep" /\ running_ /\ Writes("STATUS", NoContent)
        /\ Goes("keepalive", "status") /\ UNCHANGED messages_
     \/ /\ pc["keepalive"] = "status" /\ (Takes("keepalive") \/ GivesUp("keepalive"))
        /\ Goes("keepalive", "sleep") /\ UNCHANGED asked
     \/ /\ pc["keepalive"] = "sleep" /\ ~running_ /\ Goes("keepalive", "gone")
        /\ UNCHANGED <<asked, messages_>>
  /\ UNCHANGED <<client, reader, playing, strayed, running_, Offstage>>

\* Mutant: the threads are joined without being told to end.
StopBroadcastForgets ==
  /\ owner = "session" /\ pc["stopper"] = "free" /\ pc["keepalive"] # "free"
  /\ Goes("stopper", "test")
  /\ UNCHANGED <<connection, running_, Offstage>>

\* Broadcast::stop, once a broadcast is started.
StopBroadcast ==
  /\ owner = "session" /\ pc["stopper"] = "free" /\ pc["keepalive"] # "free"
  /\ running_' = FALSE /\ Goes("stopper", "test")
  /\ UNCHANGED <<connection, Offstage>>

\* stop_broadcast and shutdown of AceClient, from stop() or from the end of stream_loop.
SaysStop(t) ==
  /\ \/ /\ pc[t] = "test" /\ Goes(t, IF client.issued THEN "clear" ELSE "shutdown")
        /\ UNCHANGED <<client, playing>>
     \/ /\ pc[t] = "clear" /\ client' = [client EXCEPT !.issued = FALSE] /\ Goes(t, "stop")
        /\ UNCHANGED playing
     \/ /\ pc[t] = "stop" /\ playing' = FALSE /\ Goes(t, "shutdown") /\ UNCHANGED client
     \/ /\ pc[t] = "shutdown" /\ client' = [client EXCEPT !.issued = FALSE] /\ playing' = FALSE
        /\ Goes(t, IF t = "stream" THEN "gone" ELSE "joins")
  /\ UNCHANGED <<reader, asked, messages_, strayed, running_, Offstage>>

\* Both threads are joined, and the client goes with the broadcast.
JoinThreads ==
  /\ pc["stopper"] = "joins" /\ pc["stream"] = "gone" /\ pc["keepalive"] = "gone"
  /\ Destroys("stopper")
  /\ UNCHANGED <<running_, Offstage>>

Released ==
  /\ owner = "session" /\ pc["stopper"] = "join" /\ ReaderIsJoined /\ Goes("stopper", "gone")
  /\ UNCHANGED <<running_, Offstage>>

-----------------------------------------------------------------------------
Engine == EngineAnswers \/ EngineComplains \/ EngineTells

Reader == ReaderThrows \/ ReaderEnds

\* What a handler goes on with by itself, once it has asked.
HandlerGoesOn(h) ==
  Enter(h) \/ Connect(h) \/ Authenticate(h) \/ CannotConnect(h) \/ Ask(h) \/ StandIn(h) \/ Answered(h)
  \/ Drop(h) \/ Dropped(h)

Handler(h) ==
  /\ owner = "idle"
  /\ HandlerGoesOn(h) \/ \E c \in Contents : GetContentInfo(h, c)

Setter ==
  /\ owner = "idle"
  /\ SetterEnters \/ Drop("setter") \/ Dropped("setter")

Administrator == RestartEngine \/ \E e \in Hosts : SetEngine(e)

Stream  == Construct \/ ConstructFails \/ StartOnce \/ Issue \/ SayStart \/ Started \/ StreamEnds \/ SaysStop("stream")
Stopper == SaysStop("stopper") \/ JoinThreads \/ Released

Next ==
  /\ reader # "terminated"
  /\ \/ Engine \/ Reader \/ Setter \/ Administrator \/ StopBroadcast
     \/ \E h \in Handlers : Handler(h)
     \/ owner = "session" /\ (Stream \/ KeepAlive \/ Stopper)

Spec == Init /\ [][Next]_vars

(***************************************************************************)
(* Every wait of the client has a deadline, and a recv ends after its      *)
(* SO_RCVTIMEO once nothing comes any more; a stream may go on for ever,   *)
(* but stream_loop looks at running_. The engine owes nobody an answer.    *)
(***************************************************************************)
Fairness ==
  /\ \A h \in Handlers : WF_vars(owner = "idle" /\ HandlerGoesOn(h))
  /\ WF_vars(Setter)
  /\ WF_vars(ReaderEnds /\ ~client.running)
  /\ WF_vars(owner = "session" /\ Stream /\ (pc["stream"] = "playing" => ~running_))
  /\ WF_vars(owner = "session" /\ KeepAlive) /\ WF_vars(owner = "session" /\ Stopper)

FairSpec == Spec /\ Fairness

-----------------------------------------------------------------------------
(***************************************************************************)
(* Properties.                                                             *)
(***************************************************************************)
\* Answers to LOADASYNC are told apart by their order alone (wait_for looks at
\* the command). A handler never finds the answer to another content, whatever
\* handlers asked before it, the engine fails to answer, and an earlier
\* connection has left behind, as long as nobody has given up on a LOADASYNC of
\* this connection. From then on it may: load_async keeps the connection after
\* an error or a time-out, so the answer comes when the next handler waits, who
\* takes it for his own.
AnswersAreOwn ==
  \A h \in Handlers : pc[h] = "load" /\ ~strayed =>
    \A i \in DOMAIN Inbox(h) : Inbox(h)[i].of = want[h]

\* Unless a change of engine is on its way to the client, the idle client is
\* connected for the engine that is selected: a request that connects while
\* set_engine waits for idle_mutex_ does not keep the old one.
IdleIsOnSelected ==
  owner = "idle" /\ client.there /\ pc["setter"] = "free" => client.named = host

\* However the engine behaves, a request that asks it for an infohash, and a
\* change of engine that throws the client away, come to an end and let the
\* next one have idle_mutex_.
IdleMutexIsReturned == idle_mutex_ # Nobody ~> idle_mutex_ = Nobody

\* A session that is told to stop, or could not be set up, ends with its
\* client destroyed (unless an answer to getuserdata that cannot be written
\* ends the whole program).
SessionIsReleased ==
  pc["stopper"] # "free" ~> ~client.there \/ reader = "terminated"

=============================================================================
