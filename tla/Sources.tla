-------------------------------- MODULE Sources --------------------------------
(***************************************************************************)
(* A source of channels: its settings in the state of the proxy, the       *)
(* plugin registered under its name, the list that plugin keeps, and the   *)
(* threads that refresh it: the updater every plugin has, a detached       *)
(* thread for each change of its settings, and the HTTP threads that ask   *)
(* for the list (plugins.cpp, and the requests of proxy.cpp).              *)
(*                                                                         *)
(* Names do not interact but for the two mutexes, of the registry and of   *)
(* the settings, so one name is modelled, of any kind: a built-in source,  *)
(* or a list added by its user, which may be deleted while all those       *)
(* threads are at work on it. An import of sources keeps the settings      *)
(* locked while it goes into the registry.                                 *)
(***************************************************************************)
EXTENDS Naturals, FiniteSets

CONSTANTS
  Kinds,        \* the kinds of source modelled
  Addresses,    \* what can be downloaded; it stands for the channels it lists, too
  UrlsOf,       \* per kind, the settings of a source: addresses separated by commas
  NoUrl,
  Objects,      \* plugins, in turn registered under the name; also their updaters
  NoObject,
  Workers,      \* bound: at a time, detached threads and HTTP threads that ask for the list
  Admins,       \* HTTP threads that change settings
  Nobody,
  MaxRequests   \* bound: per kind, changes of the settings

ASSUME SourcesAssumption ==
  /\ Kinds \subseteq {"newera", "elcano", "acepl", "af1c1onados", "custom"}
  /\ UrlsOf \in [Kinds -> SUBSET (SUBSET Addresses \ {{}})]
  /\ \A k \in Kinds : NoUrl \notin UrlsOf[k]
  /\ NoObject \notin Objects /\ Objects # {}
  /\ MaxRequests \in [Kinds -> Nat]
  /\ Objects \cap (Workers \cup Admins) = {} /\ Workers \cap Admins = {}
  /\ Nobody \notin Objects \cup Workers \cup Admins

VARIABLES
  kind,
  entry,       \* plugins_state_json_["custom_lists"], as far as it names this source
  flag,        \* plugins_state_json_[name]
  urls,        \* plugins_state_json_["urls"][name]
  registered,  \* PluginRegistry::handlers_[name]
  mutex_,      \* of the registry, when it is held for longer than a look-up
  plugins_state_mutex_,  \* of the settings, when it is held for longer than a step: by an import
  imported,    \* the settings that import is going to leave behind
  plugin,      \* per plugin: whether its object lives, its list, and the address it was
               \* created with
  job,         \* what a thread does
  aborted,     \* the process has ended in a pure virtual call
  requests     \* bound

settings == <<entry, flag, urls>>
import == <<plugins_state_mutex_, imported>>
vars == <<kind, settings, import, registered, mutex_, plugin, job, aborted, requests>>

Threads == Objects \cup Workers \cup Admins
Urls == UrlsOf[kind]
NoEntry == [enabled |-> FALSE, url |-> NoUrl]

Idle == [at |-> "idle", on |-> NoObject, force |-> FALSE, url |-> NoUrl, left |-> {}, got |-> {}]
Nothing == [entry |-> NoEntry, flag |-> TRUE, urls |-> NoUrl]
Unborn == [life |-> "unborn", list |-> {}, url |-> NoUrl]

Entries == [enabled : BOOLEAN, url : Urls \cup {NoUrl}]

\* Types, and that whatever a thread downloads is an address somebody has set.
TypeOK ==
  /\ kind \in Kinds
  /\ entry \in Entries
  /\ flag \in BOOLEAN /\ urls \in Urls \cup {NoUrl}
  /\ registered \in Objects \cup {NoObject}
  /\ mutex_ \in Admins \cup {Nobody} /\ plugins_state_mutex_ \in Admins \cup {Nobody}
  /\ imported \in [entry : Entries, flag : BOOLEAN, urls : Urls \cup {NoUrl}]
  /\ plugin \in [Objects -> [life : {"unborn", "alive", "dying", "gone"}, list : SUBSET Addresses,
                             url : Urls \cup {NoUrl}]]
  /\ job \in [Threads -> [at : {"idle", "check", "refresh", "fetch", "read", "ended", "joins",
                                "tell", "told", "enable", "disable", "add", "register", "hand", "clear", "erase",
                                "import", "store"},
                          on : Objects \cup {NoObject}, force : BOOLEAN, url : Urls \cup {NoUrl},
                          left : SUBSET Addresses, got : SUBSET Addresses]]
  /\ aborted \in BOOLEAN /\ requests \in 0..MaxRequests[kind]

Created(u) == [Unborn EXCEPT !.life = "alive", !.url = u]

\* create_plugins: a list of its user's is there if the settings name it.
Init ==
  /\ kind \in Kinds
  /\ LET o == CHOOSE o \in Objects : TRUE IN
     \E u \in Urls, there \in (IF kind = "custom" THEN BOOLEAN ELSE {TRUE}) :
       /\ entry = IF there /\ kind = "custom" THEN [enabled |-> TRUE, url |-> u] ELSE NoEntry
       /\ plugin = [p \in Objects |-> IF p = o /\ there THEN Created(u) ELSE Unborn]
       /\ registered = IF there THEN o ELSE NoObject
  /\ flag = TRUE /\ urls = NoUrl
  /\ mutex_ = Nobody /\ plugins_state_mutex_ = Nobody /\ imported = Nothing
  /\ job = [t \in Threads |-> Idle] /\ aborted = FALSE /\ requests = 0

-----------------------------------------------------------------------------
(***************************************************************************)
(* The settings. A name that is unknown counts as enabled.                 *)
(***************************************************************************)
Listed == entry # NoEntry

IsEnabled == IF Listed THEN entry.enabled ELSE flag

\* Mutant: the address of the plugin is forgotten.
UrlOfSettings(o) == IF Listed THEN entry.url ELSE urls

\* get_plugin_url, with the address of the plugin to fall back on.
UrlOf(o) == IF Listed THEN entry.url ELSE IF urls # NoUrl THEN urls ELSE plugin[o].url

MaySee(t) == plugins_state_mutex_ \in {t, Nobody}

ChangeUrl(u) ==
  IF Listed THEN entry' = [entry EXCEPT !.url = u] /\ UNCHANGED <<flag, urls>>
            ELSE urls' = u /\ UNCHANGED <<entry, flag>>

ChangeEnabled(on) ==
  IF Listed THEN entry' = [entry EXCEPT !.enabled = on] /\ UNCHANGED <<flag, urls>>
            ELSE flag' = on /\ UNCHANGED <<entry, urls>>

-----------------------------------------------------------------------------
(***************************************************************************)
(* Plugins are shared: the registry, detached threads and HTTP threads hold*)
(* references, an updater only has the address of the object.              *)
(***************************************************************************)
\* Mutant: detached threads are given the bare pointer.
UsersOnRequest(o) == {t \in Admins : job[t].on = o}

Users(o) == {t \in Threads \ Objects : job[t].on = o}

IsLast(t, o) == t \notin Objects /\ registered # o /\ Users(o) = {t}

\* A request is through, unless it is part of an import.
Done(t) == IF plugins_state_mutex_ = t THEN [Idle EXCEPT !.at = "store"] ELSE Idle

\* Thread t is through with its plugin and leaves it with this list. If nobody else holds
\* the plugin, t runs the destructor, which first joins the updater.
Leaves(t, list) ==
  LET o == job[t].on IN
  /\ plugin' = [plugin EXCEPT ![o].list = list,
                              ![o].life = IF IsLast(t, o) THEN "dying" ELSE @]
  /\ job' = [job EXCEPT ![t] = IF IsLast(t, o) THEN [Idle EXCEPT !.at = "joins", !.on = o] ELSE Done(t)]

LeavesAsItIs(t) == Leaves(t, plugin[job[t].on].list)

\* ~PlaylistPlugin, once the updater is joined. A thread that changes the registry runs it
\* under the mutex, and goes on with the plugin it has put there.
Destroyed(t) ==
  /\ job[t].at = "joins" /\ job[job[t].on].at = "ended"
  /\ plugin' = [plugin EXCEPT ![job[t].on] = [Unborn EXCEPT !.life = "gone"]]
  /\ job' = [job EXCEPT ![t] = IF mutex_ = t /\ registered # NoObject
                               THEN [Idle EXCEPT !.at = "hand", !.on = registered] ELSE Done(t)]
  /\ mutex_' = IF mutex_ = t THEN Nobody ELSE mutex_
  /\ UNCHANGED <<kind, settings, import, registered, aborted, requests>>

\* Mutant: the updater is joined without being told.
UpdaterIsNotTold(o) == FALSE

\* The updater finds stop_updater_ set.
UpdaterEnds(o) ==
  /\ plugin[o].life = "dying" /\ job[o].at = "idle"
  /\ job' = [job EXCEPT ![o].at = "ended"]
  /\ UNCHANGED <<kind, settings, import, registered, mutex_, plugin, aborted, requests>>

-----------------------------------------------------------------------------
(***************************************************************************)
(* Refreshing.                                                             *)
(***************************************************************************)
\* Every 60 minutes (30 for acepl).
UpdaterWakes(o) ==
  /\ plugin[o].life = "alive" /\ job[o].at = "idle"
  /\ job' = [job EXCEPT ![o] = [Idle EXCEPT !.at = "check", !.on = o]]
  /\ UNCHANGED <<kind, settings, import, registered, mutex_, plugin, aborted, requests>>

Asks(w, at) ==
  /\ Cardinality({a \in Admins : job[a].at \in {"tell", "told", "enable", "hand"}})
       < Cardinality({v \in Workers : job[v].at = "idle"})  \* bound: changes need threads, too
  /\ job[w].at = "idle" /\ mutex_ = Nobody /\ registered # NoObject
  /\ job' = [job EXCEPT ![w] = [Idle EXCEPT !.at = at, !.on = registered]]
  /\ UNCHANGED <<kind, settings, import, registered, mutex_, plugin, aborted, requests>>

\* A request that finds the plugin by its name, and calls handle.
HandlerAsks(w) == Asks(w, "check")

\* AIO takes hold of all plugins, and only looks at their lists.
AioAsks(w) == Asks(w, "read")

Reads(w) ==
  /\ job[w].at = "read" /\ LeavesAsItIs(w)
  /\ UNCHANGED <<kind, settings, import, registered, mutex_, aborted, requests>>

\* Unless it is forced to, a refresh does nothing for 30 minutes after the last one. (An
\* updater that finds its list so young counts as sleeping on.)
MayBeFresh(t) == t \in Workers /\ ~job[t].force /\ plugin[job[t].on].list # {}

\* Mutant: what is disabled is not refreshed, and keeps its list.
CheckClearsNothing(t) ==
  /\ job[t].at = "check" /\ MaySee(t)
  /\ IF IsEnabled
     THEN job' = [job EXCEPT ![t].at = "refresh", ![t].force = FALSE] /\ UNCHANGED plugin
     ELSE LeavesAsItIs(t)
  /\ UNCHANGED <<kind, settings, import, registered, mutex_, aborted, requests>>

\* refresh_if_needed. When an updater calls refresh of an object whose destructor has
\* begun, the override is gone and there is nothing to call.
Check(t) ==
  /\ job[t].at = "check" /\ MaySee(t)
  /\ \/ /\ IsEnabled
        /\ job' = [job EXCEPT ![t].at = "refresh", ![t].force = FALSE]
        /\ aborted' = (plugin[job[t].on].life = "dying") /\ UNCHANGED plugin
     \/ IsEnabled /\ MayBeFresh(t) /\ LeavesAsItIs(t) /\ UNCHANGED aborted
     \/ ~IsEnabled /\ Leaves(t, {}) /\ UNCHANGED aborted
  /\ UNCHANGED <<kind, settings, import, registered, mutex_, requests>>

\* The address is read from the settings once. A list of a user's looks once more whether
\* it is enabled; custom_url_, on which it may fall back, goes before the updater is joined.
Begins(t) ==
  LET o == job[t].on IN
  /\ job[t].at = "refresh" /\ MaySee(t)
  /\ IF kind = "custom" /\ ~IsEnabled
     THEN LeavesAsItIs(t) /\ UNCHANGED aborted
     ELSE /\ job' = [job EXCEPT ![t].at = "fetch", ![t].left = UrlOf(o)]
          /\ aborted' = (kind = "custom" /\ plugin[o].life = "dying" /\ ~Listed /\ urls = NoUrl)
          /\ UNCHANGED plugin
  /\ UNCHANGED <<kind, settings, import, registered, mutex_, requests>>

\* The first gateway or host that answers with something, or an answer of the last minutes:
\* the channels of an address, or nothing that can be read as such.
Downloaded(a) == {{}, {a}}

\* One address after the other; one that cannot be downloaded is passed over.
FetchEach(t) ==
  \E a \in job[t].left : \E got \in Downloaded(a) :
    IF job[t].left = {a}
    THEN Leaves(t, job[t].got \cup got)
    ELSE job' = [job EXCEPT ![t].got = @ \cup got, ![t].left = @ \ {a}] /\ UNCHANGED plugin

FetchElcano(t) == kind = "elcano" /\ FetchEach(t)
FetchCustom(t) == kind = "custom" /\ FetchEach(t)

\* Whatever is answered becomes the list, the page of an error included.
FetchNewEra(t) == kind = "newera" /\ \E got \in {{}, job[t].left} : Leaves(t, got)

\* So does whatever can be parsed: as no channels, if it is no array of them.
FetchAcePL(t) == kind = "acepl" /\ \E got \in {{}, job[t].left} : Leaves(t, got)

\* The groups that the first document names are fetched in turn, and passed over if they fail.
FetchAf1c1onados(t) == kind = "af1c1onados" /\ \E got \in SUBSET job[t].left : Leaves(t, got)

\* The download, or the parser of acepl and af1c1onados, throws out of refresh: the list
\* stays as it is.
KeepsOnFailure == kind \in {"newera", "acepl", "af1c1onados"}
FetchFails(t) == KeepsOnFailure /\ LeavesAsItIs(t)

Fetch(t) ==
  /\ job[t].at = "fetch"
  /\ \/ FetchElcano(t) \/ FetchCustom(t) \/ FetchNewEra(t) \/ FetchAcePL(t) \/ FetchAf1c1onados(t)
     \/ FetchFails(t)
  /\ UNCHANGED <<kind, settings, import, registered, mutex_, aborted, requests>>

-----------------------------------------------------------------------------
(***************************************************************************)
(* Changes of the settings. Each is several steps: the settings under      *)
(* their own mutex, then the plugin that is registered by then, then a     *)
(* detached thread to refresh it.                                          *)
(***************************************************************************)
Requested(a) ==
  /\ job[a].at = "idle" /\ plugins_state_mutex_ = Nobody
  /\ requests < MaxRequests[kind] /\ requests' = requests + 1

SetUrl(a, u) ==
  /\ Requested(a) /\ ChangeUrl(u) /\ job' = [job EXCEPT ![a].at = "tell"]
  /\ UNCHANGED <<kind, import, registered, mutex_, plugin, aborted>>

SetEnabled(a, on) ==
  /\ Requested(a) /\ ChangeEnabled(on)
  /\ job' = [job EXCEPT ![a].at = IF on THEN "enable" ELSE "disable"]
  /\ UNCHANGED <<kind, import, registered, mutex_, plugin, aborted>>

\* The pages offer the next two for lists of the user's only.
SaveCustomList(a, u, on) ==
  /\ kind = "custom" /\ Requested(a)
  /\ entry' = [enabled |-> on, url |-> u] /\ UNCHANGED <<flag, urls>>
  /\ job' = [job EXCEPT ![a].at = "add", ![a].url = u]
  /\ UNCHANGED <<kind, import, registered, mutex_, plugin, aborted>>

DeleteCustomList(a) ==
  /\ kind = "custom" /\ Requested(a)
  /\ entry' = NoEntry /\ UNCHANGED <<flag, urls>>
  /\ job' = [job EXCEPT ![a].at = "clear"]
  /\ UNCHANGED <<kind, import, registered, mutex_, plugin, aborted>>

\* A detached thread is given a reference of its own.
Starts(a, w, o, force, next) ==
  /\ job[w].at = "idle"
  /\ job' = [job EXCEPT ![w] = [Idle EXCEPT !.at = "check", !.on = o, !.force = force], ![a] = next]

\* A thread is given the plugin a has hold of, and a goes on without. (An import is not made
\* to wait for one of the Workers, who may wait for it: it goes on without one.)
HandsOver(a) ==
  \/ \E w \in Workers : Starts(a, w, job[a].on, TRUE, Done(a)) /\ UNCHANGED plugin
  \/ plugins_state_mutex_ = a /\ (\A w \in Workers : job[w].at # "idle") /\ LeavesAsItIs(a)

\* set_plugin_url, after the change, takes hold of all plugins ...
Tell(a) ==
  /\ job[a].at = "tell" /\ job[a].on = NoObject /\ mutex_ = Nobody
  /\ job' = [job EXCEPT ![a] = IF registered = NoObject THEN Done(a)
                               ELSE [Idle EXCEPT !.at = "told", !.on = registered]]
  /\ UNCHANGED <<kind, settings, import, registered, mutex_, plugin, aborted, requests>>

\* ... asks whether this one is enabled, and lets go of them.
Told(a) ==
  /\ job[a].at = "told" /\ MaySee(a)
  /\ IF IsEnabled THEN HandsOver(a) ELSE LeavesAsItIs(a)
  /\ UNCHANGED <<kind, settings, import, registered, mutex_, aborted, requests>>

\* Both, if add_custom_list_plugin called, which still holds the plugin it found.
TellHeld(a) ==
  LET next == [job[a] EXCEPT !.at = "hand"] IN
  /\ job[a].at = "tell" /\ job[a].on # NoObject /\ mutex_ = Nobody /\ MaySee(a)
  /\ \/ \E w \in Workers : registered # NoObject /\ IsEnabled /\ Starts(a, w, registered, TRUE, next)
     \/ /\ registered # NoObject /\ IsEnabled =>
             plugins_state_mutex_ = a /\ \A w \in Workers : job[w].at # "idle"
        /\ job' = [job EXCEPT ![a] = next]
  /\ UNCHANGED <<kind, settings, import, registered, mutex_, plugin, aborted, requests>>

\* set_plugin_enabled, after the change.
Enable(a) ==
  /\ job[a].at = "enable" /\ mutex_ = Nobody
  /\ IF registered # NoObject
     THEN \E w \in Workers : Starts(a, w, registered, FALSE, Idle)
     ELSE job' = [job EXCEPT ![a] = Idle]
  /\ UNCHANGED <<kind, settings, import, registered, mutex_, plugin, aborted, requests>>

\* set_enabled(false)
Clears(o) == plugin' = [plugin EXCEPT ![o].list = {}]

Disable(a) ==
  /\ job[a].at = "disable" /\ mutex_ = Nobody
  /\ job' = [job EXCEPT ![a] = Idle]
  /\ IF registered # NoObject THEN Clears(registered) ELSE UNCHANGED plugin
  /\ UNCHANGED <<kind, settings, import, registered, mutex_, aborted, requests>>

\* add_custom_list_plugin looks the name up ...
Add(a) ==
  /\ job[a].at = "add" /\ mutex_ = Nobody
  /\ \/ /\ registered # NoObject /\ MaySee(a) /\ ChangeUrl(job[a].url)
        /\ job' = [job EXCEPT ![a] = [Idle EXCEPT !.at = "tell", !.on = registered]] /\ UNCHANGED plugin
     \/ /\ registered = NoObject
        /\ \E o \in Objects :
             /\ plugin[o].life = "unborn" /\ plugin' = [plugin EXCEPT ![o] = Created(job[a].url)]
             /\ job' = [job EXCEPT ![a] = [Idle EXCEPT !.at = "register", !.on = o]]
        /\ UNCHANGED settings
  /\ UNCHANGED <<kind, import, registered, mutex_, aborted, requests>>

\* The mutex is held while a plugin that was replaced or erased is destroyed.
Registers(a, o, next) ==
  /\ mutex_ = Nobody /\ registered' = o
  /\ IF registered = NoObject \/ Users(registered) # {}
     THEN job' = [job EXCEPT ![a] = next] /\ UNCHANGED <<mutex_, plugin>>
     ELSE /\ job' = [job EXCEPT ![a] = [Idle EXCEPT !.at = "joins", !.on = registered]]
          /\ plugin' = [plugin EXCEPT ![registered].life = "dying"] /\ mutex_' = a
  /\ UNCHANGED <<kind, settings, import, aborted, requests>>

\* ... and registers a new plugin, in the place of one that was registered meanwhile.
Register(a) == job[a].at = "register" /\ Registers(a, job[a].on, [job[a] EXCEPT !.at = "hand"])

Hand(a) ==
  /\ job[a].at = "hand" /\ HandsOver(a)
  /\ UNCHANGED <<kind, settings, import, registered, mutex_, aborted, requests>>

\* remove_custom_list_plugin empties the plugin ...
Clear(a) ==
  /\ job[a].at = "clear" /\ mutex_ = Nobody
  /\ job' = [job EXCEPT ![a].at = "erase"]
  /\ IF registered # NoObject THEN Clears(registered) ELSE UNCHANGED plugin
  /\ UNCHANGED <<kind, settings, import, registered, mutex_, aborted, requests>>

\* ... and erases it.
Erase(a) == job[a].at = "erase" /\ Registers(a, NoObject, Idle)

-----------------------------------------------------------------------------
(***************************************************************************)
(* import_sources keeps the settings locked from its first look at them to *)
(* the end, and works on copies: the user's lists that are there are kept  *)
(* (merge) or forgotten (replace). On its way it calls set_plugin_url and  *)
(* add_custom_list_plugin, whose changes it overwrites when it is through. *)
(***************************************************************************)
ImportSources(a) ==
  /\ Requested(a) /\ plugins_state_mutex_' = a
  /\ \E kept \in {entry, NoEntry} : imported' = [entry |-> kept, flag |-> flag, urls |-> urls]
  /\ job' = [job EXCEPT ![a].at = "import"]
  /\ UNCHANGED <<kind, settings, registered, mutex_, plugin, aborted>>

\* A document names this source once at most (bound): as enabled or not (or not at all), with
\* an address, or as a list.
Imports(a) ==
  /\ job[a].at = "import"
  /\ \/ /\ job' = [job EXCEPT ![a].at = "store"] /\ UNCHANGED settings
        /\ \E on \in BOOLEAN : imported' = [imported EXCEPT !.flag = on]
     \/ \E u \in Urls :
          /\ imported' = [imported EXCEPT !.urls = u] /\ ChangeUrl(u)
          /\ job' = [job EXCEPT ![a].at = "tell"]
     \/ \E u \in Urls, on \in BOOLEAN :
          /\ imported' = [imported EXCEPT !.entry = [enabled |-> on, url |-> u]] /\ UNCHANGED settings
          /\ job' = [job EXCEPT ![a].at = "add", ![a].url = u]
  /\ UNCHANGED <<kind, plugins_state_mutex_, registered, mutex_, plugin, aborted, requests>>

ImportEnds(a) ==
  /\ job[a].at = "store" /\ job' = [job EXCEPT ![a] = Idle]
  /\ entry' = imported.entry /\ flag' = imported.flag /\ urls' = imported.urls
  /\ plugins_state_mutex_' = Nobody /\ imported' = Nothing
  /\ UNCHANGED <<kind, registered, mutex_, plugin, aborted, requests>>

-----------------------------------------------------------------------------
Refreshes(t) == Check(t) \/ Begins(t) \/ Fetch(t) \/ Reads(t)

Change(a) ==
  \/ DeleteCustomList(a) \/ ImportSources(a)
  \/ \E on \in BOOLEAN : SetEnabled(a, on)
  \/ \E u \in Urls : SetUrl(a, u) \/ \E on \in BOOLEAN : SaveCustomList(a, u, on)

Updates(o) == UpdaterWakes(o) \/ Refreshes(o) \/ UpdaterEnds(o)

GoesOn(a) ==
  Tell(a) \/ Told(a) \/ TellHeld(a) \/ Imports(a) \/ ImportEnds(a)
  \/ Enable(a) \/ Disable(a) \/ Add(a) \/ Register(a) \/ Hand(a) \/ Clear(a) \/ Erase(a) \/ Destroyed(a)

Next ==
  /\ ~aborted
  /\ \/ \E o \in Objects : Updates(o)
     \/ \E w \in Workers : HandlerAsks(w) \/ AioAsks(w) \/ Refreshes(w) \/ Destroyed(w)
     \/ \E a \in Admins : Change(a) \/ GoesOn(a)

Spec == Init /\ [][Next]_vars

(***************************************************************************)
(* Downloads have time-outs. An updater sleeps for its period, and as that *)
(* is longer than a list counts as fresh, it will find the list stale. No  *)
(* request need come.                                                      *)
(***************************************************************************)
Fairness ==
  /\ \A o \in Objects : WF_vars(~aborted /\ Updates(o))
  /\ \A t \in Workers : WF_vars(~aborted /\ (Refreshes(t) \/ Destroyed(t)))
  /\ WF_vars(~aborted /\ \E a \in Admins : GoesOn(a))

FairSpec == Spec /\ Fairness

-----------------------------------------------------------------------------
(***************************************************************************)
(* Properties.                                                             *)
(***************************************************************************)
\* A plugin that is registered, or that a detached thread or a request works on, is not
\* destroyed, nor being so: deleting a list while it is downloaded leaves its object to
\* whoever finishes last. An updater ends before its object does.
InUseIsAlive ==
  /\ registered # NoObject => plugin[registered].life = "alive"
  /\ \A t \in Threads \ Objects : job[t].on # NoObject =>
       plugin[job[t].on].life = IF job[t].at = "joins" THEN "dying" ELSE "alive"
  /\ \A o \in Objects : job[o].at \notin {"idle", "ended"} => plugin[o].life \in {"alive", "dying"}

\* In the end, the list of a source comes from the address it has in the settings, and is
\* empty if it is disabled there: a refresh that began before the change and ends after
\* it leaves its list for some time, not for good. (newera, acepl and af1c1onados keep the
\* list of an address they no longer have for as long as the new one cannot be downloaded.)
SettledListFollows ==
  <>[](~aborted /\ registered # NoObject =>
         plugin[registered].list \subseteq (IF ~IsEnabled THEN {}
                                            ELSE IF KeepsOnFailure THEN Addresses
                                            ELSE UrlOf(registered)))

\* An import and a thread that destroys a plugin wait for each other: its updater, which is
\* yet to be joined, waits for the settings, and the import for the registry that this thread
\* holds, unless it is the import itself that destroys it.
ImportHangs ==
  \E i, t \in Admins :
    /\ plugins_state_mutex_ = i
    /\ job[t].at = "joins" /\ job[job[t].on].at \in {"check", "refresh"}
    /\ t = i \/ (mutex_ = t /\ job[i].at \in {"tell", "add", "register"})

\* A plugin that is taken out of the registry, by a deletion or by another one of its name,
\* is destroyed: whoever comes last finds the updater ending, and no request waits for ever
\* for the registry, or the settings, that are locked meanwhile. The program has one way to
\* break this, and no other: an import that hangs.
RemovalEnds ==
  <>[](~aborted /\ ~ImportHangs =>
         /\ mutex_ = Nobody /\ plugins_state_mutex_ = Nobody
         /\ \A o \in Objects : plugin[o].life \in {"alive", "dying"} => registered = o)

=============================================================================
