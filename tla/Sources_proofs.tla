---------------------------- MODULE Sources_proofs ----------------------------
(***************************************************************************)
(* Theorems about a source of channels, for any number of plugins, threads, *)
(* addresses and changes: every variable keeps to its type, no plugin is    *)
(* destroyed that anybody still uses, and none is left that nobody has hold *)
(* of.                                                                      *)
(***************************************************************************)
EXTENDS Sources, TLAPS

Others == Workers \cup Admins

\* Where the request is that keeps the settings locked.
ImportPlaces == {"import", "tell", "told", "add", "register", "hand", "joins", "store"}

\* A thread that works on a plugin has one; an updater has its own.
Occupied ==
  /\ \A t \in Others : job[t].at \in {"check", "refresh", "fetch", "read", "joins", "told", "register", "hand"} =>
       job[t].on # NoObject
  /\ \A t \in Others : job[t].at \in {"idle", "enable", "disable", "add", "clear", "erase", "import", "store"} =>
       job[t].on = NoObject
  /\ \A a \in Admins : plugins_state_mutex_ = a => job[a].at \in ImportPlaces
  /\ \A t \in Admins : job[t].at \notin {"check", "refresh", "fetch", "read", "ended"}
  /\ \A t \in Workers : job[t].at \in {"idle", "check", "refresh", "fetch", "read", "joins"}
  /\ \A o \in Objects : /\ job[o].at \in {"idle", "check", "refresh", "fetch", "ended"}
                        /\ job[o].at \in {"check", "refresh", "fetch"} => job[o].on = o

\* Addresses are never missing where they are needed.
Addressed ==
  /\ entry = NoEntry \/ entry.url \in Urls
  /\ imported.entry = NoEntry \/ imported.entry.url \in Urls
  /\ \A o \in Objects : plugin[o].life \in {"alive", "dying"} => plugin[o].url \in Urls
  /\ \A a \in Admins : job[a].at = "add" => job[a].url \in Urls

\* One thread destroys a plugin.
OneJoins ==
  \A t, u \in Others : job[t].at = "joins" /\ job[u].at = "joins" /\ job[t].on = job[u].on => t = u

SourcesInv == TypeOK /\ Occupied /\ Addressed /\ OneJoins /\ InUseIsAlive

-------------------------------------------------------------------------------
LEMMA Disjoint == Threads \ Objects = Others /\ Objects \cap Others = {} /\ Workers \cap Admins = {}
BY SourcesAssumption DEF Threads, Others

Jobs == [at : {"idle", "check", "refresh", "fetch", "read", "ended", "joins",
               "tell", "told", "enable", "disable", "add", "register", "hand", "clear", "erase",
               "import", "store"},
         on : Objects \cup {NoObject}, force : BOOLEAN, url : Urls \cup {NoUrl},
         left : SUBSET Addresses, got : SUBSET Addresses]

Plugins == [life : {"unborn", "alive", "dying", "gone"}, list : SUBSET Addresses, url : Urls \cup {NoUrl}]

LEMMA IdleIsJob == Idle \in Jobs /\ Unborn \in Plugins /\ NoEntry \in Entries
BY DEF Idle, Unborn, NoEntry, Entries, Jobs, Plugins

\* What is left to do for a thread that is through with a plugin.
LEMMA DoneIs ==
  /\ \A t : Done(t) \in Jobs /\ Done(t).on = NoObject /\ Done(t).at \in {"idle", "store"}
  /\ \A t : plugins_state_mutex_ = t => Done(t).at = "store"
  /\ TypeOK => \A t \in Threads \ Admins : Done(t) = Idle
<1>1. [Idle EXCEPT !.at = "store"] \in Jobs /\ [Idle EXCEPT !.at = "store"].on = NoObject
      /\ [Idle EXCEPT !.at = "store"].at = "store" /\ Idle.at = "idle" /\ Idle.on = NoObject
  BY DEF Idle, Jobs
<1>2. Idle \in Jobs
  BY IdleIsJob
<1>3. ASSUME TypeOK, NEW t \in Threads \ Admins PROVE Done(t) = Idle
  <2>1. plugins_state_mutex_ # t
    BY <1>3, SourcesAssumption DEF TypeOK, Threads
  <2> QED BY <2>1 DEF Done
<1> QED BY <1>1, <1>2, <1>3 DEF Done

LEMMA UrlsAreAddresses == TypeOK => \A u \in Urls : u \in SUBSET Addresses /\ u # NoUrl
BY SourcesAssumption DEF TypeOK, Urls

LEMMA InitHolds == Init => SourcesInv
<1> SUFFICES ASSUME Init PROVE SourcesInv
  OBVIOUS
<1> DEFINE o == CHOOSE o \in Objects : TRUE
<1>1. o \in Objects
  BY SourcesAssumption
<1>2. kind \in Kinds
  BY DEF Init
<1>3. PICK u \in Urls, there \in BOOLEAN :
        /\ entry = IF there /\ kind = "custom" THEN [enabled |-> TRUE, url |-> u] ELSE NoEntry
        /\ plugin = [p \in Objects |-> IF p = o /\ there THEN Created(u) ELSE Unborn]
        /\ registered = IF there THEN o ELSE NoObject
  BY DEF Init
<1> HIDE DEF o
<1>4. job = [t \in Threads |-> Idle]
  BY DEF Init
<1>5. Created(u) \in Plugins /\ Created(u).life = "alive" /\ Created(u).url = u
  BY IdleIsJob DEF Created, Unborn, Plugins
<1>6. TypeOK
  <2>1. plugin \in [Objects -> Plugins]
    BY <1>3, <1>5, IdleIsJob
  <2>2. job \in [Threads -> Jobs]
    BY <1>4, IdleIsJob
  <2>3. entry \in Entries /\ imported \in [entry : Entries, flag : BOOLEAN, urls : Urls \cup {NoUrl}]
    BY <1>3, IdleIsJob DEF NoEntry, Entries, Init, Nothing
  <2>4. 0 \in 0..MaxRequests[kind]
    BY <1>2, SourcesAssumption
  <2>5. registered \in Objects \cup {NoObject}
    BY <1>1, <1>3
  <2> QED BY <1>2, <2>1, <2>2, <2>3, <2>4, <2>5 DEF Init, TypeOK, Jobs, Plugins
<1>7. Occupied /\ OneJoins
  BY <1>4, Disjoint, SourcesAssumption DEF Init, Occupied, OneJoins, Idle, Others, Threads
<1>8. Addressed
  BY <1>3, <1>4, <1>5 DEF Init, Nothing, Addressed, Idle, Unborn, Threads
<1>9. InUseIsAlive
  BY <1>1, <1>3, <1>4, <1>5, SourcesAssumption DEF InUseIsAlive, Idle, Threads
<1> QED BY <1>6, <1>7, <1>8, <1>9 DEF SourcesInv

-------------------------------------------------------------------------------
LEMMA TypesAre == TypeOK <=>
  /\ kind \in Kinds /\ entry \in Entries
  /\ imported \in [entry : Entries, flag : BOOLEAN, urls : Urls \cup {NoUrl}]
  /\ plugins_state_mutex_ \in Admins \cup {Nobody}
  /\ flag \in BOOLEAN /\ urls \in Urls \cup {NoUrl}
  /\ registered \in Objects \cup {NoObject} /\ mutex_ \in Admins \cup {Nobody}
  /\ plugin \in [Objects -> Plugins] /\ job \in [Threads -> Jobs]
  /\ aborted \in BOOLEAN /\ requests \in 0..MaxRequests[kind]
BY DEF TypeOK, Plugins, Jobs

\* What the settings may become.
SettingsOK ==
  /\ entry \in Entries /\ flag \in BOOLEAN /\ urls \in Urls \cup {NoUrl}
  /\ imported \in [entry : Entries, flag : BOOLEAN, urls : Urls \cup {NoUrl}]
  /\ plugins_state_mutex_ \in Admins \cup {Nobody}
  /\ entry = NoEntry \/ entry.url \in Urls
  /\ imported.entry = NoEntry \/ imported.entry.url \in Urls
  /\ requests \in 0..MaxRequests[kind]

\* Steps that leave the registry, and the lives of all plugins, as they are:
\* what one thread does next, or two.
LEMMA ChangeKeeps ==
  ASSUME SourcesInv, NEW t1 \in Threads, NEW t2 \in Threads,
         UNCHANGED <<kind, registered, mutex_>>, aborted' \in BOOLEAN, SettingsOK',
         plugin' \in [Objects -> Plugins],
         \A o \in Objects : plugin'[o].life = plugin[o].life /\ plugin'[o].url = plugin[o].url,
         job' \in [Threads -> Jobs], \A t \in Threads \ {t1, t2} : job'[t] = job[t],
         \A t \in {t1, t2} \cap Others : job'[t].on # NoObject => plugin[job'[t].on].life = "alive",
         \A t \in {t1, t2} : job'[t].at # "joins" /\ (job'[t].at = "add" => job'[t].url \in Urls),
         \A o \in {t1, t2} \cap Objects : job'[o].at \notin {"idle", "ended"} => plugin[o].life \in {"alive", "dying"},
         Occupied'
  PROVE  SourcesInv'
<1>1. TypeOK'
  BY DEF SourcesInv, TypeOK, SettingsOK, Entries, Urls, Jobs, Plugins
<1>2. Addressed'
  BY Disjoint DEF SourcesInv, Addressed, TypeOK, SettingsOK, Entries, Urls, Threads
<1>3. OneJoins'
  BY Disjoint DEF SourcesInv, OneJoins, Others, Threads
<1>4. InUseIsAlive'
  <2>1. registered' # NoObject => plugin'[registered'].life = "alive"
    BY DEF SourcesInv, TypeOK, InUseIsAlive
  <2>2. ASSUME NEW t \in Others, job'[t].on # NoObject
        PROVE  plugin'[job'[t].on].life = IF job'[t].at = "joins" THEN "dying" ELSE "alive"
    <3>1. job'[t].on \in Objects /\ t \in Threads
      BY <2>2, Disjoint DEF Jobs, Others, Threads
    <3> QED BY <2>2, <3>1, Disjoint DEF SourcesInv, InUseIsAlive
  <2>3. ASSUME NEW o \in Objects, job'[o].at \notin {"idle", "ended"}
        PROVE  plugin'[o].life \in {"alive", "dying"}
    BY <2>3 DEF SourcesInv, InUseIsAlive, Threads
  <2> QED BY <2>1, <2>2, <2>3, Disjoint DEF InUseIsAlive
<1> QED BY <1>1, <1>2, <1>3, <1>4 DEF SourcesInv

LEMMA SettingsStay ==
  ASSUME SourcesInv, UNCHANGED <<kind, settings, import, requests>>
  PROVE  SettingsOK'
BY DEF SourcesInv, TypeOK, Addressed, SettingsOK, settings, import, Entries, Urls

\* The settings stay as they are, too.
LEMMA JobKeeps ==
  ASSUME SourcesInv, NEW t1 \in Threads, NEW t2 \in Threads,
         UNCHANGED <<kind, settings, import, registered, mutex_, requests>>, aborted' \in BOOLEAN,
         plugin' \in [Objects -> Plugins],
         \A o \in Objects : plugin'[o].life = plugin[o].life /\ plugin'[o].url = plugin[o].url,
         job' \in [Threads -> Jobs], \A t \in Threads \ {t1, t2} : job'[t] = job[t],
         \A t \in {t1, t2} \cap Others : job'[t].on # NoObject => plugin[job'[t].on].life = "alive",
         \A t \in {t1, t2} : job'[t].at \notin {"joins", "add"},
         \A o \in {t1, t2} \cap Objects : job'[o].at \notin {"idle", "ended"} => plugin[o].life \in {"alive", "dying"},
         Occupied'
  PROVE  SourcesInv'
BY SettingsStay, ChangeKeeps

\* A thread that is through with its plugin.
LEMMA LeavesKeeps ==
  ASSUME SourcesInv, NEW t \in Threads, job[t].at \in {"check", "refresh", "fetch", "read", "told", "hand"},
         NEW list \in SUBSET Addresses, Leaves(t, list),
         UNCHANGED <<kind, settings, import, registered, mutex_, requests>>, aborted' \in BOOLEAN
  PROVE  SourcesInv'
<1> DEFINE o == job[t].on
<1>1. o \in Objects /\ plugin \in [Objects -> Plugins] /\ job \in [Threads -> Jobs]
  BY Disjoint, TypesAre DEF SourcesInv, Occupied, Threads, Others, Jobs
<1>2. CASE ~IsLast(t, o)
  <2>1. plugin' = [plugin EXCEPT ![o].list = list, ![o].life = @] /\ job' = [job EXCEPT ![t] = Done(t)]
    BY <1>2 DEF Leaves
  <2>2. /\ plugin' \in [Objects -> Plugins]
        /\ \A p \in Objects : plugin'[p].life = plugin[p].life /\ plugin'[p].url = plugin[p].url
    BY <1>1, <2>1 DEF Plugins
  <2> DEFINE j == Done(t)
  <2>3. /\ j \in Jobs /\ j.on = NoObject /\ j.at \in {"idle", "store"}
        /\ plugins_state_mutex_ = t => j.at = "store"
        /\ t \notin Admins => j.at = "idle"
    BY DoneIs DEF SourcesInv, Idle
  <2>4. job' = [job EXCEPT ![t] = j]
    BY <2>1
  <2> HIDE DEF j
  <2>5. job' \in [Threads -> Jobs] /\ job'[t] = j /\ \A u \in Threads \ {t} : job'[u] = job[u]
    BY <1>1, <2>3, <2>4
  <2>6. Occupied'
    BY <2>3, <2>5, Disjoint DEF SourcesInv, Occupied, ImportPlaces, import, Others, Threads
  <2>7. t \in Objects => job'[t].at = "idle"
    BY <2>3, <2>5, Disjoint DEF Others
  <2> QED BY <2>2, <2>3, <2>5, <2>6, <2>7, JobKeeps
<1>3. CASE IsLast(t, o)
  <2>1. /\ plugin' = [plugin EXCEPT ![o].list = list, ![o].life = "dying"]
        /\ job' = [job EXCEPT ![t] = [Idle EXCEPT !.at = "joins", !.on = o]]
    BY <1>3 DEF Leaves
  <2>2. t \in Others /\ registered # o /\ \A u \in Others : job[u].on = o => u = t
    BY <1>3, Disjoint DEF IsLast, Users
  <2>3. /\ plugin' \in [Objects -> Plugins] /\ plugin'[o].life = "dying"
        /\ \A p \in Objects : plugin'[p].url = plugin[p].url /\ (p # o => plugin'[p].life = plugin[p].life)
    BY <1>1, <2>1 DEF Plugins
  <2> DEFINE j == [Idle EXCEPT !.at = "joins", !.on = o]
  <2>4. j \in Jobs /\ j.at = "joins" /\ j.on = o
    BY <1>1, IdleIsJob DEF Idle, Jobs
  <2>5. job' \in [Threads -> Jobs] /\ job'[t].at = "joins" /\ job'[t].on = o /\ \A u \in Threads \ {t} : job'[u] = job[u]
    BY <1>1, <2>1, <2>4
  <2> HIDE DEF j
  <2>6. plugin[o].life = "alive"
    BY <1>1, <2>2, Disjoint, SourcesAssumption DEF SourcesInv, InUseIsAlive
  <2>7. TypeOK'
    BY <2>3, <2>5 DEF SourcesInv, TypeOK, settings, import, Entries, Urls, Jobs, Plugins
  <2>9. Occupied'
    BY <1>1, <2>2, <2>5, Disjoint, SourcesAssumption DEF SourcesInv, Occupied, ImportPlaces, import, Others, Threads
  <2>10. Addressed'
    BY <2>3, <2>5, <2>6, Disjoint DEF SourcesInv, Addressed, TypeOK, settings, import, Urls, Threads
  <2>11. OneJoins'
    BY <2>2, <2>5, Disjoint DEF SourcesInv, OneJoins, Others, Threads
  <2>12. InUseIsAlive'
    <3>1. registered' # NoObject => plugin'[registered'].life = "alive"
      BY <2>2, <2>3 DEF SourcesInv, TypeOK, InUseIsAlive
    <3>2. ASSUME NEW u \in Others, job'[u].on # NoObject
          PROVE  plugin'[job'[u].on].life = IF job'[u].at = "joins" THEN "dying" ELSE "alive"
      <4>1. job'[u].on \in Objects /\ u \in Threads
        BY <2>5, <3>2, Disjoint DEF Jobs, Others, Threads
      <4> QED BY <2>2, <2>3, <2>5, <3>2, <4>1, Disjoint DEF SourcesInv, InUseIsAlive
    <3>3. ASSUME NEW p \in Objects, job'[p].at \notin {"idle", "ended"}
          PROVE  plugin'[p].life \in {"alive", "dying"}
      BY <2>2, <2>3, <2>5, <3>3, Disjoint DEF SourcesInv, InUseIsAlive, Threads
    <3> QED BY <3>1, <3>2, <3>3, Disjoint DEF InUseIsAlive
  <2> QED BY <2>7, <2>9, <2>10, <2>11, <2>12 DEF SourcesInv
<1> QED BY <1>2, <1>3

-------------------------------------------------------------------------------
(* Refreshing.                                                              *)

LEMMA UrlOfTypes ==
  ASSUME SourcesInv, NEW o \in Objects, plugin[o].life \in {"alive", "dying"}
  PROVE  UrlOf(o) \in SUBSET Addresses
<1>1. UrlOf(o) \in Urls
  BY DEF UrlOf, Listed, SourcesInv, Addressed, TypeOK, Entries
<1> QED BY <1>1, UrlsAreAddresses DEF SourcesInv

\* Whoever refreshes or reads a plugin finds it there.
LEMMA UsedIsThere ==
  ASSUME SourcesInv, NEW t \in Threads, job[t].at \in {"check", "refresh", "fetch", "read"}
  PROVE  /\ job[t].on \in Objects /\ plugin[job[t].on].life \in {"alive", "dying"}
         /\ t \in Objects => job[t].on = t
         /\ t \notin Objects => t \in Workers /\ plugin[job[t].on].life = "alive"
<1>1. job[t] \in Jobs
  BY TypesAre DEF SourcesInv
<1>2. CASE t \in Objects
  BY <1>2 DEF SourcesInv, Occupied, InUseIsAlive
<1>3. CASE t \in Others
  <2>1. job[t].on \in Objects
    BY <1>1, <1>3 DEF SourcesInv, Occupied, Jobs
  <2> QED BY <1>3, <2>1, Disjoint, SourcesAssumption DEF SourcesInv, InUseIsAlive, Occupied, Others
<1> QED BY <1>2, <1>3, Disjoint

\* A refresh goes on to its next step.
LEMMA NextStepKeeps ==
  ASSUME SourcesInv, NEW t \in Threads, job[t].at \in {"check", "refresh", "fetch", "read"},
         NEW at \in {"check", "refresh", "fetch", "read"}, t \in Objects => at # "read",
         NEW j \in Jobs, j.at = at, j.on = job[t].on, job' = [job EXCEPT ![t] = j],
         UNCHANGED <<kind, settings, import, registered, mutex_, requests, plugin>>, aborted' \in BOOLEAN
  PROVE  SourcesInv'
<1>1. job \in [Threads -> Jobs] /\ plugin \in [Objects -> Plugins]
  BY TypesAre DEF SourcesInv
<1>2. job' \in [Threads -> Jobs] /\ job'[t] = j /\ \A u \in Threads \ {t} : job'[u] = job[u]
  BY <1>1
<1>3. /\ job[t].on \in Objects /\ plugin[job[t].on].life \in {"alive", "dying"}
      /\ t \in Objects => job[t].on = t
      /\ t \notin Objects => t \in Workers /\ plugin[job[t].on].life = "alive"
  BY UsedIsThere
<1>4. Occupied'
  BY <1>2, <1>3, Disjoint, SourcesAssumption DEF SourcesInv, Occupied, ImportPlaces, import, Others, Threads
<1> QED BY <1>1, <1>2, <1>3, <1>4, Disjoint, JobKeeps

LEMMA CheckKeeps ==
  ASSUME SourcesInv, NEW t \in Threads, Check(t)
  PROVE  SourcesInv'
<1>1. UNCHANGED <<kind, settings, import, registered, mutex_, requests>> /\ job[t].at = "check"
  BY DEF Check
<1>2. job[t] \in Jobs /\ job[t].on \in Objects /\ plugin[job[t].on] \in Plugins
  BY <1>1, UsedIsThere, TypesAre DEF SourcesInv
<1>3. aborted' \in BOOLEAN
  BY DEF Check, SourcesInv, TypeOK
<1>4. CASE Leaves(t, plugin[job[t].on].list) \/ Leaves(t, {})
  <2>1. plugin[job[t].on].list \in SUBSET Addresses /\ {} \in SUBSET Addresses
    BY <1>2 DEF Plugins
  <2> QED BY <1>1, <1>3, <1>4, <2>1, LeavesKeeps
<1>5. CASE job' = [job EXCEPT ![t].at = "refresh", ![t].force = FALSE] /\ UNCHANGED plugin
  <2> DEFINE j == [job[t] EXCEPT !.at = "refresh", !.force = FALSE]
  <2>1. j \in Jobs /\ j.at = "refresh" /\ j.on = job[t].on
    BY <1>2 DEF Jobs
  <2>2. job' = [job EXCEPT ![t] = j]
    BY <1>5
  <2> HIDE DEF j
  <2> QED BY <1>1, <1>3, <1>5, <2>1, <2>2, NextStepKeeps
<1> QED BY <1>4, <1>5 DEF Check, LeavesAsItIs

LEMMA BeginsKeeps ==
  ASSUME SourcesInv, NEW t \in Threads, Begins(t)
  PROVE  SourcesInv'
<1> DEFINE o == job[t].on
<1>1. UNCHANGED <<kind, settings, import, registered, mutex_, requests>> /\ job[t].at = "refresh"
  BY DEF Begins
<1>2. job[t] \in Jobs /\ o \in Objects /\ plugin[o] \in Plugins /\ plugin[o].life \in {"alive", "dying"}
  BY <1>1, UsedIsThere, TypesAre DEF SourcesInv
<1>3. aborted' \in BOOLEAN
  BY DEF Begins, SourcesInv, TypeOK
<1>4. CASE LeavesAsItIs(t)
  <2>1. plugin[o].list \in SUBSET Addresses
    BY <1>2 DEF Plugins
  <2> QED BY <1>1, <1>3, <1>4, <2>1, LeavesKeeps DEF LeavesAsItIs
<1>5. CASE job' = [job EXCEPT ![t].at = "fetch", ![t].left = UrlOf(o)] /\ UNCHANGED plugin
  <2> DEFINE j == [job[t] EXCEPT !.at = "fetch", !.left = UrlOf(o)]
  <2>1. UrlOf(o) \in SUBSET Addresses
    BY <1>2, UrlOfTypes
  <2>2. j \in Jobs /\ j.at = "fetch" /\ j.on = job[t].on
    BY <1>2, <2>1 DEF Jobs
  <2>3. job' = [job EXCEPT ![t] = j]
    BY <1>5
  <2> HIDE DEF j
  <2> QED BY <1>1, <1>3, <1>5, <2>2, <2>3, NextStepKeeps
<1> QED BY <1>4, <1>5 DEF Begins

LEMMA FetchKeeps ==
  ASSUME SourcesInv, NEW t \in Threads, Fetch(t)
  PROVE  SourcesInv'
<1>1. UNCHANGED <<kind, settings, import, registered, mutex_, aborted, requests>> /\ job[t].at = "fetch"
  BY DEF Fetch
<1>2. job[t] \in Jobs /\ job[t].on \in Objects /\ plugin[job[t].on] \in Plugins
  BY <1>1, UsedIsThere, TypesAre DEF SourcesInv
<1>3. job[t].left \in SUBSET Addresses /\ job[t].got \in SUBSET Addresses /\ plugin[job[t].on].list \in SUBSET Addresses
  BY <1>2 DEF Jobs, Plugins
<1>4. aborted' \in BOOLEAN
  BY <1>1 DEF SourcesInv, TypeOK
<1>5. ASSUME NEW list \in SUBSET Addresses, Leaves(t, list) PROVE SourcesInv'
  BY <1>1, <1>4, <1>5, LeavesKeeps
<1>6. CASE FetchEach(t)
  <2>1. PICK a \in job[t].left : \E got \in Downloaded(a) :
          IF job[t].left = {a}
          THEN Leaves(t, job[t].got \cup got)
          ELSE job' = [job EXCEPT ![t].got = @ \cup got, ![t].left = @ \ {a}] /\ UNCHANGED plugin
    BY <1>6 DEF FetchEach
  <2>2. PICK got \in Downloaded(a) :
          IF job[t].left = {a}
          THEN Leaves(t, job[t].got \cup got)
          ELSE job' = [job EXCEPT ![t].got = @ \cup got, ![t].left = @ \ {a}] /\ UNCHANGED plugin
    BY <2>1
  <2>3. got \in SUBSET Addresses /\ job[t].got \cup got \in SUBSET Addresses
    BY <1>3, <2>1, <2>2 DEF Downloaded
  <2>4. CASE job[t].left = {a}
    BY <1>5, <2>2, <2>3, <2>4
  <2>5. CASE job[t].left # {a}
    <3> DEFINE j == [job[t] EXCEPT !.got = @ \cup got, !.left = @ \ {a}]
    <3>1. j \in Jobs /\ j.at = "fetch" /\ j.on = job[t].on
      BY <1>1, <1>2, <2>3 DEF Jobs
    <3>2. job' = [job EXCEPT ![t] = j] /\ UNCHANGED plugin
      BY <2>2, <2>5
    <3> HIDE DEF j
    <3> QED BY <1>1, <1>4, <3>1, <3>2, NextStepKeeps
  <2> QED BY <2>4, <2>5
<1>7. CASE FetchNewEra(t) \/ FetchAcePL(t) \/ FetchAf1c1onados(t) \/ FetchFails(t)
  <2>1. \E list \in SUBSET Addresses : Leaves(t, list)
    BY <1>3, <1>7 DEF FetchNewEra, FetchAcePL, FetchAf1c1onados, FetchFails, LeavesAsItIs
  <2> QED BY <1>5, <2>1
<1> QED BY <1>6, <1>7 DEF Fetch, FetchElcano, FetchCustom

LEMMA ReadsKeeps ==
  ASSUME SourcesInv, NEW t \in Threads, Reads(t)
  PROVE  SourcesInv'
<1>1. job[t].at = "read" /\ UNCHANGED <<kind, settings, import, registered, mutex_, aborted, requests>>
  BY DEF Reads
<1>2. plugin[job[t].on] \in Plugins
  BY <1>1, UsedIsThere, TypesAre DEF SourcesInv
<1>3. plugin[job[t].on].list \in SUBSET Addresses /\ aborted' \in BOOLEAN
  BY <1>1, <1>2 DEF Plugins, SourcesInv, TypeOK
<1> QED BY <1>1, <1>3, LeavesKeeps DEF Reads, LeavesAsItIs

\* The updater, and requests that ask for a list.
LEMMA UpdaterKeeps ==
  ASSUME SourcesInv, NEW o \in Objects, UpdaterWakes(o) \/ UpdaterEnds(o)
  PROVE  SourcesInv'
<1>1. /\ UNCHANGED <<kind, settings, import, registered, mutex_, plugin, aborted, requests>>
      /\ job[o].at = "idle" /\ plugin[o].life \in {"alive", "dying"} /\ job \in [Threads -> Jobs]
      /\ plugin \in [Objects -> Plugins] /\ o \in Threads /\ job[o] \in Jobs /\ aborted' \in BOOLEAN
  BY TypesAre DEF UpdaterWakes, UpdaterEnds, SourcesInv, Threads
<1>2. PICK j \in Jobs : job' = [job EXCEPT ![o] = j] /\ (j.at = "ended" \/ (j.at = "check" /\ j.on = o))
  <2>1. CASE UpdaterWakes(o)
    <3>1. [Idle EXCEPT !.at = "check", !.on = o] \in Jobs
      BY IdleIsJob DEF Idle, Jobs
    <3> QED BY <2>1, <3>1 DEF UpdaterWakes, Idle
  <2>2. CASE UpdaterEnds(o)
    <3>1. [job[o] EXCEPT !.at = "ended"] \in Jobs /\ [job[o] EXCEPT !.at = "ended"].at = "ended"
      BY <1>1 DEF Jobs
    <3>2. job' = [job EXCEPT ![o] = [job[o] EXCEPT !.at = "ended"]]
      BY <2>2 DEF UpdaterEnds
    <3> QED BY <3>1, <3>2
  <2> QED BY <2>1, <2>2
<1>3. job' \in [Threads -> Jobs] /\ job'[o] = j /\ \A u \in Threads \ {o} : job'[u] = job[u]
  BY <1>1, <1>2
<1>4. Occupied'
  BY <1>1, <1>2, <1>3, Disjoint DEF SourcesInv, Occupied, ImportPlaces, import, Others, Threads
<1> QED BY <1>1, <1>2, <1>3, <1>4, Disjoint, JobKeeps

LEMMA AsksKeeps ==
  ASSUME SourcesInv, NEW w \in Workers, NEW at \in {"check", "read"}, Asks(w, at)
  PROVE  SourcesInv'
<1> DEFINE j == [Idle EXCEPT !.at = at, !.on = registered]
<1>1. /\ UNCHANGED <<kind, settings, import, registered, mutex_, plugin, aborted, requests>>
      /\ job[w].at = "idle" /\ registered # NoObject /\ job' = [job EXCEPT ![w] = j]
  BY DEF Asks
<1>2. /\ registered \in Objects /\ job \in [Threads -> Jobs] /\ plugin \in [Objects -> Plugins] /\ w \in Threads
      /\ aborted' \in BOOLEAN
  BY <1>1, TypesAre DEF SourcesInv, Threads
<1>3. j \in Jobs /\ j.at = at /\ j.on = registered
  BY <1>2, IdleIsJob DEF Idle, Jobs
<1> HIDE DEF j
<1>4. job' \in [Threads -> Jobs] /\ job'[w] = j /\ \A u \in Threads \ {w} : job'[u] = job[u]
  BY <1>1, <1>2, <1>3
<1>5. Occupied'
  BY <1>1, <1>2, <1>3, <1>4, Disjoint, SourcesAssumption DEF SourcesInv, Occupied, ImportPlaces, import, Others, Threads
<1>6. plugin[registered].life = "alive"
  BY <1>1 DEF SourcesInv, InUseIsAlive
<1>7. w \notin Objects
  BY Disjoint DEF Others
<1> QED BY <1>1, <1>2, <1>3, <1>4, <1>5, <1>6, <1>7, JobKeeps

-------------------------------------------------------------------------------
(* Changes of the settings.                                                 *)

\* An import changes what it is going to leave behind, too.
ImportedOK ==
  /\ plugins_state_mutex_ \in Admins \cup {Nobody}
  /\ imported \in [entry : Entries, flag : BOOLEAN, urls : Urls \cup {NoUrl}]
  /\ imported.entry = NoEntry \/ imported.entry.url \in Urls

LEMMA ImportedStays ==
  ASSUME SourcesInv, UNCHANGED <<kind, import>>
  PROVE  ImportedOK'
BY DEF SourcesInv, TypeOK, Addressed, ImportedOK, import, Entries, Urls

LEMMA UrlChanges ==
  ASSUME SourcesInv, NEW u \in Urls, ChangeUrl(u), UNCHANGED kind, ImportedOK', requests' \in 0..MaxRequests[kind]
  PROVE  SettingsOK'
<1>1. CASE Listed
  <2>1. entry' \in Entries' /\ entry'.url = u
    BY <1>1 DEF ChangeUrl, SourcesInv, TypeOK, Entries, Urls
  <2> QED BY <1>1, <2>1 DEF ChangeUrl, SettingsOK, ImportedOK, SourcesInv, TypeOK, Addressed, Entries, Urls
<1>2. CASE ~Listed
  BY <1>2 DEF ChangeUrl, SettingsOK, ImportedOK, SourcesInv, TypeOK, Addressed, Entries, Urls
<1> QED BY <1>1, <1>2

LEMMA EnabledChanges ==
  ASSUME SourcesInv, NEW on \in BOOLEAN, ChangeEnabled(on), UNCHANGED kind, ImportedOK', requests' \in 0..MaxRequests[kind]
  PROVE  SettingsOK'
<1>1. CASE Listed
  <2>1. entry' \in Entries' /\ entry'.url = entry.url
    BY <1>1 DEF ChangeEnabled, SourcesInv, TypeOK, Entries, Urls
  <2> QED BY <1>1, <2>1 DEF ChangeEnabled, SettingsOK, ImportedOK, SourcesInv, TypeOK, Addressed, Listed, Entries, Urls
<1>2. CASE ~Listed
  BY <1>2 DEF ChangeEnabled, SettingsOK, ImportedOK, SourcesInv, TypeOK, Addressed, Entries, Urls
<1> QED BY <1>1, <1>2

\* An administrator goes on, by himself or handing a plugin to a worker.
LEMMA AdminKeeps ==
  ASSUME SourcesInv, NEW a \in Admins, NEW next \in Jobs,
         next.at \in {"idle", "tell", "told", "enable", "disable", "add", "register", "hand", "clear", "erase",
                      "import", "store"},
         next.at \in {"idle", "enable", "disable", "add", "clear", "erase", "import", "store"} => next.on = NoObject,
         next.at \in {"told", "register", "hand"} => next.on # NoObject,
         plugins_state_mutex_' = a => next.at \in ImportPlaces,
         plugins_state_mutex_' \in {plugins_state_mutex_, a, Nobody},
         next.at = "add" => next.url \in Urls,
         next.on # NoObject => plugin[next.on].life = "alive",
         \/ job' = [job EXCEPT ![a] = next]
         \/ \E w \in Workers, o \in Objects, force \in BOOLEAN : Starts(a, w, o, force, next) /\ plugin[o].life = "alive",
         UNCHANGED <<kind, registered, mutex_>>, aborted' \in BOOLEAN, SettingsOK',
         plugin' \in [Objects -> Plugins],
         \A o \in Objects : plugin'[o].life = plugin[o].life /\ plugin'[o].url = plugin[o].url
  PROVE  SourcesInv'
<1>1. /\ job \in [Threads -> Jobs] /\ a \in Threads /\ a \notin Objects /\ a \notin Workers
      /\ Workers \subseteq Threads /\ \A w \in Workers : w \notin Objects
  BY TypesAre, Disjoint DEF SourcesInv, Threads, Others
<1>2. CASE job' = [job EXCEPT ![a] = next]
  <2>1. job' \in [Threads -> Jobs] /\ job'[a] = next /\ \A t \in Threads \ {a} : job'[t] = job[t]
    BY <1>1, <1>2
  <2>2. Occupied'
    BY <1>1, <2>1, Disjoint, SourcesAssumption DEF SourcesInv, Occupied, ImportPlaces, Others, Threads
  <2> QED BY <1>1, <2>1, <2>2, ChangeKeeps
<1>3. ASSUME NEW w \in Workers, NEW o \in Objects, NEW force \in BOOLEAN, Starts(a, w, o, force, next),
             plugin[o].life = "alive"
      PROVE  SourcesInv'
  <2> DEFINE j == [Idle EXCEPT !.at = "check", !.on = o, !.force = force]
  <2>1. j \in Jobs /\ j.at = "check" /\ j.on = o
    BY IdleIsJob DEF Idle, Jobs
  <2>2. job' = [job EXCEPT ![w] = j, ![a] = next]
    BY <1>3 DEF Starts
  <2> HIDE DEF j
  <2>3. /\ job' \in [Threads -> Jobs] /\ job'[a] = next /\ job'[w] = j
        /\ \A t \in Threads \ {a, w} : job'[t] = job[t]
    BY <1>1, <2>1, <2>2
  <2>4. Occupied'
    BY <1>1, <2>1, <2>3, Disjoint, SourcesAssumption DEF SourcesInv, Occupied, ImportPlaces, Others, Threads
  <2> QED BY <1>1, <1>3, <2>1, <2>3, <2>4, ChangeKeeps
<1> QED BY <1>2, <1>3

\* What an administrator has at hand.
LEMMA AdminHas ==
  ASSUME SourcesInv, NEW a \in Admins
  PROVE  /\ job[a] \in Jobs /\ job \in [Threads -> Jobs] /\ plugin \in [Objects -> Plugins] /\ a \in Threads
         /\ registered \in Objects \cup {NoObject}
         /\ registered # NoObject => registered \in Objects /\ plugin[registered].life = "alive"
         /\ job[a].at \in {"idle", "enable", "disable", "add", "clear", "erase", "import", "store"} =>
              job[a].on = NoObject
         /\ job[a].at \in {"joins", "told", "register", "hand"} => job[a].on # NoObject
         /\ plugins_state_mutex_ = a => job[a].at \in ImportPlaces
         /\ job[a].on # NoObject => job[a].on \in Objects
         /\ job[a].on # NoObject /\ job[a].at # "joins" => plugin[job[a].on].life = "alive"
         /\ job[a].at = "add" => job[a].url \in Urls
<1>1. job[a] \in Jobs /\ job \in [Threads -> Jobs] /\ plugin \in [Objects -> Plugins] /\ a \in Threads
      /\ registered \in Objects \cup {NoObject}
  BY TypesAre DEF SourcesInv, Threads
<1>2. job[a].on \in Objects \cup {NoObject}
  BY <1>1 DEF Jobs
<1> QED BY <1>1, <1>2, Disjoint DEF SourcesInv, InUseIsAlive, Occupied, Addressed, Others

LEMMA RequestKeeps ==
  ASSUME SourcesInv, NEW a \in Admins, Change(a)
  PROVE  SourcesInv'
<1>1. /\ job[a].at = "idle" /\ job[a].on = NoObject /\ UNCHANGED <<kind, registered, mutex_, plugin, aborted>>
      /\ requests' \in 0..MaxRequests[kind] /\ job[a] \in Jobs
      /\ ImportSources(a) \/ UNCHANGED import
  BY AdminHas, SourcesAssumption DEF Change, DeleteCustomList, SetEnabled, SetUrl, SaveCustomList, ImportSources,
     Requested, SourcesInv, TypeOK
<1>2. aborted' \in BOOLEAN /\ plugin' \in [Objects -> Plugins] /\ plugin' = plugin
  BY <1>1, TypesAre DEF SourcesInv
<1>3. SettingsOK'
  <2>1. CASE DeleteCustomList(a)
    <3>1. ImportedOK'
      BY <1>1, <2>1, ImportedStays DEF DeleteCustomList
    <3> QED BY <1>1, <2>1, <3>1 DEF DeleteCustomList, SettingsOK, ImportedOK, NoEntry, SourcesInv, TypeOK, Entries, Urls
  <2>2. ASSUME NEW on \in BOOLEAN, SetEnabled(a, on) PROVE SettingsOK'
    BY <1>1, <2>2, EnabledChanges, ImportedStays DEF SetEnabled
  <2>3. ASSUME NEW u \in Urls, SetUrl(a, u) PROVE SettingsOK'
    BY <1>1, <2>3, UrlChanges, ImportedStays DEF SetUrl
  <2>4. ASSUME NEW u \in Urls, NEW on \in BOOLEAN, SaveCustomList(a, u, on) PROVE SettingsOK'
    <3>1. ImportedOK'
      BY <1>1, <2>4, ImportedStays DEF SaveCustomList
    <3> QED BY <1>1, <2>4, <3>1 DEF SaveCustomList, SettingsOK, ImportedOK, SourcesInv, TypeOK, Entries, Urls
  <2>5. CASE ImportSources(a)
    <3>1. PICK kept \in {entry, NoEntry} : imported' = [entry |-> kept, flag |-> flag, urls |-> urls]
      BY <2>5 DEF ImportSources
    <3>2. UNCHANGED settings /\ plugins_state_mutex_' = a
      BY <2>5 DEF ImportSources
    <3>3. kept \in Entries /\ (kept = NoEntry \/ kept.url \in Urls) /\ flag \in BOOLEAN /\ urls \in Urls \cup {NoUrl}
      BY IdleIsJob DEF SourcesInv, TypeOK, Addressed
    <3> QED BY <1>1, <3>1, <3>2, <3>3 DEF SettingsOK, SourcesInv, TypeOK, Addressed, settings, Entries, Urls
  <2> QED BY <2>1, <2>2, <2>3, <2>4, <2>5 DEF Change
<1>4. PICK next \in Jobs :
        /\ job' = [job EXCEPT ![a] = next] /\ next.on = NoObject
        /\ next.at \in {"tell", "enable", "disable", "add", "clear", "import"}
        /\ (next.at = "add" => next.url \in Urls) /\ (ImportSources(a) => next.at = "import")
  <2>0. CASE ImportSources(a)
    <3> DEFINE j == [job[a] EXCEPT !.at = "import"]
    <3>1. j \in Jobs /\ j.on = NoObject /\ j.at = "import" /\ job' = [job EXCEPT ![a] = j]
      BY <1>1, <2>0 DEF ImportSources, Jobs
    <3> HIDE DEF j
    <3> QED BY <3>1
  <2> SUFFICES ASSUME ~ImportSources(a)
               PROVE  \E next \in Jobs :
                 /\ job' = [job EXCEPT ![a] = next] /\ next.on = NoObject
                 /\ next.at \in {"tell", "enable", "disable", "add", "clear", "import"}
                 /\ (next.at = "add" => next.url \in Urls)
    BY <2>0
  <2>1. \A at \in {"tell", "enable", "disable", "clear", "import"} :
          LET j == [job[a] EXCEPT !.at = at] IN j \in Jobs /\ j.on = NoObject /\ j.at = at
    BY <1>1 DEF Jobs
  <2>2. \A u \in Urls :
          LET j == [job[a] EXCEPT !.at = "add", !.url = u] IN j \in Jobs /\ j.on = NoObject /\ j.at = "add" /\ j.url = u
    BY <1>1 DEF Jobs
  <2>3. CASE DeleteCustomList(a)
    <3>1. job' = [job EXCEPT ![a] = [job[a] EXCEPT !.at = "clear"]]
      BY <2>3 DEF DeleteCustomList
    <3> QED BY <2>1, <3>1
  <2>4. ASSUME NEW on \in BOOLEAN, SetEnabled(a, on)
        PROVE  \E at \in {"enable", "disable"} : job' = [job EXCEPT ![a] = [job[a] EXCEPT !.at = at]]
    BY <2>4 DEF SetEnabled
  <2>5. ASSUME NEW u \in Urls, SetUrl(a, u)
        PROVE  job' = [job EXCEPT ![a] = [job[a] EXCEPT !.at = "tell"]]
    BY <2>5 DEF SetUrl
  <2>6. ASSUME NEW u \in Urls, NEW on \in BOOLEAN, SaveCustomList(a, u, on)
        PROVE  job' = [job EXCEPT ![a] = [job[a] EXCEPT !.at = "add", !.url = u]]
    BY <2>6 DEF SaveCustomList
  <2>7. \/ \E at \in {"tell", "enable", "disable", "clear", "import"} : job' = [job EXCEPT ![a] = [job[a] EXCEPT !.at = at]]
        \/ \E u \in Urls : job' = [job EXCEPT ![a] = [job[a] EXCEPT !.at = "add", !.url = u]]
    BY <2>3, <2>4, <2>5, <2>6 DEF Change, DeleteCustomList
  <2>8. CASE \E at \in {"tell", "enable", "disable", "clear", "import"} : job' = [job EXCEPT ![a] = [job[a] EXCEPT !.at = at]]
    <3>1. PICK at \in {"tell", "enable", "disable", "clear", "import"} : job' = [job EXCEPT ![a] = [job[a] EXCEPT !.at = at]]
      BY <2>8
    <3> DEFINE j == [job[a] EXCEPT !.at = at]
    <3>2. j \in Jobs /\ j.on = NoObject /\ j.at = at /\ job' = [job EXCEPT ![a] = j]
      BY <2>1, <3>1
    <3> HIDE DEF j
    <3> QED BY <3>2
  <2>9. CASE \E u \in Urls : job' = [job EXCEPT ![a] = [job[a] EXCEPT !.at = "add", !.url = u]]
    <3>1. PICK u \in Urls : job' = [job EXCEPT ![a] = [job[a] EXCEPT !.at = "add", !.url = u]]
      BY <2>9
    <3> DEFINE j == [job[a] EXCEPT !.at = "add", !.url = u]
    <3>2. j \in Jobs /\ j.on = NoObject /\ j.at = "add" /\ j.url = u /\ job' = [job EXCEPT ![a] = j]
      BY <2>2, <3>1
    <3> HIDE DEF j
    <3> QED BY <3>2
  <2> QED BY <2>7, <2>8, <2>9
<1>5. plugins_state_mutex_' = a => next.at \in ImportPlaces
  BY <1>1, <1>4, AdminHas DEF import, ImportPlaces
<1>6. plugins_state_mutex_' \in {plugins_state_mutex_, a}
  BY <1>1 DEF import, ImportSources
<1> QED BY <1>1, <1>2, <1>3, <1>4, <1>5, <1>6, AdminKeeps

LEMMA ClearsKeeps ==
  ASSUME SourcesInv, IF registered # NoObject THEN Clears(registered) ELSE UNCHANGED plugin
  PROVE  /\ plugin' \in [Objects -> Plugins]
         /\ \A o \in Objects : plugin'[o].life = plugin[o].life /\ plugin'[o].url = plugin[o].url
<1>1. plugin \in [Objects -> Plugins] /\ (registered # NoObject => registered \in Objects)
  BY TypesAre DEF SourcesInv
<1>2. CASE registered # NoObject
  <2>1. [plugin[registered] EXCEPT !.list = {}] \in Plugins
    BY <1>1, <1>2 DEF Plugins
  <2> QED BY <1>1, <1>2, <2>1 DEF Clears, Plugins
<1>3. CASE registered = NoObject
  BY <1>1, <1>3
<1> QED BY <1>2, <1>3

\* A plugin at hand is given to a worker, or left.
LEMMA HandsOverKeeps ==
  ASSUME SourcesInv, NEW a \in Admins, job[a].at \in {"told", "hand"}, HandsOver(a),
         UNCHANGED <<kind, settings, import, registered, mutex_, aborted, requests>>
  PROVE  SourcesInv'
<1>1. aborted' \in BOOLEAN /\ SettingsOK' /\ plugins_state_mutex_' = plugins_state_mutex_
  BY SettingsStay DEF SourcesInv, TypeOK, import
<1>2. /\ job[a].on # NoObject /\ job[a].on \in Objects /\ plugin[job[a].on].life = "alive" /\ a \in Threads
      /\ plugin \in [Objects -> Plugins]
  BY AdminHas
<1>3. ASSUME NEW w \in Workers, Starts(a, w, job[a].on, TRUE, Done(a)), UNCHANGED plugin
      PROVE  SourcesInv'
  <2> DEFINE next == Done(a)
  <2>1. /\ next \in Jobs /\ next.on = NoObject /\ next.at \in {"idle", "store"}
        /\ plugins_state_mutex_ = a => next.at = "store"
    BY DoneIs
  <2>2. Starts(a, w, job[a].on, TRUE, next)
    BY <1>3
  <2> HIDE DEF next
  <2>3. plugins_state_mutex_' = a => next.at \in ImportPlaces
    BY <1>1, <2>1 DEF ImportPlaces
  <2> QED BY <1>1, <1>2, <1>3, <2>1, <2>2, <2>3, AdminKeeps
<1>4. CASE LeavesAsItIs(a)
  <2>1. plugin[job[a].on].list \in SUBSET Addresses
    BY <1>2 DEF Plugins
  <2> QED BY <1>1, <1>2, <1>4, <2>1, LeavesKeeps DEF LeavesAsItIs
<1> QED BY <1>3, <1>4 DEF HandsOver

\* Steps after the change that leave the registry alone.
LEMMA ToldKeeps ==
  ASSUME SourcesInv, NEW a \in Admins,
         Tell(a) \/ Told(a) \/ TellHeld(a) \/ Enable(a) \/ Disable(a) \/ Hand(a) \/ Clear(a)
  PROVE  SourcesInv'
<1>1. UNCHANGED <<kind, settings, import, registered, mutex_, aborted, requests>>
  BY DEF Tell, Told, TellHeld, Enable, Disable, Hand, Clear
<1>2. aborted' \in BOOLEAN /\ SettingsOK' /\ plugins_state_mutex_' = plugins_state_mutex_
  BY <1>1, SettingsStay DEF SourcesInv, TypeOK, import
<1>3. Idle \in Jobs /\ Idle.at = "idle" /\ Idle.on = NoObject
  BY IdleIsJob DEF Idle
<1>4. job[a].at \in {"enable", "disable", "clear"} => plugins_state_mutex_ # a
  BY AdminHas DEF ImportPlaces
<1>5. CASE Disable(a)
  <2>1. plugins_state_mutex_' # a
    BY <1>2, <1>4, <1>5 DEF Disable
  <2> QED BY <1>1, <1>2, <1>3, <1>5, <2>1, AdminKeeps, ClearsKeeps DEF Disable
<1>6. CASE Clear(a)
  <2> DEFINE j == [job[a] EXCEPT !.at = "erase"]
  <2>1. j \in Jobs /\ j.at = "erase" /\ j.on = NoObject /\ job' = [job EXCEPT ![a] = j]
    BY <1>6, AdminHas DEF Clear, Jobs
  <2> HIDE DEF j
  <2>2. plugins_state_mutex_' # a
    BY <1>2, <1>4, <1>6 DEF Clear
  <2> QED BY <1>1, <1>2, <1>6, <2>1, <2>2, AdminKeeps, ClearsKeeps DEF Clear
<1>7. CASE Enable(a)
  <2>1. plugins_state_mutex_' # a
    BY <1>2, <1>4, <1>7 DEF Enable
  <2>2. plugin' = plugin /\ plugin \in [Objects -> Plugins]
    BY <1>7, AdminHas DEF Enable
  <2>3. \/ job' = [job EXCEPT ![a] = Idle]
        \/ \E w \in Workers, o \in Objects, force \in BOOLEAN : Starts(a, w, o, force, Idle) /\ plugin[o].life = "alive"
    BY <1>7, AdminHas DEF Enable
  <2> QED BY <1>1, <1>2, <1>3, <2>1, <2>2, <2>3, AdminKeeps
<1>8. CASE Tell(a)
  <2> DEFINE next == IF registered = NoObject THEN Done(a) ELSE [Idle EXCEPT !.at = "told", !.on = registered]
  <2>1. /\ next \in Jobs
        /\ \/ next.at \in {"idle", "store"} /\ next.on = NoObject /\ (plugins_state_mutex_ = a => next.at = "store")
           \/ next.at = "told" /\ next.on = registered /\ registered # NoObject
    <3>1. CASE registered = NoObject
      BY <3>1, DoneIs
    <3>2. CASE registered # NoObject
      BY <3>2, <1>3, AdminHas DEF Jobs, Idle
    <3> QED BY <3>1, <3>2
  <2>2. job' = [job EXCEPT ![a] = next] /\ plugin' = plugin /\ plugin \in [Objects -> Plugins]
    BY <1>8, AdminHas DEF Tell
  <2> HIDE DEF next
  <2>3. plugins_state_mutex_' = a => next.at \in ImportPlaces
    BY <1>2, <2>1 DEF ImportPlaces
  <2>4. next.on # NoObject => plugin[next.on].life = "alive"
    BY <2>1, AdminHas
  <2> QED BY <1>1, <1>2, <2>1, <2>2, <2>3, <2>4, AdminKeeps
<1>9. CASE Told(a)
  <2>1. job[a].at = "told" /\ job[a].on \in Objects /\ plugin[job[a].on] \in Plugins
    BY <1>9, AdminHas DEF Told
  <2>2. plugin[job[a].on].list \in SUBSET Addresses /\ a \in Threads
    BY <2>1, AdminHas DEF Plugins
  <2> QED BY <1>1, <1>2, <1>9, <2>1, <2>2, HandsOverKeeps, LeavesKeeps DEF Told, LeavesAsItIs
<1>10. CASE Hand(a)
  BY <1>1, <1>10, HandsOverKeeps DEF Hand
<1>11. CASE TellHeld(a)
  <2> DEFINE next == [job[a] EXCEPT !.at = "hand"]
  <2>1. next \in Jobs /\ next.at = "hand" /\ next.on = job[a].on /\ job[a].on # NoObject
    BY <1>11, AdminHas DEF TellHeld, Jobs
  <2>2. \/ job' = [job EXCEPT ![a] = next]
        \/ \E w \in Workers : registered # NoObject /\ Starts(a, w, registered, TRUE, next)
    BY <1>11 DEF TellHeld
  <2> HIDE DEF next
  <2>3. plugin' = plugin /\ plugin \in [Objects -> Plugins] /\ plugin[next.on].life = "alive"
    BY <1>11, <2>1, AdminHas DEF TellHeld
  <2>4. plugins_state_mutex_' = a => next.at \in ImportPlaces
    BY <2>1 DEF ImportPlaces
  <2>5. \/ job' = [job EXCEPT ![a] = next]
        \/ \E w \in Workers, o \in Objects, force \in BOOLEAN : Starts(a, w, o, force, next) /\ plugin[o].life = "alive"
    BY <2>2, AdminHas
  <2> QED BY <1>1, <1>2, <2>1, <2>3, <2>4, <2>5, AdminKeeps
<1> QED BY <1>5, <1>6, <1>7, <1>8, <1>9, <1>10, <1>11

\* An import puts down what a document says, and leaves it behind in the end.
LEMMA ImportsKeep ==
  ASSUME SourcesInv, NEW a \in Admins, Imports(a) \/ ImportEnds(a)
  PROVE  SourcesInv'
<1>1. /\ UNCHANGED <<kind, registered, mutex_, plugin, aborted, requests>>
      /\ job[a].at \in {"import", "store"} /\ job[a].on = NoObject /\ job[a] \in Jobs
      /\ plugin' = plugin /\ plugin \in [Objects -> Plugins]
  BY AdminHas DEF Imports, ImportEnds
<1>2. aborted' \in BOOLEAN /\ requests' \in 0..MaxRequests[kind]
  BY <1>1 DEF SourcesInv, TypeOK
<1>3. /\ imported \in [entry : Entries, flag : BOOLEAN, urls : Urls \cup {NoUrl}]
      /\ imported.entry = NoEntry \/ imported.entry.url \in Urls
      /\ plugins_state_mutex_ \in Admins \cup {Nobody}
  BY DEF SourcesInv, TypeOK, Addressed
<1>4. ASSUME NEW next \in Jobs, job' = [job EXCEPT ![a] = next], next.on = NoObject,
             next.at \in {"store", "tell", "add"}, next.at = "add" => next.url \in Urls,
             UNCHANGED plugins_state_mutex_, SettingsOK'
      PROVE  SourcesInv'
  <2>1. plugins_state_mutex_' = a => next.at \in ImportPlaces
    BY <1>4 DEF ImportPlaces
  <2> QED BY <1>1, <1>2, <1>4, <2>1, AdminKeeps
<1>5. \A at \in {"store", "tell"} :
        LET j == [job[a] EXCEPT !.at = at] IN j \in Jobs /\ j.on = NoObject /\ j.at = at
  BY <1>1 DEF Jobs
<1>6. ASSUME NEW on \in BOOLEAN, imported' = [imported EXCEPT !.flag = on],
             job' = [job EXCEPT ![a].at = "store"], UNCHANGED <<kind, settings, plugins_state_mutex_>>
      PROVE  SourcesInv'
  <2>1. SettingsOK'
    BY <1>2, <1>3, <1>6 DEF SettingsOK, SourcesInv, TypeOK, Addressed, settings, Entries, Urls
  <2> DEFINE j == [job[a] EXCEPT !.at = "store"]
  <2>2. j \in Jobs /\ j.on = NoObject /\ j.at = "store" /\ job' = [job EXCEPT ![a] = j]
    BY <1>5, <1>6
  <2> HIDE DEF j
  <2> QED BY <1>4, <1>6, <2>1, <2>2
<1>7. ASSUME NEW u \in Urls, imported' = [imported EXCEPT !.urls = u], ChangeUrl(u),
             job' = [job EXCEPT ![a].at = "tell"], UNCHANGED <<kind, plugins_state_mutex_>>
      PROVE  SourcesInv'
  <2>1. ImportedOK'
    BY <1>3, <1>7 DEF ImportedOK, Entries, Urls
  <2>2. SettingsOK'
    BY <1>2, <1>7, <2>1, UrlChanges
  <2> DEFINE j == [job[a] EXCEPT !.at = "tell"]
  <2>3. j \in Jobs /\ j.on = NoObject /\ j.at = "tell" /\ job' = [job EXCEPT ![a] = j]
    BY <1>5, <1>7
  <2> HIDE DEF j
  <2> QED BY <1>4, <1>7, <2>2, <2>3
<1>8. ASSUME NEW u \in Urls, NEW on \in BOOLEAN, imported' = [imported EXCEPT !.entry = [enabled |-> on, url |-> u]],
             job' = [job EXCEPT ![a].at = "add", ![a].url = u], UNCHANGED <<kind, settings, plugins_state_mutex_>>
      PROVE  SourcesInv'
  <2>1. [enabled |-> on, url |-> u] \in Entries /\ [enabled |-> on, url |-> u].url = u
    BY DEF Entries
  <2>2. SettingsOK'
    BY <1>2, <1>3, <1>8, <2>1 DEF SettingsOK, SourcesInv, TypeOK, Addressed, settings, Entries, Urls
  <2> DEFINE j == [job[a] EXCEPT !.at = "add", !.url = u]
  <2>3. j \in Jobs /\ j.on = NoObject /\ j.at = "add" /\ j.url = u /\ job' = [job EXCEPT ![a] = j]
    BY <1>1, <1>8 DEF Jobs
  <2> HIDE DEF j
  <2> QED BY <1>4, <1>8, <2>2, <2>3
<1>9. CASE ImportEnds(a)
  <2>1. Nothing \in [entry : Entries, flag : BOOLEAN, urls : Urls \cup {NoUrl}] /\ Nothing.entry = NoEntry
    BY IdleIsJob DEF Nothing
  <2>2. SettingsOK'
    BY <1>1, <1>2, <1>3, <1>9, <2>1 DEF ImportEnds, SettingsOK, Entries, Urls
  <2>3. plugins_state_mutex_' = Nobody /\ Nobody # a
    BY <1>9, SourcesAssumption DEF ImportEnds
  <2>4. Idle \in Jobs /\ Idle.on = NoObject /\ Idle.at = "idle" /\ job' = [job EXCEPT ![a] = Idle]
    BY <1>9, IdleIsJob DEF ImportEnds, Idle
  <2> QED BY <1>1, <1>2, <2>2, <2>3, <2>4, AdminKeeps
<1> QED BY <1>6, <1>7, <1>8, <1>9 DEF Imports

LEMMA AddKeeps ==
  ASSUME SourcesInv, NEW a \in Admins, Add(a)
  PROVE  SourcesInv'
<1>1. UNCHANGED <<kind, import, registered, mutex_, aborted, requests>> /\ job[a].at = "add" /\ job[a].on = NoObject
      /\ job[a].url \in Urls /\ job[a] \in Jobs
  BY AdminHas DEF Add
<1>2. aborted' \in BOOLEAN /\ requests' \in 0..MaxRequests[kind]
  BY <1>1 DEF SourcesInv, TypeOK
<1>3. CASE /\ registered # NoObject /\ ChangeUrl(job[a].url)
           /\ job' = [job EXCEPT ![a] = [Idle EXCEPT !.at = "tell", !.on = registered]] /\ UNCHANGED plugin
  <2> DEFINE j == [Idle EXCEPT !.at = "tell", !.on = registered]
  <2>1. j \in Jobs /\ j.at = "tell" /\ j.on = registered /\ job' = [job EXCEPT ![a] = j]
    BY <1>1, <1>3, AdminHas, IdleIsJob DEF Jobs, Idle
  <2> HIDE DEF j
  <2>2. SettingsOK'
    BY <1>1, <1>2, <1>3, UrlChanges, ImportedStays
  <2>3. (plugins_state_mutex_' = a => j.at \in ImportPlaces) /\ plugins_state_mutex_' = plugins_state_mutex_
    BY <1>1, <2>1 DEF ImportPlaces, import
  <2> QED BY <1>1, <1>2, <1>3, <2>1, <2>2, <2>3, AdminHas, AdminKeeps
<1>4. ASSUME NEW o \in Objects, plugin[o].life = "unborn", plugin' = [plugin EXCEPT ![o] = Created(job[a].url)],
             job' = [job EXCEPT ![a] = [Idle EXCEPT !.at = "register", !.on = o]], UNCHANGED settings
      PROVE  SourcesInv'
  <2> DEFINE j == [Idle EXCEPT !.at = "register", !.on = o]
  <2>1. j \in Jobs /\ j.at = "register" /\ j.on = o /\ job' = [job EXCEPT ![a] = j]
    BY <1>1, <1>4, IdleIsJob DEF Jobs, Idle
  <2> HIDE DEF j
  <2>2. job \in [Threads -> Jobs] /\ plugin \in [Objects -> Plugins] /\ a \in Threads
    BY AdminHas
  <2>3. job' \in [Threads -> Jobs] /\ job'[a] = j /\ \A t \in Threads \ {a} : job'[t] = job[t]
    BY <2>1, <2>2
  <2>4. Created(job[a].url) \in Plugins /\ Created(job[a].url).life = "alive" /\ Created(job[a].url).url = job[a].url
    BY <1>1, IdleIsJob DEF Created, Unborn, Plugins
  <2>5. /\ plugin' \in [Objects -> Plugins] /\ plugin'[o].life = "alive" /\ plugin'[o].url = job[a].url
        /\ \A p \in Objects \ {o} : plugin'[p] = plugin[p]
    BY <1>4, <2>2, <2>4
  <2>6. SettingsOK'
    BY <1>1, <1>4, SettingsStay
  <2>7. TypeOK'
    BY <1>1, <1>2, <2>3, <2>5, <2>6 DEF SourcesInv, TypeOK, SettingsOK, Entries, Urls, Jobs, Plugins
  <2>8. Occupied'
    BY <1>1, <2>1, <2>3, Disjoint, SourcesAssumption DEF SourcesInv, Occupied, ImportPlaces, import, Others, Threads
  <2>9. Addressed'
    BY <1>1, <2>1, <2>3, <2>5, <2>6 DEF SourcesInv, Addressed, SettingsOK, Urls, Threads
  <2>10. OneJoins'
    BY <2>1, <2>3, Disjoint DEF SourcesInv, OneJoins, Others, Threads
  <2>11. \A t \in Others : job[t].on # o
    BY <1>4, Disjoint, SourcesAssumption DEF SourcesInv, InUseIsAlive
  <2>12. InUseIsAlive'
    <3>1. registered' # NoObject => plugin'[registered'].life = "alive"
      BY <1>1, <2>5 DEF SourcesInv, TypeOK, InUseIsAlive
    <3>2. ASSUME NEW t \in Others, job'[t].on # NoObject
          PROVE  plugin'[job'[t].on].life = IF job'[t].at = "joins" THEN "dying" ELSE "alive"
      <4>1. job'[t].on \in Objects /\ t \in Threads
        BY <2>3, <3>2, Disjoint DEF Jobs, Others, Threads
      <4> QED BY <2>1, <2>3, <2>5, <2>11, <3>2, <4>1, Disjoint DEF SourcesInv, InUseIsAlive
    <3>3. ASSUME NEW p \in Objects, job'[p].at \notin {"idle", "ended"}
          PROVE  plugin'[p].life \in {"alive", "dying"}
      <4>1. job'[p] = job[p]
        BY <2>3, Disjoint DEF Others, Threads
      <4> QED BY <2>5, <3>3, <4>1 DEF SourcesInv, InUseIsAlive
    <3> QED BY <3>1, <3>2, <3>3, Disjoint DEF InUseIsAlive
  <2> QED BY <2>7, <2>8, <2>9, <2>10, <2>12 DEF SourcesInv
<1> QED BY <1>3, <1>4 DEF Add

-------------------------------------------------------------------------------
(* The registry.                                                            *)

\* A plugin is registered, or the name is erased.
LEMMA RegistersKeeps ==
  ASSUME SourcesInv, NEW a \in Admins, NEW o \in Objects \cup {NoObject}, NEW next \in Jobs,
         o # NoObject => plugin[o].life = "alive" /\ next.on = o /\ job[a].on = o,
         (next.at = "hand" /\ o # NoObject) \/ (next = Idle /\ job[a].at = "erase"), next.on = NoObject \/ next.on = o,
         job[a].at \in {"register", "erase"},
         Registers(a, o, next)
  PROVE  SourcesInv'
<1>1. UNCHANGED <<kind, settings, import, aborted, requests>> /\ registered' = o
  BY DEF Registers
<1>2. /\ job \in [Threads -> Jobs] /\ plugin \in [Objects -> Plugins] /\ a \in Threads
      /\ registered # NoObject => registered \in Objects /\ plugin[registered].life = "alive"
  BY AdminHas
<1>3. SettingsOK'
  BY <1>1, SettingsStay
<1>4. /\ Idle.at = "idle" /\ Idle.on = NoObject
      /\ plugins_state_mutex_' = plugins_state_mutex_ /\ (plugins_state_mutex_ = a => next.at = "hand")
  BY <1>1, AdminHas DEF Idle, import, ImportPlaces
<1>5. CASE registered = NoObject \/ Users(registered) # {}
  <2>1. job' = [job EXCEPT ![a] = next] /\ UNCHANGED <<mutex_, plugin>>
    BY <1>5 DEF Registers
  <2>2. job' \in [Threads -> Jobs] /\ job'[a] = next /\ \A t \in Threads \ {a} : job'[t] = job[t]
    BY <1>2, <2>1
  <2>3. TypeOK'
    BY <1>1, <1>3, <2>1, <2>2 DEF SourcesInv, TypeOK, SettingsOK, Entries, Urls, Jobs
  <2>4. Occupied'
    BY <1>4, <2>2, Disjoint, SourcesAssumption DEF SourcesInv, Occupied, ImportPlaces, import, Others, Threads
  <2>5. Addressed'
    BY <1>1, <1>3, <1>4, <2>1, <2>2 DEF SourcesInv, Addressed, SettingsOK, Urls, Threads
  <2>6. OneJoins'
    BY <1>4, <2>2, Disjoint DEF SourcesInv, OneJoins, Others, Threads
  <2>7. InUseIsAlive'
    <3>1. registered' # NoObject => plugin'[registered'].life = "alive"
      BY <1>1, <2>1
    <3>2. ASSUME NEW t \in Others, job'[t].on # NoObject
          PROVE  plugin'[job'[t].on].life = IF job'[t].at = "joins" THEN "dying" ELSE "alive"
      BY <1>4, <2>1, <2>2, <3>2, Disjoint DEF SourcesInv, InUseIsAlive, Others, Threads
    <3>3. ASSUME NEW p \in Objects, job'[p].at \notin {"idle", "ended"}
          PROVE  plugin'[p].life \in {"alive", "dying"}
      <4>1. job'[p] = job[p]
        BY <2>2, Disjoint DEF Others, Threads
      <4> QED BY <2>1, <3>3, <4>1 DEF SourcesInv, InUseIsAlive
    <3> QED BY <3>1, <3>2, <3>3, Disjoint DEF InUseIsAlive
  <2> QED BY <2>3, <2>4, <2>5, <2>6, <2>7 DEF SourcesInv
<1>6. CASE registered # NoObject /\ Users(registered) = {}
  <2> DEFINE j == [Idle EXCEPT !.at = "joins", !.on = registered]
  <2>1. /\ job' = [job EXCEPT ![a] = j] /\ mutex_' = a
        /\ plugin' = [plugin EXCEPT ![registered].life = "dying"]
    BY <1>6 DEF Registers
  <2>2. j \in Jobs /\ j.at = "joins" /\ j.on = registered
    BY <1>2, <1>6, IdleIsJob DEF Idle, Jobs
  <2> HIDE DEF j
  <2>3. job' \in [Threads -> Jobs] /\ job'[a] = j /\ \A t \in Threads \ {a} : job'[t] = job[t]
    BY <1>2, <2>1, <2>2
  <2>4. /\ plugin' \in [Objects -> Plugins] /\ plugin'[registered].life = "dying"
        /\ \A p \in Objects : plugin'[p].url = plugin[p].url /\ (p # registered => plugin'[p].life = plugin[p].life)
    BY <1>2, <1>6, <2>1 DEF Plugins
  <2>5. \A t \in Others : job[t].on # registered
    BY <1>6, Disjoint DEF Users
  <2>6. o # registered
    BY <1>6, <2>5 DEF Others
  <2>7. TypeOK'
    BY <1>1, <1>3, <2>1, <2>3, <2>4 DEF SourcesInv, TypeOK, SettingsOK, Entries, Urls, Jobs, Plugins
  <2>8. Occupied'
    BY <1>4, <1>6, <2>2, <2>3, Disjoint, SourcesAssumption DEF SourcesInv, Occupied, ImportPlaces, import, Others, Threads
  <2>9. Addressed'
    BY <1>1, <1>2, <1>3, <1>6, <2>2, <2>3, <2>4 DEF SourcesInv, Addressed, SettingsOK, Urls, Threads
  <2>10. OneJoins'
    BY <2>2, <2>3, <2>5, Disjoint DEF SourcesInv, OneJoins, Others, Threads
  <2>11. InUseIsAlive'
    <3>1. registered' # NoObject => plugin'[registered'].life = "alive"
      BY <1>1, <2>4, <2>6
    <3>2. ASSUME NEW t \in Others, job'[t].on # NoObject
          PROVE  plugin'[job'[t].on].life = IF job'[t].at = "joins" THEN "dying" ELSE "alive"
      <4>1. job'[t].on \in Objects /\ t \in Threads
        BY <2>3, <3>2, Disjoint DEF Jobs, Others, Threads
      <4> QED BY <2>2, <2>3, <2>4, <2>5, <3>2, <4>1, Disjoint DEF SourcesInv, InUseIsAlive
    <3>3. ASSUME NEW p \in Objects, job'[p].at \notin {"idle", "ended"}
          PROVE  plugin'[p].life \in {"alive", "dying"}
      <4>1. job'[p] = job[p]
        BY <2>3, Disjoint DEF Others, Threads
      <4> QED BY <2>4, <3>3, <4>1 DEF SourcesInv, InUseIsAlive
    <3> QED BY <3>1, <3>2, <3>3, Disjoint DEF InUseIsAlive
  <2> QED BY <2>7, <2>8, <2>9, <2>10, <2>11 DEF SourcesInv
<1> QED BY <1>5, <1>6

LEMMA RegistryKeeps ==
  ASSUME SourcesInv, NEW a \in Admins, Register(a) \/ Erase(a)
  PROVE  SourcesInv'
<1>1. CASE Register(a)
  <2> DEFINE j == [job[a] EXCEPT !.at = "hand"]
  <2>1. /\ j \in Jobs /\ j.at = "hand" /\ j.on = job[a].on /\ job[a].on \in Objects
        /\ plugin[job[a].on].life = "alive" /\ Registers(a, job[a].on, j)
    BY <1>1, AdminHas DEF Register, Jobs
  <2> HIDE DEF j
  <2> QED BY <1>1, <2>1, RegistersKeeps, SourcesAssumption DEF Register
<1>2. CASE Erase(a)
  <2>1. Idle \in Jobs /\ Idle.on = NoObject
    BY IdleIsJob DEF Idle
  <2> QED BY <1>2, <2>1, RegistersKeeps DEF Erase
<1> QED BY <1>1, <1>2

\* Whoever has joined the updater destroys the plugin.
LEMMA DestroyedKeeps ==
  ASSUME SourcesInv, NEW t \in Others, Destroyed(t)
  PROVE  SourcesInv'
<1> DEFINE o == job[t].on
           j == IF mutex_ = t /\ registered # NoObject THEN [Idle EXCEPT !.at = "hand", !.on = registered] ELSE Done(t)
<1>1. /\ job[t].at = "joins" /\ job[o].at = "ended" /\ UNCHANGED <<kind, settings, import, registered, aborted, requests>>
      /\ plugin' = [plugin EXCEPT ![o] = [Unborn EXCEPT !.life = "gone"]] /\ job' = [job EXCEPT ![t] = j]
      /\ mutex_' \in {mutex_, Nobody}
  BY DEF Destroyed
<1>2. job \in [Threads -> Jobs] /\ plugin \in [Objects -> Plugins] /\ t \in Threads /\ t \notin Objects
  BY TypesAre, Disjoint DEF SourcesInv
<1>3. o \in Objects
  BY <1>1, <1>2 DEF SourcesInv, Occupied, Jobs
<1>4. registered # NoObject => registered \in Objects /\ plugin[registered].life = "alive"
  BY TypesAre DEF SourcesInv, InUseIsAlive
<1>5. /\ \/ /\ j.at \in {"idle", "store"} /\ j.on = NoObject
            /\ t \notin Admins => j.at = "idle"
         \/ j.at = "hand" /\ j.on = registered /\ registered # NoObject /\ t \in Admins
      /\ plugins_state_mutex_ = t => j.at \in {"store", "hand"}
      /\ j \in Jobs
  <2>1. CASE mutex_ = t /\ registered # NoObject
    <3>1. t \in Admins
      BY <2>1, SourcesAssumption DEF SourcesInv, TypeOK, Others
    <3> QED BY <1>4, <2>1, <3>1, IdleIsJob DEF Idle, Jobs
  <2>2. CASE ~(mutex_ = t /\ registered # NoObject)
    <3>1. j = Done(t)
      BY <2>2
    <3>2. Done(t) \in Jobs /\ Done(t).on = NoObject /\ Done(t).at \in {"idle", "store"}
          /\ (plugins_state_mutex_ = t => Done(t).at = "store") /\ (t \notin Admins => Done(t) = Idle)
      BY <1>2, DoneIs DEF SourcesInv
    <3>3. Idle.at = "idle"
      BY DEF Idle
    <3> HIDE DEF j
    <3> QED BY <3>1, <3>2, <3>3
  <2> QED BY <2>1, <2>2
<1>6. plugins_state_mutex_' = plugins_state_mutex_
  BY <1>1 DEF import
<1> HIDE DEF j
<1>7. job' \in [Threads -> Jobs] /\ job'[t] = j /\ \A u \in Threads \ {t} : job'[u] = job[u]
  BY <1>1, <1>2, <1>5
<1>8. [Unborn EXCEPT !.life = "gone"] \in Plugins /\ [Unborn EXCEPT !.life = "gone"].life = "gone"
  BY IdleIsJob DEF Unborn, Plugins
<1>9. plugin' \in [Objects -> Plugins] /\ plugin'[o].life = "gone" /\ \A p \in Objects \ {o} : plugin'[p] = plugin[p]
  BY <1>1, <1>2, <1>3, <1>8
<1>10. plugin[o].life = "dying"
  BY <1>1, <1>3, Disjoint, SourcesAssumption DEF SourcesInv, InUseIsAlive
<1>11. registered # o /\ \A u \in Others : u # t => job[u].on # o
  <2>1. \A u \in Others : job[u].on = o => job[u].at = "joins"
    BY <1>3, <1>10, Disjoint, SourcesAssumption DEF SourcesInv, InUseIsAlive
  <2>2. \A u \in Others : job[u].on = o => u = t
    BY <1>1, <2>1 DEF SourcesInv, OneJoins
  <2>3. registered # o
    BY <1>3, <1>4, <1>10, SourcesAssumption
  <2> QED BY <2>2, <2>3
<1>12. SettingsOK'
  BY <1>1, SettingsStay
<1>13. TypeOK'
  BY <1>1, <1>7, <1>9, <1>12 DEF SourcesInv, TypeOK, SettingsOK, Entries, Urls, Jobs, Plugins
<1>14. Occupied'
  BY <1>2, <1>5, <1>6, <1>7, Disjoint, SourcesAssumption DEF SourcesInv, Occupied, ImportPlaces, import, Others, Threads
<1>15. Addressed'
  BY <1>1, <1>5, <1>6, <1>7, <1>9, <1>12 DEF SourcesInv, Addressed, SettingsOK, Urls, Threads
<1>16. OneJoins'
  BY <1>5, <1>6, <1>7, Disjoint DEF SourcesInv, OneJoins, Others, Threads
<1>17. InUseIsAlive'
  <2>1. registered' # NoObject => plugin'[registered'].life = "alive"
    BY <1>1, <1>4, <1>9, <1>11
  <2>2. ASSUME NEW u \in Others, job'[u].on # NoObject
        PROVE  plugin'[job'[u].on].life = IF job'[u].at = "joins" THEN "dying" ELSE "alive"
    <3>1. CASE u = t
      BY <1>4, <1>5, <1>6, <1>7, <1>9, <1>11, <2>2, <3>1
    <3>2. CASE u # t
      <4>1. job'[u] = job[u] /\ job[u].on \in Objects /\ job[u].on # o
        BY <1>2, <1>7, <1>11, <2>2, <3>2, Disjoint DEF Jobs, Others, Threads
      <4> QED BY <1>9, <2>2, <4>1, Disjoint DEF SourcesInv, InUseIsAlive
    <3> QED BY <3>1, <3>2
  <2>3. ASSUME NEW p \in Objects, job'[p].at \notin {"idle", "ended"}
        PROVE  plugin'[p].life \in {"alive", "dying"}
    <3>1. job'[p] = job[p]
      BY <1>2, <1>7 DEF Threads
    <3> QED BY <1>1, <1>9, <2>3, <3>1 DEF SourcesInv, InUseIsAlive
  <2> QED BY <2>1, <2>2, <2>3, Disjoint DEF InUseIsAlive
<1> QED BY <1>13, <1>14, <1>15, <1>16, <1>17 DEF SourcesInv

-------------------------------------------------------------------------------
LEMMA StepHolds == SourcesInv /\ [Next]_vars => SourcesInv'
<1> SUFFICES ASSUME SourcesInv, [Next]_vars PROVE SourcesInv'
  OBVIOUS
<1>1. CASE UNCHANGED vars
  BY <1>1 DEF vars, settings, import, Entries, SourcesInv, TypeOK, Occupied, Addressed, OneJoins, InUseIsAlive, Urls
<1>2. ASSUME NEW t \in Threads, Refreshes(t) PROVE SourcesInv'
  BY <1>2, CheckKeeps, BeginsKeeps, FetchKeeps, ReadsKeeps DEF Refreshes
<1>3. ASSUME NEW o \in Objects, Updates(o) PROVE SourcesInv'
  BY <1>2, <1>3, UpdaterKeeps DEF Updates, Threads
<1>4. ASSUME NEW w \in Workers, HandlerAsks(w) \/ AioAsks(w) \/ Refreshes(w) \/ Destroyed(w) PROVE SourcesInv'
  BY <1>2, <1>4, AsksKeeps, DestroyedKeeps DEF HandlerAsks, AioAsks, Threads, Others
<1>5. ASSUME NEW a \in Admins, Change(a) \/ GoesOn(a) PROVE SourcesInv'
  BY <1>5, RequestKeeps, ToldKeeps, ImportsKeep, AddKeeps, RegistryKeeps, DestroyedKeeps DEF GoesOn, Others
<1> QED BY <1>1, <1>3, <1>4, <1>5 DEF Next

\* The inductive invariant of the registry, its plugins and their threads.
THEOREM Invariance == Spec => []SourcesInv
<1> QED BY InitHolds, StepHolds, PTL DEF Spec

\* Every variable keeps to its type.
THEOREM Typing == Spec => []TypeOK
<1>1. SourcesInv => TypeOK
  BY DEF SourcesInv
<1> QED BY <1>1, Invariance, PTL

\* No plugin is destroyed that is registered or that a thread works on, however
\* deletions, replacements, refreshes and requests for its list interleave.
THEOREM NothingInUseDies == Spec => []InUseIsAlive
<1>1. SourcesInv => InUseIsAlive
  BY DEF SourcesInv
<1> QED BY <1>1, Invariance, PTL

-------------------------------------------------------------------------------
(* Nothing is left behind. RemovalEnds needs fairness; this is what it needs  *)
(* of the states: somebody has hold of whatever is still there.               *)

\* A plugin that lives is registered or in use, one that is being destroyed has a thread
\* that destroys it, and so has the registry while it is locked.
NothingLeaks ==
  /\ \A o \in Objects : plugin[o].life = "alive" => registered = o \/ \E t \in Others : job[t].on = o
  /\ \A o \in Objects : plugin[o].life = "dying" => \E t \in Others : job[t].at = "joins" /\ job[t].on = o
  /\ mutex_ # Nobody => job[mutex_].at = "joins"

LeakInv == SourcesInv /\ NothingLeaks

\* A step that leaves the registry and the lives of plugins alone, and in which no thread
\* lets go of a plugin that nobody else has.
LEMMA HoldsOn ==
  ASSUME LeakInv, NEW t1 \in Threads, NEW t2 \in Threads, UNCHANGED <<registered, mutex_>>,
         \A o \in Objects : plugin'[o].life = plugin[o].life,
         \A t \in Threads \ {t1, t2} : job'[t] = job[t],
         job[t1].at # "joins", job[t2].at # "joins",
         \A t \in {t1, t2} \cap Others :
           job[t].on \in {NoObject, registered} \/ \E u \in Others : job'[u].on = job[t].on
  PROVE  NothingLeaks'
<1>1. ASSUME NEW o \in Objects, plugin'[o].life = "alive"
      PROVE  registered' = o \/ \E t \in Others : job'[t].on = o
  <2>1. CASE registered = o
    BY <2>1
  <2>2. CASE \E t \in Others : job[t].on = o
    <3>1. PICK t \in Others : job[t].on = o
      BY <2>2
    <3>2. CASE t \in {t1, t2}
      BY <3>1, <3>2, SourcesAssumption
    <3>3. CASE t \notin {t1, t2}
      BY <3>1, <3>3 DEF Others, Threads
    <3> QED BY <3>2, <3>3
  <2> QED BY <1>1, <2>1, <2>2 DEF LeakInv, NothingLeaks
<1>2. ASSUME NEW o \in Objects, plugin'[o].life = "dying"
      PROVE  \E t \in Others : job'[t].at = "joins" /\ job'[t].on = o
  <2>1. PICK t \in Others : job[t].at = "joins" /\ job[t].on = o
    BY <1>2 DEF LeakInv, NothingLeaks
  <2> QED BY <2>1 DEF Others, Threads
<1>3. mutex_' # Nobody => job'[mutex_'].at = "joins"
  <2>1. mutex_ # Nobody => mutex_ \in Threads
    BY DEF LeakInv, SourcesInv, TypeOK, Threads
  <2> QED BY <2>1 DEF LeakInv, NothingLeaks
<1> QED BY <1>1, <1>2, <1>3 DEF NothingLeaks

\* Whoever leaves a plugin as the last one sees to its end.
LEMMA LeavesHoldsOn ==
  ASSUME LeakInv, NEW t \in Threads, job[t].at \in {"check", "refresh", "fetch", "read", "told", "hand"}, NEW list,
         Leaves(t, list), UNCHANGED <<registered, mutex_>>
  PROVE  NothingLeaks'
<1> DEFINE o == job[t].on
<1>1. o \in Objects /\ plugin \in [Objects -> Plugins] /\ job \in [Threads -> Jobs]
  BY Disjoint, TypesAre DEF LeakInv, SourcesInv, Occupied, Threads, Others, Jobs
<1>2. CASE ~IsLast(t, o)
  <2>1. plugin' = [plugin EXCEPT ![o].list = list, ![o].life = @] /\ job' = [job EXCEPT ![t] = Done(t)]
    BY <1>2 DEF Leaves
  <2>2. \A p \in Objects : plugin'[p].life = plugin[p].life
    BY <1>1, <2>1 DEF Plugins
  <2>3. \A u \in Threads \ {t} : job'[u] = job[u]
    BY <1>1, <2>1
  <2>4. t \in Others => registered = o \/ \E u \in Others : job'[u].on = o
    <3>1. SUFFICES ASSUME t \in Others, registered # o PROVE \E u \in Others : job'[u].on = o
      OBVIOUS
    <3>2. t \in Users(o) /\ Users(o) # {t}
      BY <1>2, <3>1, Disjoint DEF IsLast, Users
    <3>3. PICK u \in Others : job[u].on = o /\ u # t
      BY <3>2, Disjoint DEF Users
    <3> QED BY <2>3, <3>3 DEF Others, Threads
  <2> QED BY <2>2, <2>3, <2>4, HoldsOn
<1>3. CASE IsLast(t, o)
  <2>1. /\ plugin' = [plugin EXCEPT ![o].list = list, ![o].life = "dying"]
        /\ job' = [job EXCEPT ![t] = [Idle EXCEPT !.at = "joins", !.on = o]]
    BY <1>3 DEF Leaves
  <2>2. t \in Others /\ [Idle EXCEPT !.at = "joins", !.on = o].at = "joins" /\ [Idle EXCEPT !.at = "joins", !.on = o].on = o
    BY <1>3, Disjoint DEF IsLast, Others, Threads, Idle
  <2>3. job'[t].at = "joins" /\ job'[t].on = o /\ \A u \in Threads \ {t} : job'[u] = job[u]
    BY <1>1, <2>1, <2>2
  <2>4. plugin'[o].life = "dying" /\ \A p \in Objects \ {o} : plugin'[p].life = plugin[p].life
    BY <1>1, <2>1 DEF Plugins
  <2>5. ASSUME NEW p \in Objects, plugin'[p].life = "alive"
        PROVE  registered' = p \/ \E u \in Others : job'[u].on = p
    <3>1. p # o /\ plugin[p].life = "alive"
      BY <2>4, <2>5
    <3>2. CASE registered = p
      BY <3>2
    <3>3. CASE \E u \in Others : job[u].on = p
      BY <2>3, <3>1, <3>3 DEF Others, Threads
    <3> QED BY <3>1, <3>2, <3>3 DEF LeakInv, NothingLeaks
  <2>6. ASSUME NEW p \in Objects, plugin'[p].life = "dying"
        PROVE  \E u \in Others : job'[u].at = "joins" /\ job'[u].on = p
    <3>1. CASE p = o
      BY <2>2, <2>3, <3>1
    <3>2. CASE p # o
      <4>1. PICK u \in Others : job[u].at = "joins" /\ job[u].on = p
        BY <2>4, <2>6, <3>2 DEF LeakInv, NothingLeaks
      <4> QED BY <2>3, <4>1 DEF Others, Threads
    <3> QED BY <3>1, <3>2
  <2>7. mutex_' # Nobody => job'[mutex_'].at = "joins"
    <3>1. mutex_ # Nobody => mutex_ \in Threads
      BY DEF LeakInv, SourcesInv, TypeOK, Threads
    <3> QED BY <2>3, <3>1 DEF LeakInv, NothingLeaks
  <2> QED BY <2>5, <2>6, <2>7 DEF NothingLeaks
<1> QED BY <1>2, <1>3

LEMMA RefreshesHoldsOn ==
  ASSUME LeakInv, NEW t \in Threads, Refreshes(t)
  PROVE  NothingLeaks'
<1>1. UNCHANGED <<registered, mutex_>> /\ job[t].at \in {"check", "refresh", "fetch", "read"}
  BY DEF Refreshes, Check, Begins, Fetch, Reads
<1>2. job[t] \in Jobs /\ job \in [Threads -> Jobs]
  BY TypesAre DEF LeakInv, SourcesInv
<1>3. ASSUME NEW list, Leaves(t, list) PROVE NothingLeaks'
  BY <1>1, <1>3, LeavesHoldsOn
<1>4. ASSUME NEW j \in Jobs, j.on = job[t].on, job' = [job EXCEPT ![t] = j], UNCHANGED plugin
      PROVE  NothingLeaks'
  <2>1. job'[t] = j /\ \A u \in Threads \ {t} : job'[u] = job[u]
    BY <1>2, <1>4
  <2> QED BY <1>1, <1>4, <2>1, HoldsOn
<1>5. \/ \E list : Leaves(t, list)
      \/ UNCHANGED plugin /\ \E j \in Jobs : j.on = job[t].on /\ job' = [job EXCEPT ![t] = j]
  <2>1. CASE Check(t)
    <3>1. [job[t] EXCEPT !.at = "refresh", !.force = FALSE] \in Jobs
          /\ [job[t] EXCEPT !.at = "refresh", !.force = FALSE].on = job[t].on
      BY <1>2 DEF Jobs
    <3> QED BY <2>1, <3>1 DEF Check, LeavesAsItIs
  <2>2. CASE Begins(t)
    <3>1. UrlOf(job[t].on) \in SUBSET Addresses
      <4>1. job[t].at = "refresh"
        BY <2>2 DEF Begins
      <4>2. job[t].on \in Objects /\ plugin[job[t].on].life \in {"alive", "dying"}
        BY <4>1, UsedIsThere DEF LeakInv
      <4> QED BY <4>2, UrlOfTypes DEF LeakInv
    <3>2. [job[t] EXCEPT !.at = "fetch", !.left = UrlOf(job[t].on)] \in Jobs
          /\ [job[t] EXCEPT !.at = "fetch", !.left = UrlOf(job[t].on)].on = job[t].on
      BY <1>2, <3>1 DEF Jobs
    <3> QED BY <2>2, <3>2 DEF Begins, LeavesAsItIs
  <2>3. CASE FetchEach(t)
    <3>1. PICK a \in job[t].left : \E got \in Downloaded(a) :
            IF job[t].left = {a}
            THEN Leaves(t, job[t].got \cup got)
            ELSE job' = [job EXCEPT ![t].got = @ \cup got, ![t].left = @ \ {a}] /\ UNCHANGED plugin
      BY <2>3 DEF FetchEach
    <3>2. PICK got \in Downloaded(a) :
            IF job[t].left = {a}
            THEN Leaves(t, job[t].got \cup got)
            ELSE job' = [job EXCEPT ![t].got = @ \cup got, ![t].left = @ \ {a}] /\ UNCHANGED plugin
      BY <3>1
    <3>3. got \in SUBSET Addresses
      BY <1>2, <3>1, <3>2 DEF Downloaded, Jobs
    <3>4. [job[t] EXCEPT !.got = @ \cup got, !.left = @ \ {a}] \in Jobs
          /\ [job[t] EXCEPT !.got = @ \cup got, !.left = @ \ {a}].on = job[t].on
      BY <1>2, <3>3 DEF Jobs
    <3> QED BY <3>2, <3>4
  <2>4. CASE FetchNewEra(t) \/ FetchAcePL(t) \/ FetchAf1c1onados(t) \/ FetchFails(t) \/ Reads(t)
    BY <2>4 DEF FetchNewEra, FetchAcePL, FetchAf1c1onados, FetchFails, Reads, LeavesAsItIs
  <2> QED BY <2>1, <2>2, <2>3, <2>4 DEF Refreshes, Fetch, FetchElcano, FetchCustom
<1> QED BY <1>3, <1>4, <1>5

LEMMA UpdaterHoldsOn ==
  ASSUME LeakInv, NEW o \in Objects, UpdaterWakes(o) \/ UpdaterEnds(o)
  PROVE  NothingLeaks'
<1>1. UNCHANGED <<registered, mutex_, plugin>> /\ job[o].at = "idle" /\ o \in Threads /\ o \notin Others
  BY Disjoint DEF UpdaterWakes, UpdaterEnds, Threads
<1>2. job \in [Threads -> Jobs]
  BY TypesAre DEF LeakInv, SourcesInv
<1>3. \A t \in Threads \ {o} : job'[t] = job[t]
  BY <1>2 DEF UpdaterWakes, UpdaterEnds
<1> QED BY <1>1, <1>3, HoldsOn

LEMMA AsksHoldsOn ==
  ASSUME LeakInv, NEW w \in Workers, HandlerAsks(w) \/ AioAsks(w)
  PROVE  NothingLeaks'
<1>1. UNCHANGED <<registered, mutex_, plugin>> /\ job[w].at = "idle" /\ w \in Threads
  BY DEF HandlerAsks, AioAsks, Asks, Threads
<1>2. job \in [Threads -> Jobs] /\ job[w].on = NoObject
  BY <1>1, TypesAre DEF LeakInv, SourcesInv, Occupied, Others
<1>3. \A t \in Threads \ {w} : job'[t] = job[t]
  BY <1>2 DEF HandlerAsks, AioAsks, Asks
<1> QED BY <1>1, <1>2, <1>3, HoldsOn

LEMMA ChangeHoldsOn ==
  ASSUME LeakInv, NEW a \in Admins, Change(a)
  PROVE  NothingLeaks'
<1>1. UNCHANGED <<registered, mutex_, plugin>> /\ job[a].at = "idle" /\ a \in Threads
  BY DEF Change, DeleteCustomList, SetEnabled, SetUrl, SaveCustomList, ImportSources, Requested, Threads
<1>2. job \in [Threads -> Jobs] /\ job[a].on = NoObject
  BY <1>1, AdminHas DEF LeakInv
<1>3. \A t \in Threads \ {a} : job'[t] = job[t]
  BY <1>2 DEF Change, DeleteCustomList, SetEnabled, SetUrl, SaveCustomList, ImportSources, Requested
<1> QED BY <1>1, <1>2, <1>3, HoldsOn

\* A plugin that an administrator hands over has its worker by then.
LEMMA StartsHoldsOn ==
  ASSUME LeakInv, NEW a \in Admins, NEW w \in Workers, NEW o, NEW force, NEW next \in Jobs, Starts(a, w, o, force, next),
         job[a].at # "joins", job[a].on \in {NoObject, o, next.on}, UNCHANGED <<registered, mutex_, plugin>>
  PROVE  NothingLeaks'
<1>1. job \in [Threads -> Jobs] /\ a \in Threads /\ w \in Threads /\ a # w /\ w \in Others /\ a \in Others
  BY TypesAre, Disjoint DEF LeakInv, SourcesInv, Threads, Others
<1>2. job[w].at = "idle" /\ job[w].on = NoObject
  BY <1>1 DEF Starts, LeakInv, SourcesInv, Occupied
<1>3. \A t \in Threads \ {a, w} : job'[t] = job[t]
  BY <1>1 DEF Starts
<1>4. job'[a] = next /\ job'[w].on = o
  BY <1>1 DEF Starts, Idle
<1> QED BY <1>1, <1>2, <1>3, <1>4, HoldsOn

LEMMA HandsOverHoldsOn ==
  ASSUME LeakInv, NEW a \in Admins, job[a].at \in {"told", "hand"}, HandsOver(a), UNCHANGED <<registered, mutex_>>
  PROVE  NothingLeaks'
<1>1. ASSUME NEW w \in Workers, Starts(a, w, job[a].on, TRUE, Done(a)), UNCHANGED plugin
      PROVE  NothingLeaks'
  <2>1. Done(a) \in Jobs
    BY DoneIs
  <2> QED BY <1>1, <2>1, StartsHoldsOn
<1>2. CASE LeavesAsItIs(a)
  <2>1. a \in Threads
    BY DEF Threads
  <2> QED BY <1>2, <2>1, LeavesHoldsOn DEF LeavesAsItIs
<1> QED BY <1>1, <1>2 DEF HandsOver

LEMMA ToldHoldsOn ==
  ASSUME LeakInv, NEW a \in Admins,
         Tell(a) \/ Told(a) \/ TellHeld(a) \/ Imports(a) \/ ImportEnds(a)
         \/ Enable(a) \/ Disable(a) \/ Hand(a) \/ Clear(a)
  PROVE  NothingLeaks'
<1>1. /\ UNCHANGED <<registered, mutex_>>
      /\ job[a].at \in {"tell", "told", "import", "store", "enable", "disable", "hand", "clear"}
  BY DEF Tell, Told, TellHeld, Imports, ImportEnds, Enable, Disable, Hand, Clear
<1>2. job \in [Threads -> Jobs] /\ job[a] \in Jobs /\ a \in Threads
  BY AdminHas DEF LeakInv
<1>3. job[a].at \in {"import", "store", "enable", "disable", "clear"} => job[a].on = NoObject
  BY AdminHas DEF LeakInv
<1>4. ASSUME NEW next \in Jobs, job' = [job EXCEPT ![a] = next], job[a].on \in {NoObject, next.on},
             \A o \in Objects : plugin'[o].life = plugin[o].life
      PROVE  NothingLeaks'
  <2>1. job'[a] = next /\ \A t \in Threads \ {a} : job'[t] = job[t]
    BY <1>2, <1>4
  <2> QED BY <1>1, <1>2, <1>4, <2>1, HoldsOn
<1>5. CASE Told(a)
  <2>1. job[a].at = "told" /\ (HandsOver(a) \/ LeavesAsItIs(a))
    BY <1>5 DEF Told
  <2> QED BY <1>1, <1>2, <2>1, HandsOverHoldsOn, LeavesHoldsOn DEF LeavesAsItIs
<1>6. CASE Hand(a)
  BY <1>1, <1>6, HandsOverHoldsOn DEF Hand
<1>7. CASE Tell(a)
  <2>1. job[a].on = NoObject /\ UNCHANGED plugin
    BY <1>7 DEF Tell
  <2>2. \A t \in Threads \ {a} : job'[t] = job[t]
    BY <1>2, <1>7 DEF Tell
  <2> QED BY <1>1, <1>2, <2>1, <2>2, HoldsOn
<1>8. CASE TellHeld(a)
  <2> DEFINE next == [job[a] EXCEPT !.at = "hand"]
  <2>1. next \in Jobs /\ job[a].on = next.on
    BY <1>2 DEF Jobs
  <2>2. \/ job' = [job EXCEPT ![a] = next]
        \/ \E w \in Workers : Starts(a, w, registered, TRUE, next)
    BY <1>8 DEF TellHeld
  <2>3. UNCHANGED plugin
    BY <1>8 DEF TellHeld
  <2> HIDE DEF next
  <2> QED BY <1>1, <1>4, <2>1, <2>2, <2>3, StartsHoldsOn
<1>9. CASE Enable(a)
  <2>1. job[a].on = NoObject /\ UNCHANGED plugin
    BY <1>3, <1>9 DEF Enable
  <2>2. \/ job' = [job EXCEPT ![a] = Idle]
        \/ \E w \in Workers : Starts(a, w, registered, FALSE, Idle)
    BY <1>9 DEF Enable
  <2> QED BY <1>1, <1>4, <2>1, <2>2, IdleIsJob, StartsHoldsOn
<1>10. CASE Disable(a) \/ Clear(a)
  <2>1. \A o \in Objects : plugin'[o].life = plugin[o].life
    BY <1>10, ClearsKeeps DEF Disable, Clear, LeakInv
  <2>2. [job[a] EXCEPT !.at = "erase"] \in Jobs
    BY <1>2 DEF Jobs
  <2> QED BY <1>3, <1>4, <1>10, <2>1, <2>2, IdleIsJob DEF Disable, Clear
<1>11. CASE Imports(a) \/ ImportEnds(a)
  <2>1. job[a].on = NoObject /\ UNCHANGED plugin
    BY <1>3, <1>11 DEF Imports, ImportEnds
  <2>2. \A t \in Threads \ {a} : job'[t] = job[t]
    BY <1>2, <1>11 DEF Imports, ImportEnds
  <2> QED BY <1>1, <1>2, <2>1, <2>2, HoldsOn
<1> QED BY <1>5, <1>6, <1>7, <1>8, <1>9, <1>10, <1>11

LEMMA AddHoldsOn ==
  ASSUME LeakInv, NEW a \in Admins, Add(a)
  PROVE  NothingLeaks'
<1>1. UNCHANGED <<registered, mutex_>> /\ job[a].at = "add" /\ job[a].on = NoObject
  BY AdminHas DEF Add, LeakInv
<1>2. job \in [Threads -> Jobs] /\ plugin \in [Objects -> Plugins] /\ job[a] \in Jobs /\ a \in Threads /\ a \in Others
  BY AdminHas DEF LeakInv, Others
<1>3. \A t \in Threads \ {a} : job'[t] = job[t]
  BY <1>2 DEF Add
<1>4. CASE UNCHANGED plugin
  BY <1>1, <1>2, <1>3, <1>4, HoldsOn
<1>5. ASSUME NEW o \in Objects, plugin[o].life = "unborn", plugin' = [plugin EXCEPT ![o] = Created(job[a].url)],
             job' = [job EXCEPT ![a] = [Idle EXCEPT !.at = "register", !.on = o]]
      PROVE  NothingLeaks'
  <2>1. job'[a].on = o
    BY <1>2, <1>5 DEF Idle
  <2>2. plugin'[o].life = "alive" /\ \A p \in Objects \ {o} : plugin'[p] = plugin[p]
    BY <1>2, <1>5 DEF Created, Unborn
  <2>3. ASSUME NEW p \in Objects, plugin'[p].life = "alive"
        PROVE  registered' = p \/ \E u \in Others : job'[u].on = p
    <3>1. CASE p = o
      BY <1>2, <2>1, <3>1
    <3>2. CASE p # o
      <4>1. registered = p \/ \E u \in Others : job[u].on = p
        BY <2>2, <2>3, <3>2 DEF LeakInv, NothingLeaks
      <4>2. \A u \in Others : job[u].on = p => job'[u] = job[u]
        BY <1>1, <1>3, SourcesAssumption DEF Others, Threads
      <4> QED BY <1>1, <4>1, <4>2
    <3> QED BY <3>1, <3>2
  <2>4. ASSUME NEW p \in Objects, plugin'[p].life = "dying"
        PROVE  \E u \in Others : job'[u].at = "joins" /\ job'[u].on = p
    <3>1. PICK u \in Others : job[u].at = "joins" /\ job[u].on = p
      BY <2>2, <2>4 DEF LeakInv, NothingLeaks
    <3> QED BY <1>1, <1>3, <3>1 DEF Others, Threads
  <2>5. mutex_' = Nobody
    BY <1>1 DEF Add
  <2> QED BY <2>3, <2>4, <2>5 DEF NothingLeaks
<1> QED BY <1>4, <1>5 DEF Add

\* Whoever takes a plugin out of the registry destroys it, unless somebody uses it.
LEMMA RegistersHoldsOn ==
  ASSUME LeakInv, NEW a \in Admins, NEW o \in Objects \cup {NoObject}, NEW next \in Jobs,
         job[a].on = o, next.on = o, job[a].at # "joins", Registers(a, o, next)
  PROVE  NothingLeaks'
<1>1. registered' = o /\ mutex_ = Nobody
  BY DEF Registers
<1>2. /\ job \in [Threads -> Jobs] /\ plugin \in [Objects -> Plugins] /\ a \in Threads /\ a \in Others
      /\ registered # NoObject => registered \in Objects /\ plugin[registered].life = "alive"
  BY AdminHas DEF LeakInv, Others
<1>3. \A t \in Threads \ {a} : job'[t] = job[t]
  BY <1>2 DEF Registers
<1>4. ASSUME NEW p \in Objects, p # registered, plugin[p].life = "alive"
      PROVE  registered' = p \/ \E u \in Others : job'[u].on = p
  <2>1. PICK u \in Others : job[u].on = p
    BY <1>4 DEF LeakInv, NothingLeaks
  <2> QED BY <1>1, <1>3, <2>1 DEF Others, Threads
<1>5. ASSUME NEW p \in Objects, plugin[p].life = "dying"
      PROVE  \E u \in Others : job'[u].at = "joins" /\ job'[u].on = p
  <2>1. PICK u \in Others : job[u].at = "joins" /\ job[u].on = p
    BY <1>5 DEF LeakInv, NothingLeaks
  <2> QED BY <1>3, <2>1 DEF Others, Threads
<1>6. CASE registered = NoObject \/ Users(registered) # {}
  <2>1. job' = [job EXCEPT ![a] = next] /\ UNCHANGED <<mutex_, plugin>>
    BY <1>6 DEF Registers
  <2>2. job'[a].on = o
    BY <1>2, <2>1
  <2>3. registered \in Objects => \E u \in Others : job'[u].on = registered
    <3>1. SUFFICES ASSUME registered \in Objects PROVE \E u \in Others : job'[u].on = registered
      OBVIOUS
    <3>2. PICK u \in Others : job[u].on = registered
      BY <1>6, <3>1, Disjoint, SourcesAssumption DEF Users
    <3>3. job'[u].on = registered
      BY <1>3, <2>2, <3>2 DEF Others, Threads
    <3> QED BY <3>3
  <2>4. \A p \in Objects : plugin'[p].life = "alive" => registered' = p \/ \E u \in Others : job'[u].on = p
    BY <1>4, <2>1, <2>3
  <2>5. \A p \in Objects : plugin'[p].life = "dying" => \E u \in Others : job'[u].at = "joins" /\ job'[u].on = p
    BY <1>5, <2>1
  <2> QED BY <1>1, <2>1, <2>4, <2>5 DEF NothingLeaks
<1>7. CASE registered # NoObject /\ Users(registered) = {}
  <2>1. /\ job' = [job EXCEPT ![a] = [Idle EXCEPT !.at = "joins", !.on = registered]] /\ mutex_' = a
        /\ plugin' = [plugin EXCEPT ![registered].life = "dying"]
    BY <1>7 DEF Registers
  <2>2. job'[a].at = "joins" /\ job'[a].on = registered
    BY <1>2, <2>1 DEF Idle
  <2>3. plugin'[registered].life = "dying" /\ \A p \in Objects \ {registered} : plugin'[p] = plugin[p]
    BY <1>2, <1>7, <2>1 DEF Plugins
  <2>4. \A p \in Objects : plugin'[p].life = "alive" => registered' = p \/ \E u \in Others : job'[u].on = p
    BY <1>4, <2>3
  <2>5. \A p \in Objects : plugin'[p].life = "dying" => \E u \in Others : job'[u].at = "joins" /\ job'[u].on = p
    BY <1>2, <1>5, <2>2, <2>3
  <2> QED BY <2>1, <2>2, <2>4, <2>5 DEF NothingLeaks
<1> QED BY <1>6, <1>7

LEMMA RegistryHoldsOn ==
  ASSUME LeakInv, NEW a \in Admins, Register(a) \/ Erase(a)
  PROVE  NothingLeaks'
<1>1. CASE Register(a)
  <2> DEFINE j == [job[a] EXCEPT !.at = "hand"]
  <2>1. j \in Jobs /\ j.on = job[a].on /\ job[a].on \in Objects /\ Registers(a, job[a].on, j) /\ job[a].at # "joins"
    BY <1>1, AdminHas DEF Register, Jobs, LeakInv
  <2> HIDE DEF j
  <2> QED BY <2>1, RegistersHoldsOn
<1>2. CASE Erase(a)
  <2>1. Idle \in Jobs /\ Idle.on = NoObject /\ job[a].on = NoObject
    BY <1>2, IdleIsJob, AdminHas DEF Idle, Erase, LeakInv
  <2> QED BY <1>2, <2>1, RegistersHoldsOn DEF Erase
<1> QED BY <1>1, <1>2

LEMMA DestroyedHoldsOn ==
  ASSUME LeakInv, NEW t \in Others, Destroyed(t)
  PROVE  NothingLeaks'
<1> DEFINE o == job[t].on
<1>1. /\ job[t].at = "joins" /\ registered' = registered /\ plugin' = [plugin EXCEPT ![o] = [Unborn EXCEPT !.life = "gone"]]
      /\ mutex_' = IF mutex_ = t THEN Nobody ELSE mutex_
  BY DEF Destroyed
<1>2. job \in [Threads -> Jobs] /\ plugin \in [Objects -> Plugins] /\ t \in Threads
  BY TypesAre DEF LeakInv, SourcesInv, Others, Threads
<1>3. \A u \in Threads \ {t} : job'[u] = job[u]
  BY <1>2 DEF Destroyed
<1>4. o \in Objects
  BY <1>1, <1>2 DEF LeakInv, SourcesInv, Occupied, Jobs
<1>5. plugin'[o].life = "gone" /\ \A p \in Objects \ {o} : plugin'[p] = plugin[p]
  BY <1>1, <1>2, <1>4 DEF Unborn
<1>6. \A p \in Objects : plugin'[p].life = "alive" => registered' = p \/ \E u \in Others : job'[u].on = p
  BY <1>1, <1>3, <1>5 DEF LeakInv, NothingLeaks, Others, Threads
<1>7. \A p \in Objects : plugin'[p].life = "dying" => \E u \in Others : job'[u].at = "joins" /\ job'[u].on = p
  BY <1>3, <1>5 DEF LeakInv, NothingLeaks, Others, Threads
<1>8. mutex_' # Nobody => job'[mutex_'].at = "joins"
  <2>1. mutex_ # Nobody => mutex_ \in Threads
    BY DEF LeakInv, SourcesInv, TypeOK, Threads
  <2> QED BY <1>1, <1>3, <2>1 DEF LeakInv, NothingLeaks
<1> QED BY <1>6, <1>7, <1>8 DEF NothingLeaks

LEMMA InitLeaksNothing == Init => LeakInv
<1> SUFFICES ASSUME Init PROVE LeakInv
  OBVIOUS
<1>1. mutex_ = Nobody
  BY DEF Init
<1>2. \A o \in Objects : plugin[o].life \notin {"dying"} /\ (plugin[o].life = "alive" => registered = o)
  BY DEF Init, Created, Unborn
<1> QED BY <1>1, <1>2, InitHolds DEF LeakInv, NothingLeaks

LEMMA StepLeaksNothing == LeakInv /\ [Next]_vars => LeakInv'
<1> SUFFICES ASSUME LeakInv, [Next]_vars PROVE NothingLeaks'
  BY StepHolds DEF LeakInv
<1>1. CASE UNCHANGED vars
  BY <1>1 DEF vars, LeakInv, NothingLeaks
<1>2. ASSUME NEW o \in Objects, Updates(o) PROVE NothingLeaks'
  BY <1>2, RefreshesHoldsOn, UpdaterHoldsOn DEF Updates, Threads
<1>3. ASSUME NEW w \in Workers, HandlerAsks(w) \/ AioAsks(w) \/ Refreshes(w) \/ Destroyed(w) PROVE NothingLeaks'
  BY <1>3, AsksHoldsOn, RefreshesHoldsOn, DestroyedHoldsOn DEF Threads, Others
<1>4. ASSUME NEW a \in Admins, Change(a) \/ GoesOn(a) PROVE NothingLeaks'
  BY <1>4, ChangeHoldsOn, ToldHoldsOn, AddHoldsOn, RegistryHoldsOn, DestroyedHoldsOn DEF GoesOn, Others
<1> QED BY <1>1, <1>2, <1>3, <1>4 DEF Next

\* No plugin outlives its use unseen: whatever is still there is registered, or a thread works on
\* it, or a thread is destroying it, and whenever the registry stays locked it is for such a thread.
THEOREM NothingIsLeaked == Spec => []NothingLeaks
<1>1. LeakInv => NothingLeaks
  BY DEF LeakInv
<1> QED BY <1>1, InitLeaksNothing, StepLeaksNothing, PTL DEF Spec
===============================================================================
