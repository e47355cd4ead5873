------------------------ MODULE FavoritesWorker_proofs ------------------------
(***************************************************************************)
(* Theorems of Settings with the worker of the favourites, for any number   *)
(* of threads, items, requests and crashes: every variable keeps to its     *)
(* type, the copies on disk follow the value in memory, and what the next   *)
(* start finds after a kill, or two, is a value memory has had since the     *)
(* last save that was finished.  Nothing the worker is asked for is         *)
(* forgotten.                                                               *)
(***************************************************************************)
EXTENDS FavoritesWorker, FiniteSetTheorems, TLAPS

\* What a request sets, or appends, are favourites.
FavouritesAreSlugs ==
  /\ \A t \in Threads : copy[t] \subseteq Slugs
  /\ \A t \in Threads : \A i \in DOMAIN todo[t] :
       todo[t][i].op \in {"set", "append"} => todo[t][i].arg \subseteq Slugs

\* A thread that is on its way has a change to make, and a copy to write.
InHand ==
  \A t \in Threads :
    /\ at[t] \in {"change", "save", "open", "write"} => todo[t] # <<>>
    /\ at[t] = "write" => left[t] # <<>>

\* Nothing goes on, and nothing counts as saved, unless the process is up.
Quiet == process # "up" => ~saved /\ \A t \in Threads : at[t] = "idle"

Current(c) == \E i \in DOMAIN SaveOrder : SaveOrder[i] = c

\* A save holds the mutex and writes the value of memory; the copies it has
\* still to write are left.
SavesMemory ==
  \A t \in Threads : at[t] \in {"open", "write"} =>
    /\ lock = t /\ dump[t] = mem
    /\ \A c \in Copies : Current(c) => file[c] = mem \/ \E j \in DOMAIN left[t] : left[t][j] = c

\* Where the copies differ from memory, a save is due or under way.
SaveIsDue ==
  process = "up" /\ saved =>
    \/ \A c \in Copies : Current(c) => file[c] = mem
    \/ \E t \in Threads : at[t] \in {"save", "open", "write"}

SInv == TypeOK /\ FavouritesAreSlugs /\ InHand /\ Quiet /\ SavesMemory /\ SaveIsDue

-------------------------------------------------------------------------------
LEMMA OrderIsOfCopies == SaveOrder \in Seq(Copies)
<1>1. /\ <<"cfg", "bak", "root", "rootbak">> \in Seq(Copies)
      /\ <<"cfg", "bak", "cfg", "bak">> \in Seq(Copies)
      /\ <<"cfg", "bak">> \in Seq(Copies)
      /\ <<"cfg", "root", "sources", "lists">> \in Seq(Copies)
  BY DEF Copies
<1> QED
  BY <1>1 DEF SaveOrder, SavePluginsState, SaveEpgFavorites, SaveCustomLogos, SaveChannelFilters,
       WithBackups, InOrder

\* The first copy that parses, or none does.
LEMMA FirstParsedIs ==
  ASSUME NEW n \in 1..4, NEW order \in [1..n -> Copies], NEW none
  PROVE  \/ \E i \in 1..n : Readable(order[i]) /\ FirstParsed(order, none) = file[order[i]]
         \/ (\A i \in 1..n : ~Readable(order[i])) /\ FirstParsed(order, none) = none
<1> DEFINE good == {i \in DOMAIN order : Readable(order[i])}
           first == CHOOSE i \in good : \A j \in good : i <= j
<1>1. CASE good = {}
  BY <1>1 DEF FirstParsed
<1>2. CASE good # {}
  <2>1. good \subseteq {1, 2, 3, 4}
    OBVIOUS
  <2>2. \E i \in good : \A j \in good : i <= j
    <3>1. CASE 1 \in good BY <2>1, <3>1
    <3>2. CASE 1 \notin good /\ 2 \in good BY <2>1, <3>2
    <3>3. CASE 1 \notin good /\ 2 \notin good /\ 3 \in good BY <2>1, <3>3
    <3>4. CASE 1 \notin good /\ 2 \notin good /\ 3 \notin good BY <1>2, <2>1, <3>4
    <3> QED BY <3>1, <3>2, <3>3, <3>4
  <2>3. first \in good
    BY <2>2
  <2>4. FirstParsed(order, none) = file[order[first]]
    BY <1>2 DEF FirstParsed
  <2> HIDE DEF first
  <2> QED BY <2>3, <2>4
<1> QED BY <1>1, <1>2

LEMMA FirstParsedIsValue ==
  ASSUME NEW n \in 1..4, NEW order \in [1..n -> Copies], NEW none \in Values,
         file \in [Copies -> Contents]
  PROVE  FirstParsed(order, none) \in Values
<1>1. \A i \in 1..n : Readable(order[i]) => file[order[i]] \in Values
  BY DEF Readable, Contents
<1>2. \/ \E i \in 1..n : Readable(order[i]) /\ FirstParsed(order, none) = file[order[i]]
      \/ FirstParsed(order, none) = none
  BY FirstParsedIs
<1> QED BY <1>1, <1>2

LEMMA LoadedIsValue ==
  ASSUME file \in [Copies -> Contents]
  PROVE  Loaded \in Values
<1>1. {} \in Values /\ Defaults \in Values
  BY SettingsAssumption DEF Values
<1>2. InOrder \in [1..4 -> Copies]
  BY DEF InOrder, Copies
<1>3. LoadPluginsState \in Values
  BY <1>1 DEF LoadPluginsState, Contents, Copies
<1>4. LoadEpgFavorites \in Values /\ LoadCustomLogos \in Values
  BY <1>1, <1>2, FirstParsedIsValue DEF LoadEpgFavorites, LoadCustomLogos
<1>5. LoadChannelFilters \in Values
  <2>1. FirstParsed(InOrder, {}) \in Values
    BY <1>1, <1>2, FirstParsedIsValue
  <2> QED BY <1>1, <2>1 DEF LoadChannelFilters, Values
<1> QED BY <1>3, <1>4, <1>5 DEF Loaded

LEMMA ResultIsValue ==
  ASSUME NEW c \in Changes, NEW m \in Values
  PROVE  Result(c, m) \in Values
BY DEF Result, Changes, Values, Items

\* A change the functions of the proxy make.
Good(c) == c \in Changes /\ (c.op \in {"set", "append"} => c.arg \subseteq Slugs)

LEMMA PutsAndTakesAreGood ==
  ASSUME NEW v \in Values
  PROVE  Good(Puts(v)) /\ Good(Takes(v)) /\ Good([Puts(v) EXCEPT !.keep = TRUE])
BY DEF Good, Puts, Takes, Changes

LEMMA SetsAreGood ==
  ASSUME NEW v \in SUBSET Slugs
  PROVE  /\ Good([op |-> "set", arg |-> v, keep |-> FALSE])
         /\ Good([op |-> "append", arg |-> v, keep |-> FALSE])
BY DEF Good, Changes, Values, Items

LEMMA ImportsAreGood ==
  ASSUME NEW v \in Values, NEW mode \in {"import", "replace"}
  PROVE  Good([op |-> mode, arg |-> v, keep |-> FALSE])
BY DEF Good, Changes

\* A request is one change, or two.
Few(q) == \E a, b : Good(a) /\ Good(b) /\ (q = <<a>> \/ q = <<a, b>>)

LEMMA EachIsFew ==
  ASSUME NEW S, \A c \in S : Good(c), NEW q \in Each(S)
  PROVE  Few(q)
BY DEF Each, Few

LEMMA RequestsAreFew == \A r \in Requests : Few(r)
<1>1. \A x \in Slugs \cup Cids : {x} \in Values
  BY DEF Values, Items
<1>2. \A x \in Slugs : {x} \in SUBSET Slugs
  OBVIOUS
<1>3. \A x \in Slugs \cup Cids : Good(Puts({x})) /\ Good(Takes({x}))
  BY <1>1, PutsAndTakesAreGood
<1>4. \A c \in SetCustomLogo \cup RemoveCustomLogo : Good(c)
  BY <1>3 DEF SetCustomLogo, RemoveCustomLogo
<1>5. \A c \in SetChannelFilter \cup RemoveChannelFilter : Good(c)
  BY <1>3 DEF SetChannelFilter, RemoveChannelFilter
<1>6. \A c \in ToggleDisabledCandidate : Good(c)
  BY <1>3 DEF ToggleDisabledCandidate
<1>7. \A c \in SetEpgFavorites \cup AddEpgFavorite : Good(c)
  BY <1>2, SetsAreGood DEF SetEpgFavorites, AddEpgFavorite
<1>8. \A c \in SaveEpgSource \cup DeleteEpgSource \cup ToggleEpgSource : Good(c)
  <2>1. \A x \in Slugs, v \in {{}, Cids} : ({x} \cup v) \in Values
    BY DEF Values, Items
  <2>2. \A x \in Slugs, v \in {{}, Cids} : Good(Puts({x} \cup v))
    BY <2>1, PutsAndTakesAreGood
  <2>3. \A c \in SaveEpgSource : Good(c)
    <3> DEFINE saved_url(x, v) == Puts({x} \cup v)
    <3>1. SaveEpgSource = {saved_url(x, v) : x \in Slugs, v \in {{}, Cids}}
      BY DEF SaveEpgSource
    <3>2. \A x \in Slugs, v \in {{}, Cids} : Good(saved_url(x, v))
      BY <2>2
    <3> HIDE DEF saved_url
    <3> QED BY <3>1, <3>2
  <2>4. \A c \in DeleteEpgSource \cup ToggleEpgSource : Good(c)
    BY <1>3 DEF DeleteEpgSource, ToggleEpgSource
  <2> QED BY <2>3, <2>4
<1>9. \A q \in LogoRequests : Few(q)
  <2> SUFFICES ASSUME NEW q \in LogoRequests PROVE Few(q)
    OBVIOUS
  <2>1. CASE q \in Each(SetCustomLogo \cup RemoveCustomLogo)
    BY <1>4, <2>1, EachIsFew
  <2>2. CASE \E x \in Slugs, c \in RemoveCustomLogo : q = <<Puts({x}), c>>
    BY <1>3, <1>4, <2>2 DEF Few
  <2> QED BY <2>1, <2>2 DEF LogoRequests
<1>10. \A q \in FilterRequests \cup EpgFilterRequests : Few(q)
  <2> SUFFICES ASSUME NEW q \in FilterRequests \cup EpgFilterRequests PROVE Few(q)
    OBVIOUS
  <2>1. CASE q \in Each(SetChannelFilter \cup RemoveChannelFilter)
    BY <1>5, <2>1, EachIsFew
  <2>2. CASE \E x \in Slugs, c \in RemoveChannelFilter : q = <<Puts({x}), c>>
    BY <1>3, <1>5, <2>2 DEF Few
  <2> QED BY <2>1, <2>2 DEF FilterRequests, EpgFilterRequests
<1>11. \A q \in FavoriteRequests \cup ApiFavoriteRequests : Few(q)
  <2>1. \A c \in SetEpgFavorites \cup AddEpgFavorite \cup ToggleDisabledCandidate : Good(c)
    BY <1>6, <1>7
  <2>2. \A c \in AddEpgFavorite \cup ToggleDisabledCandidate : Good(c)
    BY <2>1
  <2> QED BY <2>1, <2>2, EachIsFew DEF FavoriteRequests, ApiFavoriteRequests
<1>12. \A q \in PluginRequests : Few(q)
  <2> SUFFICES ASSUME NEW q \in PluginRequests PROVE Few(q)
    OBVIOUS
  <2>1. CASE q \in Each(SaveEpgSource \cup DeleteEpgSource \cup ToggleEpgSource)
    BY <1>8, <2>1, EachIsFew
  <2>2. CASE q \in ImportSources
    <3> DEFINE both(x, v, mode) == <<[Puts({x}) EXCEPT !.keep = TRUE],
                                     [op |-> mode, arg |-> v \cup {x}, keep |-> FALSE]>>
    <3>0. ImportSources = {both(x, v, mode) : x \in Cids, v \in SUBSET Slugs, mode \in {"import", "replace"}}
      BY DEF ImportSources
    <3> HIDE DEF both
    <3>1. PICK x \in Cids, v \in SUBSET Slugs, mode \in {"import", "replace"} : q = both(x, v, mode)
      BY <2>2, <3>0
    <3>2. {x} \in Values /\ v \cup {x} \in Values
      BY DEF Values, Items
    <3>3. Good([Puts({x}) EXCEPT !.keep = TRUE])
      BY <3>2, PutsAndTakesAreGood
    <3>4. Good([op |-> mode, arg |-> v \cup {x}, keep |-> FALSE])
      BY <3>2, ImportsAreGood
    <3> QED BY <3>1, <3>3, <3>4, Zenon DEF Few, both
  <2> QED BY <2>1, <2>2 DEF PluginRequests
<1> QED BY <1>9, <1>10, <1>11, <1>12 DEF Requests

LEMMA RequestsAreChanges ==
  ASSUME NEW r \in Requests
  PROVE  /\ r \in Seq(Changes) /\ r # <<>>
         /\ \A i \in DOMAIN r : r[i].op \in {"set", "append"} => r[i].arg \subseteq Slugs
<1>1. PICK a, b : Good(a) /\ Good(b) /\ (r = <<a>> \/ r = <<a, b>>)
  BY RequestsAreFew DEF Few
<1>2. a \in Changes /\ b \in Changes
  BY <1>1 DEF Good
<1>3. CASE r = <<a>>
  BY <1>1, <1>2, <1>3 DEF Good
<1>4. CASE r = <<a, b>>
  BY <1>1, <1>2, <1>4 DEF Good
<1> QED BY <1>1, <1>3, <1>4

-------------------------------------------------------------------------------
LEMMA EmptySequences == <<>> \in Seq(Changes) /\ <<>> \in Seq(Copies)
OBVIOUS

LEMMA InitHolds == Init => SInv
<1> SUFFICES ASSUME Init PROVE SInv
  OBVIOUS
<1>1. file \in [Copies -> Contents]
  <2>1. {} \in Values /\ Items \in Values
    BY DEF Values
  <2> QED BY <2>1 DEF Init, Contents
<1>2. Loaded \in Values
  BY <1>1, LoadedIsValue
<1>3. TypeOK
  <2>1. /\ todo \in [Threads -> Seq(Changes)] /\ left \in [Threads -> Seq(Copies)]
        /\ copy \in [Threads -> Values] /\ dump \in [Threads -> Values]
        /\ at \in [Threads -> Places] /\ mem \in Values
    BY EmptySequences DEF Init, Places, Values
  <2>2. requests \in 0..MaxRequests /\ crashes \in 0..MaxCrashes
    BY SettingsAssumption DEF Init
  <2> QED BY <1>1, <1>2, <2>1, <2>2 DEF Init, TypeOK, Roots
<1>4. FavouritesAreSlugs /\ InHand /\ Quiet
  BY DEF Init, FavouritesAreSlugs, InHand, Quiet
<1>5. SavesMemory /\ SaveIsDue
  BY DEF Init, SavesMemory, SaveIsDue
<1> QED BY <1>3, <1>4, <1>5 DEF SInv

\* The order of the copies does not change.
LEMMA OrderIsKept ==
  ASSUME UNCHANGED <<store, root>>
  PROVE  SaveOrder' = SaveOrder /\ \A c : Current(c)' = Current(c)
BY DEF SaveOrder, SavePluginsState, SaveEpgFavorites, SaveCustomLogos, SaveChannelFilters,
       WithBackups, Current

\* What the process does before it is up.
LEMMA StartKeeps ==
  ASSUME SInv, ProcessStarts
  PROVE  SInv'
<1> USE DEF SInv
<1>1. file' \in [Copies -> Contents] /\ process' \in {"preparing", "copied", "up"} /\ process # "up"
      /\ UNCHANGED <<store, root, lock, at, todo, copy, dump, left, requests, crashes, saved>>
  <2>1. CASE EnsureStructure
    BY <2>1 DEF EnsureStructure, TypeOK, Contents
  <2>2. CASE CopyEnds
    <3>1. EnsuredPlugins \in Values /\ EnsuredFavorites \in Values
      <4>1. <<"root">> \in [1..1 -> Copies] /\ <<"bak", "root">> \in [1..2 -> Copies]
        BY DEF Copies
      <4>2. Defaults \in Values
        BY SettingsAssumption DEF Values
      <4> QED BY <4>1, <4>2, FirstParsedIsValue DEF EnsuredPlugins, EnsuredFavorites, TypeOK
    <3> QED BY <2>2, <3>1 DEF CopyEnds, TypeOK, Contents
  <2>3. CASE Starts
    BY <2>3 DEF Starts, TypeOK
  <2> QED BY <2>1, <2>2, <2>3 DEF ProcessStarts
<1>2. mem' \in Values /\ kept' \in SUBSET Values
  BY LoadedIsValue DEF ProcessStarts, EnsureStructure, CopyEnds, Starts, TypeOK
<1>3. TypeOK'
  BY <1>1, <1>2 DEF TypeOK
<1>4. FavouritesAreSlugs' /\ InHand'
  BY <1>1 DEF FavouritesAreSlugs, InHand
<1>5. ~saved /\ \A t \in Threads : at[t] = "idle"
  BY <1>1 DEF Quiet
<1>6. Quiet' /\ SavesMemory' /\ SaveIsDue'
  BY <1>1, <1>5 DEF Quiet, SavesMemory, SaveIsDue
<1> QED BY <1>3, <1>4, <1>6

LEMMA CrashKeeps ==
  ASSUME SInv, Crash
  PROVE  SInv'
<1> USE DEF SInv
<1>1. TypeOK'
  <2>1. /\ todo' \in [Threads -> Seq(Changes)] /\ left' \in [Threads -> Seq(Copies)]
        /\ copy' \in [Threads -> Values] /\ dump' \in [Threads -> Values]
        /\ at' \in [Threads -> Places] /\ mem' \in Values
    BY EmptySequences DEF Crash, Places, Values
  <2>2. crashes' \in 0..MaxCrashes
    BY SettingsAssumption DEF Crash, TypeOK
  <2> QED BY <2>1, <2>2 DEF Crash, TypeOK
<1>2. FavouritesAreSlugs' /\ InHand' /\ Quiet'
  BY DEF Crash, FavouritesAreSlugs, InHand, Quiet
<1>3. SavesMemory' /\ SaveIsDue'
  BY DEF Crash, SavesMemory, SaveIsDue
<1> QED BY <1>1, <1>2, <1>3

\* A step of one thread that writes no copy and changes no value: it keeps the
\* others where they are.
LEMMA QuietStepKeeps ==
  ASSUME SInv, NEW t \in Threads, TypeOK', FavouritesAreSlugs', InHand',
         UNCHANGED <<store, root, file, process, mem, dump, left, saved>>,
         process = "up",
         NEW place \in {"idle", "change"}, at' = [at EXCEPT ![t] = place],
         at[t] \in {"idle", "change", "notify"},
         lock' = lock \/ (lock = t /\ lock' = Nobody)
  PROVE  SInv'
<1> USE DEF SInv
<1>1. Quiet'
  BY DEF Quiet
<1>2. SavesMemory'
  BY SettingsAssumption, OrderIsKept DEF SavesMemory, TypeOK
<1>3. SaveIsDue'
  BY OrderIsKept DEF SaveIsDue, TypeOK
<1> QED BY <1>1, <1>2, <1>3

LEMMA BusyIsUp ==
  ASSUME SInv, NEW t \in Threads, at[t] # "idle"
  PROVE  process = "up"
BY DEF SInv, Quiet

LEMMA AskKeeps ==
  ASSUME SInv, NEW t \in Threads, Ask(t)
  PROVE  SInv'
<1> USE DEF SInv
<1>1. PICK r \in Requests : todo' = [todo EXCEPT ![t] = r]
  BY DEF Ask
<1>2. /\ r \in Seq(Changes) /\ r # <<>>
      /\ \A i \in DOMAIN r : r[i].op \in {"set", "append"} => r[i].arg \subseteq Slugs
  BY RequestsAreChanges
<1>3. TypeOK'
  <2>1. requests' \in 0..MaxRequests
    BY SettingsAssumption DEF Ask, TypeOK
  <2> QED BY <1>1, <1>2, <2>1 DEF Ask, Goes, TypeOK, Places
<1>4. FavouritesAreSlugs'
  BY <1>1, <1>2 DEF Ask, FavouritesAreSlugs, TypeOK
<1>5. InHand'
  BY <1>1, <1>2 DEF Ask, Goes, InHand, TypeOK
<1> QED BY <1>3, <1>4, <1>5, QuietStepKeeps DEF Ask, Goes

\* The change a thread is about to make.
LEMMA ChangeInHand ==
  ASSUME SInv, NEW t \in Threads, at[t] \in {"change", "save", "open", "write"}
  PROVE  /\ todo[t] \in Seq(Changes) /\ todo[t] # <<>> /\ Head(todo[t]) \in Changes
         /\ Head(todo[t]).op \in {"set", "append"} => Head(todo[t]).arg \subseteq Slugs
<1>1. todo[t] \in Seq(Changes) /\ todo[t] # <<>>
  BY DEF SInv, TypeOK, InHand
<1>2. 1 \in DOMAIN todo[t] /\ Head(todo[t]) = todo[t][1]
  BY <1>1
<1> QED BY <1>1, <1>2 DEF SInv, FavouritesAreSlugs

LEMMA CopiedKeeps ==
  ASSUME SInv, NEW t \in Threads, Copied(t)
  PROVE  SInv'
<1> USE DEF SInv
<1> DEFINE c == Head(todo[t])
           all == (mem \cap Slugs) \cup c.arg
           set == [op |-> "set", arg |-> all, keep |-> FALSE]
<1>1. at[t] = "change" /\ c.op = "append"
  BY DEF Copied
<1>2. c \in Changes /\ c.arg \subseteq Slugs
  BY <1>1, ChangeInHand
<1>3. <<set>> \in Seq(Changes) /\ set.arg \subseteq Slugs
  BY <1>2 DEF Changes, Values, Items
<1>4. /\ \/ todo' = [todo EXCEPT ![t] = <<>>] /\ at' = [at EXCEPT ![t] = "idle"]
         \/ todo' = [todo EXCEPT ![t] = <<set>>] /\ at' = [at EXCEPT ![t] = "change"]
      /\ UNCHANGED <<store, root, file, process, mem, lock, copy, dump, left, requests, crashes, kept, saved>>
  BY DEF Copied, Goes
<1> HIDE DEF set
<1>5. TypeOK'
  BY <1>3, <1>4, EmptySequences DEF TypeOK, Places
<1>6. FavouritesAreSlugs'
  <2>1. \A i \in DOMAIN <<set>> : <<set>>[i] = set
    OBVIOUS
  <2>2. \A i : i \notin DOMAIN <<>>
    OBVIOUS
  <2>3. \A i \in DOMAIN todo'[t] : todo'[t][i].op \in {"set", "append"} => todo'[t][i].arg \subseteq Slugs
    <3>1. CASE todo' = [todo EXCEPT ![t] = <<>>]
      BY <2>2, <3>1 DEF TypeOK
    <3>2. CASE todo' = [todo EXCEPT ![t] = <<set>>]
      BY <1>3, <2>1, <3>2 DEF TypeOK
    <3> QED BY <1>4, <3>1, <3>2
  <2>4. \A u \in Threads \ {t} : todo'[u] = todo[u]
    BY <1>4 DEF TypeOK
  <2> QED BY <1>4, <2>3, <2>4 DEF FavouritesAreSlugs
<1>7. InHand'
  <2>1. <<set>> # <<>>
    OBVIOUS
  <2> QED BY <1>4, <2>1 DEF InHand, TypeOK
<1> QED BY <1>1, <1>4, <1>5, <1>6, <1>7, QuietStepKeeps, BusyIsUp

LEMMA ImportFailsKeeps ==
  ASSUME SInv, NEW t \in Threads, ImportFails(t)
  PROVE  SInv'
<1> USE DEF SInv, ImportFails, Goes
<1>1. TypeOK'
  BY DEF TypeOK, Places
<1>2. FavouritesAreSlugs' /\ InHand'
  BY DEF FavouritesAreSlugs, InHand, TypeOK
<1> QED BY <1>1, <1>2, QuietStepKeeps, BusyIsUp

LEMMA NotifiesKeeps ==
  ASSUME SInv, NEW t \in Threads, Notifies(t)
  PROVE  SInv'
<1> USE DEF SInv, Notifies, Goes
<1>1. TypeOK'
  BY DEF TypeOK, Places, Values
<1>2. FavouritesAreSlugs' /\ InHand'
  BY DEF FavouritesAreSlugs, InHand, TypeOK
<1> QED BY <1>1, <1>2, QuietStepKeeps, BusyIsUp

LEMMA ChangeKeeps ==
  ASSUME SInv, NEW t \in Threads, Change(t)
  PROVE  SInv'
<1> USE DEF SInv
<1> DEFINE c == Head(todo[t])
<1>1. at[t] = "change" /\ lock \in {Nobody, t}
  BY DEF Change, Enters
<1>2. c \in Changes /\ (c.op = "set" => c.arg \subseteq Slugs)
  BY <1>1, ChangeInHand
<1>3. mem \in Values /\ Result(c, mem) \in Values
  BY <1>2, ResultIsValue DEF TypeOK
<1>4. /\ mem' = Result(c, mem) /\ kept' = kept \cup {Result(c, mem)}
      /\ copy' = [copy EXCEPT ![t] = IF c.op = "set" THEN c.arg \ mem ELSE {}]
      /\ lock' \in {lock, t} /\ at' = [at EXCEPT ![t] = "save"]
      /\ UNCHANGED <<store, root, file, process, todo, dump, left, requests, crashes, saved>>
  BY DEF Change, Goes
<1> HIDE DEF c
<1>5. (IF c.op = "set" THEN c.arg \ mem ELSE {}) \in SUBSET Slugs
  BY <1>2
<1>6. TypeOK'
  BY <1>3, <1>4, <1>5 DEF TypeOK, Places, Values, Items
<1>7. FavouritesAreSlugs'
  BY <1>4, <1>5 DEF FavouritesAreSlugs, TypeOK
<1>8. InHand'
  BY <1>1, <1>4 DEF InHand, TypeOK
<1>9. Quiet'
  BY <1>1, <1>4 DEF Quiet, TypeOK
<1>10. SavesMemory'
  <2>1. \A u \in Threads : at[u] \notin {"open", "write"}
    BY <1>1, SettingsAssumption DEF SavesMemory
  <2> QED BY <1>4, <2>1 DEF SavesMemory, TypeOK
<1>11. SaveIsDue'
  BY <1>4 DEF SaveIsDue, TypeOK
<1> QED BY <1>6, <1>7, <1>8, <1>9, <1>10, <1>11

LEMMA SaveKeeps ==
  ASSUME SInv, NEW t \in Threads, Save(t)
  PROVE  SInv'
<1> USE DEF SInv
<1>1. at[t] = "save" /\ lock \in {Nobody, t}
  BY DEF Save, Enters
<1>2. /\ lock' = t /\ at' = [at EXCEPT ![t] = "open"]
      /\ dump' = [dump EXCEPT ![t] = mem] /\ left' = [left EXCEPT ![t] = SaveOrder]
      /\ UNCHANGED <<store, root, file, process, mem, todo, copy, requests, crashes, kept, saved>>
  BY DEF Save, Goes
<1>3. TypeOK'
  BY <1>2, OrderIsOfCopies DEF TypeOK, Places
<1>4. FavouritesAreSlugs' /\ InHand' /\ Quiet'
  BY <1>1, <1>2 DEF FavouritesAreSlugs, InHand, Quiet, TypeOK
<1>5. SavesMemory'
  <2>1. \A u \in Threads : at[u] \notin {"open", "write"}
    BY <1>1, SettingsAssumption DEF SavesMemory
  <2>2. \A c : Current(c)' = Current(c)
    BY <1>2, OrderIsKept
  <2> QED BY <1>2, <2>1, <2>2 DEF SavesMemory, TypeOK, Current
<1>6. SaveIsDue'
  BY <1>2 DEF SaveIsDue, TypeOK
<1> QED BY <1>3, <1>4, <1>5, <1>6

\* Nobody else saves.
LEMMA OneSaves ==
  ASSUME SInv, NEW t \in Threads, NEW u \in Threads,
         at[t] \in {"open", "write"}, at[u] \in {"open", "write"}
  PROVE  t = u
BY DEF SInv, SavesMemory

LEMMA TruncatesKeeps ==
  ASSUME SInv, NEW t \in Threads, Truncates(t)
  PROVE  SInv'
<1> USE DEF SInv
<1>1. at[t] = "open" /\ left[t] # <<>> /\ left[t] \in Seq(Copies)
  BY DEF Truncates, TypeOK
<1>2. /\ file' = [file EXCEPT ![left[t][1]] = Torn] /\ at' = [at EXCEPT ![t] = "write"]
      /\ UNCHANGED <<store, root, process, mem, lock, todo, copy, dump, left, requests, crashes, kept, saved>>
  BY <1>1 DEF Truncates, Goes
<1>3. TypeOK'
  BY <1>2 DEF TypeOK, Places, Contents
<1>4. FavouritesAreSlugs' /\ InHand' /\ Quiet'
  BY <1>1, <1>2 DEF FavouritesAreSlugs, InHand, Quiet, TypeOK
<1>5. SavesMemory'
  <2>1. \A c : Current(c)' = Current(c)
    BY <1>2, OrderIsKept
  <2>2. 1 \in DOMAIN left[t]
    BY <1>1
  <2>3. \A u \in Threads : at'[u] \in {"open", "write"} => u = t
    BY <1>1, <1>2, OneSaves DEF TypeOK
  <2> QED BY <1>1, <1>2, <2>1, <2>2, <2>3 DEF SavesMemory, TypeOK
<1>6. SaveIsDue'
  BY <1>2 DEF SaveIsDue, TypeOK
<1> QED BY <1>3, <1>4, <1>5, <1>6

LEMMA WritesKeeps ==
  ASSUME SInv, NEW t \in Threads, Writes(t)
  PROVE  SInv'
<1> USE DEF SInv
<1>1. at[t] = "write" /\ left[t] # <<>> /\ left[t] \in Seq(Copies)
  BY DEF Writes, TypeOK, InHand
<1>2. /\ file' = [file EXCEPT ![left[t][1]] = dump[t]] /\ at' = [at EXCEPT ![t] = "open"]
      /\ left' = [left EXCEPT ![t] = Tail(@)]
      /\ UNCHANGED <<store, root, process, mem, lock, todo, copy, dump, requests, crashes, kept, saved>>
  BY <1>1 DEF Writes, Goes
<1>3. TypeOK'
  <2>1. Tail(left[t]) \in Seq(Copies) /\ dump[t] \in Contents
    BY <1>1 DEF TypeOK, Contents
  <2> QED BY <1>2, <2>1 DEF TypeOK, Places
<1>4. FavouritesAreSlugs' /\ InHand' /\ Quiet'
  BY <1>1, <1>2 DEF FavouritesAreSlugs, InHand, Quiet, TypeOK
<1>5. SavesMemory'
  <2>1. \A c : Current(c)' = Current(c)
    BY <1>2, OrderIsKept
  <2>2. \A u \in Threads : at'[u] \in {"open", "write"} => u = t
    BY <1>1, <1>2, OneSaves DEF TypeOK
  <2>3. dump[t] = mem /\ lock = t
    BY <1>1 DEF SavesMemory
  <2>4. \A j \in DOMAIN left[t] : j = 1 \/ (j - 1 \in DOMAIN left'[t] /\ left'[t][j - 1] = left[t][j])
    BY <1>1, <1>2 DEF TypeOK
  <2>5. ASSUME NEW c \in Copies, Current(c)
        PROVE  file'[c] = mem \/ \E j \in DOMAIN left'[t] : left'[t][j] = c
    <3>1. CASE c = left[t][1]
      BY <1>2, <2>3, <3>1 DEF TypeOK
    <3>2. CASE c # left[t][1]
      <4>1. file[c] = mem \/ \E j \in DOMAIN left[t] : left[t][j] = c
        BY <1>1, <2>5 DEF SavesMemory
      <4>2. CASE file[c] = mem
        BY <1>2, <3>2, <4>2 DEF TypeOK
      <4>3. CASE \E j \in DOMAIN left[t] : left[t][j] = c
        BY <2>4, <3>2, <4>3
      <4> QED BY <4>1, <4>2, <4>3
    <3> QED BY <3>1, <3>2
  <2> QED BY <1>2, <2>1, <2>2, <2>3, <2>5 DEF SavesMemory, TypeOK
<1>6. SaveIsDue'
  BY <1>2 DEF SaveIsDue, TypeOK
<1> QED BY <1>3, <1>4, <1>5, <1>6

LEMMA LongIsNotEmpty ==
  ASSUME NEW q \in Seq(Changes), Len(q) # 0
  PROVE  q # <<>>
OBVIOUS

LEMMA SavedKeeps ==
  ASSUME SInv, NEW t \in Threads, Saved(t)
  PROVE  SInv'
<1> USE DEF SInv
<1>1. at[t] = "open" /\ left[t] = <<>> /\ todo[t] \in Seq(Changes) /\ todo[t] # <<>>
  BY ChangeInHand DEF Saved
<1>2. PICK place \in {"notify", "change", "idle"} :
        /\ at' = [at EXCEPT ![t] = place]
        /\ place = "change" => Len(todo[t]) > 1
  BY DEF Saved, Goes
<1>3. /\ kept' = {dump[t]} /\ saved' = TRUE /\ lock' \in {t, Nobody}
      /\ todo' = [todo EXCEPT ![t] = Tail(@)] /\ dump' = [dump EXCEPT ![t] = {}]
      /\ UNCHANGED <<store, root, file, process, mem, copy, left, requests, crashes>>
  BY DEF Saved
<1>4. /\ Tail(todo[t]) \in Seq(Changes) /\ (place = "change" => Tail(todo[t]) # <<>>)
      /\ \A i \in DOMAIN Tail(todo[t]) : i + 1 \in DOMAIN todo[t] /\ Tail(todo[t])[i] = todo[t][i + 1]
  <2> DEFINE q == todo[t]
  <2>1. q \in Seq(Changes) /\ q # <<>>
    BY <1>1
  <2> HIDE DEF q
  <2>2. Tail(q) \in Seq(Changes) /\ Len(Tail(q)) = Len(q) - 1
    BY <2>1
  <2>3. \A i \in DOMAIN Tail(q) : i + 1 \in DOMAIN q /\ Tail(q)[i] = q[i + 1]
    BY <2>1
  <2>4. Len(q) > 1 => Tail(q) # <<>>
    <3>1. Len(q) \in Nat
      BY <2>1
    <3>2. Len(q) > 1 => Len(Tail(q)) # 0
      BY <2>2, <3>1
    <3> QED BY <2>2, <3>2, LongIsNotEmpty
  <2> QED BY <1>2, <2>2, <2>3, <2>4 DEF q
<1>5. TypeOK'
  BY <1>2, <1>3, <1>4 DEF TypeOK, Places, Values
<1>6. FavouritesAreSlugs'
  BY <1>3, <1>4 DEF FavouritesAreSlugs, TypeOK
<1>7. InHand'
  BY <1>2, <1>3, <1>4 DEF InHand, TypeOK
<1>8. \A u \in Threads : at'[u] \notin {"open", "write"}
  BY <1>1, <1>2, OneSaves DEF TypeOK
<1>9. process = "up"
  BY <1>1, BusyIsUp
<1>10. Quiet' /\ SavesMemory'
  BY <1>3, <1>8, <1>9 DEF Quiet, SavesMemory
<1>11. \A c \in Copies : Current(c) => file[c] = mem
  BY <1>1 DEF SavesMemory
<1>12. SaveIsDue'
  BY <1>3, <1>11, OrderIsKept DEF SaveIsDue
<1> QED BY <1>5, <1>6, <1>7, <1>10, <1>12

LEMMA RequestKeeps ==
  ASSUME SInv, NEW t \in Threads, RequestGoesOn(t)
  PROVE  SInv'
BY CopiedKeeps, ChangeKeeps, ImportFailsKeeps, SaveKeeps, TruncatesKeeps, WritesKeeps, SavedKeeps
   DEF RequestGoesOn

\* Asking for a channel counts as a request, and no more.
LEMMA CountingKeeps ==
  ASSUME SInv, requests' \in 0..MaxRequests,
         UNCHANGED <<store, root, file, process, mem, lock, at, todo, copy, dump, left, crashes, kept, saved>>
  PROVE  SInv'
<1>1. TypeOK'
  BY DEF SInv, TypeOK
<1>2. FavouritesAreSlugs' /\ InHand' /\ Quiet'
  BY DEF SInv, FavouritesAreSlugs, InHand, Quiet
<1>3. SavesMemory' /\ SaveIsDue'
  BY OrderIsKept DEF SInv, SavesMemory, SaveIsDue
<1> QED BY <1>1, <1>2, <1>3 DEF SInv
-------------------------------------------------------------------------------
(* The worker.                                                              *)

\* What the worker itself needs: a call that interrupts the turn of a favourite
\* comes back to it.
Interrupted ==
  /\ resume \in {"serving", "passing", "urgent"}
  /\ worker = "probing" /\ resume = "urgent" => turn # Nobody

FavoritesInv == SInv /\ WorkerTypeOK /\ Interrupted

WorkerTypes == WorkerTypeOK /\ Interrupted

LEMMA FavoritesAreSlugs == Favorites \subseteq Slugs
BY WorkerAssumption DEF Favorites

\* Steps of the store leave the worker as it is.
LEMMA WorkerIsKept ==
  ASSUME WorkerTypes, TypeOK', UNCHANGED worker_vars
  PROVE  WorkerTypes'
BY DEF WorkerTypes, WorkerTypeOK, Interrupted, worker_vars

LEMMA FavoritesInitHolds == FInit => FavoritesInv
<1> SUFFICES ASSUME FInit PROVE FavoritesInv
  OBVIOUS
<1>1. SInv
  BY InitHolds DEF FInit
<1>2. queue \in Seq(Slugs)
  <2>1. queue = <<>>
    BY DEF FInit, WorkerInit
  <2> QED BY <2>1
<1>3. visits \in 0..MaxVisits
  <2>1. visits = 0
    BY DEF FInit, WorkerInit
  <2> QED BY <2>1, WorkerAssumption
<1>4. /\ worker = "off" /\ running = FALSE /\ slug = Nobody /\ turn = Nobody /\ resume = "serving"
      /\ pass = {} /\ pending = {} /\ owed = {} /\ watching = FALSE
  BY DEF FInit, WorkerInit
<1>5. WorkerTypeOK
  BY <1>1, <1>2, <1>3, <1>4 DEF WorkerTypeOK, WorkerPlaces, SInv
<1>6. Interrupted
  BY <1>4 DEF Interrupted
<1> QED BY <1>1, <1>5, <1>6 DEF FavoritesInv

\* The steps of the thread, one after the other.
LEMMA WorkerStepKeeps ==
  ASSUME FavoritesInv, WorkerGoesOn
  PROVE  FavoritesInv'
<1>1. UNCHANGED settings /\ UNCHANGED <<running, watching, visits>>
  BY DEF WorkerGoesOn, Warm, NextFavorite, Urgent, WakesUp, Serves, ProbeChannel, Rest
<1>2. SInv'
  <2>1. /\ UNCHANGED <<store, root, file, process, mem, lock, at, todo, copy, dump, left, crashes, kept, saved>>
        /\ requests' \in 0..MaxRequests
    BY <1>1 DEF settings, FavoritesInv, SInv, TypeOK
  <2> QED BY <2>1, CountingKeeps DEF FavoritesInv
<1> SUFFICES WorkerTypes'
  BY <1>2 DEF FavoritesInv, WorkerTypes
<1>3. TypeOK'
  BY <1>2 DEF SInv
<1>4. TakeOut /\ queue # <<>> =>
        /\ slug' \in Slugs /\ slug' # Nobody /\ queue' \in Seq(Slugs) /\ pending' \subseteq Slugs
        /\ worker' = "probing" /\ resume' = worker
  <2>1. queue \in Seq(Slugs) /\ pending \subseteq Slugs
    BY DEF FavoritesInv, WorkerTypeOK
  <2>2. queue # <<>> => Head(queue) \in Slugs /\ Tail(queue) \in Seq(Slugs)
    BY <2>1
  <2> QED BY <2>1, <2>2, WorkerAssumption DEF TakeOut
<1> USE <1>1, <1>3 DEF FavoritesInv, WorkerTypes, WorkerTypeOK, Interrupted, WorkerPlaces
<1>5. CASE Warm
  BY <1>5, FavoritesAreSlugs DEF Warm
<1>6. CASE NextFavorite
  BY <1>6, WorkerAssumption DEF NextFavorite
<1>7. CASE Urgent
  BY <1>4, <1>7 DEF Urgent
<1>8. CASE WakesUp
  BY <1>8 DEF WakesUp
<1>9. CASE Serves
  BY <1>4, <1>9, FavoritesAreSlugs DEF Serves
<1>10. CASE ProbeChannel
  BY <1>10 DEF ProbeChannel
<1> QED BY <1>5, <1>6, <1>7, <1>8, <1>9, <1>10 DEF WorkerGoesOn

LEMMA FavoritesChangedKeeps ==
  ASSUME FavoritesInv, NEW t \in Threads, FavoritesChanged(t)
  PROVE  FavoritesInv'
<1>1. SInv'
  BY NotifiesKeeps DEF FavoritesChanged, FavoritesInv
<1>2. copy[t] \subseteq Slugs
  BY DEF FavoritesInv, SInv, FavouritesAreSlugs
<1> DEFINE new == Unqueued(copy[t])
<1>3. new \subseteq Slugs /\ Cardinality(new) \in Nat
  <2>1. new \subseteq Slugs
    BY <1>2 DEF Unqueued
  <2> QED BY <2>1, WorkerAssumption, FS_Subset, FS_CardinalityType
<1>4. PICK order \in [1..Cardinality(new) -> new] : queue' = queue \o order
  BY DEF FavoritesChanged, NotifyFavoritesChanged
<1> HIDE DEF new
<1>5. order \in Seq(Slugs)
  BY <1>3, <1>4
<1>6. queue' \in Seq(Slugs)
  BY <1>4, <1>5 DEF FavoritesInv, WorkerTypeOK
<1>7. /\ pending' = pending \cup copy[t] /\ owed' = owed \cup copy[t]
      /\ UNCHANGED <<worker, running, slug, pass, turn, resume, watching, visits>>
  BY DEF FavoritesChanged, NotifyFavoritesChanged
<1>8. WorkerTypeOK' /\ Interrupted'
  BY <1>1, <1>2, <1>6, <1>7 DEF FavoritesInv, SInv, WorkerTypeOK, Interrupted
<1> QED BY <1>1, <1>8 DEF FavoritesInv

LEMMA ChannelProbeKeeps ==
  ASSUME FavoritesInv, NEW s \in Slugs, RequestChannelProbe(s)
  PROVE  FavoritesInv'
<1>1. requests' \in 0..MaxRequests
  BY SettingsAssumption DEF RequestChannelProbe, FavoritesInv, SInv, TypeOK
<1>2. SInv'
  BY <1>1, CountingKeeps DEF RequestChannelProbe, FavoritesInv
<1>3. queue' \in Seq(Slugs)
  BY DEF RequestChannelProbe, FavoritesInv, WorkerTypeOK
<1>4. WorkerTypeOK' /\ Interrupted'
  BY <1>2, <1>3 DEF RequestChannelProbe, FavoritesInv, SInv, WorkerTypeOK, Interrupted
<1> QED BY <1>2, <1>4 DEF FavoritesInv

\* Starting and stopping the worker, and the viewers.
LEMMA OutsideKeeps ==
  ASSUME FavoritesInv, ViewersComeAndGo \/ WorkerStarts \/ WorkerStops
  PROVE  FavoritesInv'
<1>1. UNCHANGED settings
  BY DEF ViewersComeAndGo, WorkerStarts, WorkerStops
<1>2. SInv'
  <2>1. /\ UNCHANGED <<store, root, file, process, mem, lock, at, todo, copy, dump, left, crashes, kept, saved>>
        /\ requests' \in 0..MaxRequests
    BY <1>1 DEF settings, FavoritesInv, SInv, TypeOK
  <2> QED BY <2>1, CountingKeeps DEF FavoritesInv
<1>3. WorkerTypeOK' /\ Interrupted'
  <2> USE <1>2, WorkerAssumption DEF FavoritesInv, SInv, WorkerTypeOK, Interrupted, WorkerPlaces
  <2>1. CASE ViewersComeAndGo
    BY <2>1 DEF ViewersComeAndGo
  <2>2. CASE WorkerStarts
    BY <2>2 DEF WorkerStarts
  <2>3. CASE WorkerStops
    BY <2>3 DEF WorkerStops
  <2> QED BY <2>1, <2>2, <2>3
<1> QED BY <1>2, <1>3 DEF FavoritesInv

LEMMA StoreStepKeeps ==
  ASSUME FavoritesInv, UNCHANGED worker_vars,
         ProcessStarts \/ Crash \/ \E t \in Threads : Ask(t) \/ RequestGoesOn(t)
  PROVE  FavoritesInv'
<1>1. SInv'
  BY StartKeeps, CrashKeeps, AskKeeps, RequestKeeps DEF FavoritesInv
<1> QED BY <1>1, WorkerIsKept DEF FavoritesInv, WorkerTypes, SInv

LEMMA FavoritesStep == FavoritesInv /\ [FNext]_vars => FavoritesInv'
<1> SUFFICES ASSUME FavoritesInv, [FNext]_vars PROVE FavoritesInv'
  OBVIOUS
<1>1. CASE ProcessStarts /\ UNCHANGED worker_vars
  BY <1>1, StoreStepKeeps
<1>2. CASE worker = "off" /\ Crash /\ UNCHANGED worker_vars
  BY <1>2, StoreStepKeeps
<1>3. ASSUME NEW t \in Threads, (Alone /\ Ask(t) /\ UNCHANGED worker_vars) \/ StoreGoesOn(t)
      PROVE  FavoritesInv'
  BY <1>3, StoreStepKeeps, FavoritesChangedKeeps DEF StoreGoesOn
<1>4. ASSUME NEW s \in Slugs, RequestChannelProbe(s) PROVE FavoritesInv'
  BY <1>4, ChannelProbeKeeps
<1>5. CASE ViewersComeAndGo \/ WorkerStarts \/ WorkerStops
  BY <1>5, OutsideKeeps
<1>6. CASE WorkerGoesOn
  BY <1>6, WorkerStepKeeps
<1>7. CASE UNCHANGED vars
  <2>1. UNCHANGED worker_vars /\ UNCHANGED settings
    BY <1>7 DEF vars
  <2>2. requests' \in 0..MaxRequests
    BY <2>1 DEF settings, FavoritesInv, SInv, TypeOK
  <2>3. SInv'
    BY <2>1, <2>2, CountingKeeps DEF settings, FavoritesInv
  <2> QED BY <2>1, <2>3, WorkerIsKept DEF FavoritesInv, WorkerTypes, SInv
<1> QED BY <1>1, <1>2, <1>3, <1>4, <1>5, <1>6, <1>7 DEF FNext

\* The inductive invariant holds in every state of the stores and the worker.
THEOREM Invariance == FSpec => []FavoritesInv
<1> QED BY FavoritesInitHolds, FavoritesStep, PTL DEF FSpec

\* Every variable keeps to its type; a call of probe_channel has a channel, and
\* a favourite that was interrupted its turn.
THEOREM Typing == FSpec => []WorkerTypeOK
<1>1. FavoritesInv => WorkerTypeOK
  BY DEF FavoritesInv
<1> QED BY <1>1, Invariance, PTL

LEMMA SInvFollows == SInv => DiskFollowsMemory
<1> SUFFICES ASSUME SInv, process = "up", saved, \A t \in Threads : at[t] = "idle",
                    NEW i \in DOMAIN SaveOrder
             PROVE  file[SaveOrder[i]] = mem
  BY DEF DiskFollowsMemory
<1>1. SaveOrder[i] \in Copies /\ Current(SaveOrder[i])
  BY OrderIsOfCopies DEF Current
<1> QED BY <1>1 DEF SInv, SaveIsDue

LEMMA StoresStep == SInv /\ [Next]_settings => SInv'
<1> SUFFICES ASSUME SInv, [Next]_settings PROVE SInv'
  OBVIOUS
<1>1. CASE UNCHANGED settings
  <2>1. requests' \in 0..MaxRequests
    BY <1>1 DEF settings, SInv, TypeOK
  <2> QED BY <1>1, <2>1, CountingKeeps DEF settings
<1>2. CASE Next
  BY <1>2, StartKeeps, CrashKeeps, AskKeeps, RequestKeeps, NotifiesKeeps DEF Next
<1> QED BY <1>1, <1>2

\* The stores by themselves: when no request is in progress every copy on disk
\* is the value in memory, whatever the order of changes, saves, crashes and
\* starts (save_epg_favorites and its like, called after the lock of the change
\* was given back).
THEOREM StoresFollowMemory == Spec => []DiskFollowsMemory
BY InitHolds, StoresStep, SInvFollows, PTL DEF Spec

\* The same with the worker of the favourites beside them.
THEOREM CopiesFollowMemory == FSpec => []DiskFollowsMemory
<1>1. FavoritesInv => DiskFollowsMemory
  BY SInvFollows DEF FavoritesInv
<1> QED BY <1>1, Invariance, PTL
-------------------------------------------------------------------------------
(* What the next start finds.                                               *)

\* The copies a start reads.
Loads == {"cfg", "bak", "root", "rootbak"}

\* What a start makes of the value of a copy, and of no value.
Read(v) == IF store = "filters" THEN v \cup Defaults ELSE v
Nothing == IF store \in {"plugins", "favourites"} THEN Defaults ELSE {}

\* Memory has had this value since the last save that was finished.
IsKept(v) == \E k \in kept : Read(v) = Read(k)

\* Only the filters do without a second pair of copies, and nobody writes it.
Placed ==
  /\ root # "apart" => store = "filters"
  /\ \A c \in Loads : ~Current(c) => file[c] = Absent

CopiesAreKept == \A c \in Loads : Readable(c) => IsKept(file[c])

MemoryIsKept == process = "up" => mem \in kept

\* A copy that no installation leaves out is missing before the first save
\* only, when there was nothing to load.
Second == IF root = "apart" THEN {"root", "rootbak"} ELSE {"cfg", "bak"}
FreshIsKept == \A c \in Second : Current(c) /\ file[c] = Absent => IsKept(Nothing)

\* A save gets to a copy after the ones before it.
InTurn ==
  root = "apart" =>
    \A i, j \in DOMAIN SaveOrder :
      i < j /\ file[SaveOrder[j]] = Torn => file[SaveOrder[i]] # Absent

\* Each crash tears a copy at most, and so does the writer at work.
Tears(c) == IF file[c] = Torn THEN 1 ELSE 0
Writing == process = "preparing" \/ \E t \in Threads : at[t] = "write"
FewAreTorn ==
  root = "apart" /\ store # "plugins" =>
    Tears("cfg") + Tears("bak") + Tears("root") + Tears("rootbak") <= crashes + IF Writing THEN 1 ELSE 0

\* main copies to the first copy before any other was ever written.
FirstIsPrepared ==
  process = "preparing" =>
    /\ store \in {"plugins", "favourites"} /\ file["cfg"] = Torn
    /\ \A c \in Loads \ {"cfg"} : file[c] # Torn

\* A save writes its order from the front; what it has written is there.
Written(t) == Len(SaveOrder) - Len(left[t])
SaveGoesOn(t) ==
  /\ at[t] = "write" => file[left[t][1]] = Torn
  /\ at[t] \in {"open", "write"} =>
       /\ Len(left[t]) <= Len(SaveOrder)
       /\ \A j \in DOMAIN left[t] : left[t][j] = SaveOrder[Written(t) + j]
       /\ \A i \in DOMAIN SaveOrder : i <= Written(t) => file[SaveOrder[i]] # Absent

RInv ==
  /\ Placed /\ CopiesAreKept /\ MemoryIsKept /\ FreshIsKept
  /\ InTurn /\ FewAreTorn /\ FirstIsPrepared
  /\ \A t \in Threads : SaveGoesOn(t)

LEMMA Orders ==
  ASSUME SInv, Placed
  PROVE  /\ SaveOrder = CASE store = "plugins" -> <<"cfg", "root", "sources", "lists">>
                          [] store # "plugins" /\ root = "apart" -> <<"cfg", "bak", "root", "rootbak">>
                          [] store # "plugins" /\ root = "same" -> <<"cfg", "bak", "cfg", "bak">>
                          [] OTHER -> <<"cfg", "bak">>
         /\ store \in AllStores /\ root \in Roots /\ (store = "plugins" => root = "apart")
<1>1. store \in AllStores /\ root \in Roots
  BY SettingsAssumption DEF SInv, TypeOK
<1> QED BY <1>1 DEF Placed, SaveOrder, SavePluginsState, SaveEpgFavorites, SaveCustomLogos, SaveChannelFilters,
     WithBackups, InOrder, AllStores, Roots

LEMMA OrderOfFour ==
  ASSUME NEW a, NEW b, NEW c, NEW d, SaveOrder = <<a, b, c, d>>
  PROVE  /\ Len(SaveOrder) = 4 /\ DOMAIN SaveOrder = 1..4 /\ DOMAIN SaveOrder = {1, 2, 3, 4}
         /\ SaveOrder[1] = a /\ SaveOrder[2] = b /\ SaveOrder[3] = c /\ SaveOrder[4] = d
         /\ \A x : Current(x) <=> x \in {a, b, c, d}
<1>1. Len(SaveOrder) = 4 /\ DOMAIN SaveOrder = 1..4 /\ DOMAIN SaveOrder = {1, 2, 3, 4}
  OBVIOUS
<1>2. SaveOrder[1] = a /\ SaveOrder[2] = b /\ SaveOrder[3] = c /\ SaveOrder[4] = d
  OBVIOUS
<1> QED BY <1>1, <1>2 DEF Current

LEMMA OrderOfTwo ==
  ASSUME NEW a, NEW b, SaveOrder = <<a, b>>
  PROVE  /\ Len(SaveOrder) = 2 /\ DOMAIN SaveOrder = 1..2 /\ DOMAIN SaveOrder = {1, 2}
         /\ SaveOrder[1] = a /\ SaveOrder[2] = b
         /\ \A x : Current(x) <=> x \in {a, b}
<1>1. Len(SaveOrder) = 2 /\ DOMAIN SaveOrder = 1..2 /\ DOMAIN SaveOrder = {1, 2}
  OBVIOUS
<1>2. SaveOrder[1] = a /\ SaveOrder[2] = b
  OBVIOUS
<1> QED BY <1>1, <1>2 DEF Current

LEMMA OrderHas ==
  ASSUME SInv, Placed
  PROVE  /\ Len(SaveOrder) \in Nat /\ DOMAIN SaveOrder = 1..Len(SaveOrder) /\ Len(SaveOrder) >= 2
         /\ SaveOrder[1] = "cfg" /\ \A i \in DOMAIN SaveOrder : SaveOrder[i] \in Copies /\ Current(SaveOrder[i])
         /\ root = "apart" => \A i, j \in DOMAIN SaveOrder : SaveOrder[i] = SaveOrder[j] => i = j
         /\ root = "apart" /\ store # "plugins" =>
              /\ \A i \in DOMAIN SaveOrder : SaveOrder[i] \in Loads
              /\ \A c \in Loads : Current(c)
              /\ 1..4 = DOMAIN SaveOrder /\ SaveOrder[2] = "bak" /\ SaveOrder[3] = "root" /\ SaveOrder[4] = "rootbak"
         /\ root # "apart" => Current("cfg") /\ Current("bak") /\ ~Current("root") /\ ~Current("rootbak")
         /\ store = "plugins" => /\ Current("cfg") /\ Current("root") /\ ~Current("bak") /\ ~Current("rootbak")
                                 /\ 2 \in DOMAIN SaveOrder /\ SaveOrder[2] = "root"
<1>1. CASE store = "plugins"
  <2>1. SaveOrder = <<"cfg", "root", "sources", "lists">>
    BY <1>1, Orders
  <2>2. /\ Len(SaveOrder) = 4 /\ DOMAIN SaveOrder = 1..4 /\ DOMAIN SaveOrder = {1, 2, 3, 4}
        /\ SaveOrder[1] = "cfg" /\ SaveOrder[2] = "root" /\ SaveOrder[3] = "sources" /\ SaveOrder[4] = "lists"
        /\ \A x : Current(x) <=> x \in {"cfg", "root", "sources", "lists"}
    BY <2>1, OrderOfFour
  <2> QED BY <1>1, <2>2, Orders DEF Copies, Loads
<1>2. CASE store # "plugins" /\ root = "apart"
  <2>1. SaveOrder = <<"cfg", "bak", "root", "rootbak">>
    BY <1>2, Orders
  <2>2. /\ Len(SaveOrder) = 4 /\ DOMAIN SaveOrder = 1..4 /\ DOMAIN SaveOrder = {1, 2, 3, 4}
        /\ SaveOrder[1] = "cfg" /\ SaveOrder[2] = "bak" /\ SaveOrder[3] = "root" /\ SaveOrder[4] = "rootbak"
        /\ \A x : Current(x) <=> x \in {"cfg", "bak", "root", "rootbak"}
    BY <2>1, OrderOfFour
  <2> QED BY <1>2, <2>2, Orders DEF Copies, Loads
<1>3. CASE store # "plugins" /\ root = "same"
  <2>1. SaveOrder = <<"cfg", "bak", "cfg", "bak">>
    BY <1>3, Orders
  <2>2. /\ Len(SaveOrder) = 4 /\ DOMAIN SaveOrder = 1..4 /\ DOMAIN SaveOrder = {1, 2, 3, 4}
        /\ SaveOrder[1] = "cfg" /\ SaveOrder[2] = "bak" /\ SaveOrder[3] = "cfg" /\ SaveOrder[4] = "bak"
        /\ \A x : Current(x) <=> x \in {"cfg", "bak", "cfg", "bak"}
    BY <2>1, OrderOfFour
  <2> QED BY <1>3, <2>2, Orders DEF Copies, Loads
<1>4. CASE store # "plugins" /\ root = "none"
  <2>1. SaveOrder = <<"cfg", "bak">>
    BY <1>4, Orders
  <2>2. /\ Len(SaveOrder) = 2 /\ DOMAIN SaveOrder = 1..2 /\ DOMAIN SaveOrder = {1, 2}
        /\ SaveOrder[1] = "cfg" /\ SaveOrder[2] = "bak"
        /\ \A x : Current(x) <=> x \in {"cfg", "bak"}
    BY <2>1, OrderOfTwo
  <2> QED BY <1>4, <2>2, Orders DEF Copies, Loads
<1> QED BY <1>1, <1>2, <1>3, <1>4, Orders DEF Roots

\* What memory has had, it keeps until the next save is finished.
LEMMA KeptGrows ==
  ASSUME UNCHANGED store, kept \subseteq kept', NEW v, IsKept(v)
  PROVE  IsKept(v)'
BY DEF IsKept, Read

\* A step that writes no copy: of a request, or the start of the process.
LEMMA NothingWritten ==
  ASSUME SInv, RInv, UNCHANGED <<store, root, file, crashes>>, kept \subseteq kept',
         process # "preparing", process' # "preparing", process' = "up" => mem' \in kept',
         \A t \in Threads :
           \/ at'[t] = at[t] /\ left'[t] = left[t]
           \/ at[t] # "write" /\ at'[t] \notin {"open", "write"}
           \/ at[t] # "write" /\ at'[t] = "open" /\ left'[t] = SaveOrder
  PROVE  RInv'
<1>1. SaveOrder' = SaveOrder /\ (\A c : Current(c)' = Current(c)) /\ Nothing' = Nothing /\ Second' = Second
  BY OrderIsKept DEF Nothing, Second
<1>2. \A c : Readable(c)' = Readable(c) /\ Tears(c)' = Tears(c)
  BY DEF Readable, Tears
<1>3. Placed' /\ MemoryIsKept' /\ FirstIsPrepared' /\ InTurn'
  BY <1>1 DEF RInv, Placed, MemoryIsKept, FirstIsPrepared, InTurn
<1>4. CopiesAreKept' /\ FreshIsKept'
  <2>1. \A c \in Loads : Readable(c) => IsKept(file[c])'
    BY KeptGrows DEF RInv, CopiesAreKept
  <2>2. \A c \in Second : Current(c) /\ file[c] = Absent => IsKept(Nothing)'
    BY <1>1, KeptGrows DEF RInv, FreshIsKept
  <2> QED BY <1>1, <1>2, <2>1, <2>2 DEF CopiesAreKept, FreshIsKept
<1>5. FewAreTorn'
  <2>1. Writing' = Writing
    BY DEF Writing
  <2> QED BY <1>2, <2>1 DEF RInv, FewAreTorn
<1>6. ASSUME NEW t \in Threads PROVE SaveGoesOn(t)'
  <2>1. SaveGoesOn(t) /\ Len(SaveOrder) \in Nat
    BY OrderHas DEF RInv
  <2>2. CASE at'[t] = at[t] /\ left'[t] = left[t]
    BY <1>1, <2>1, <2>2 DEF SaveGoesOn, Written
  <2>3. CASE at'[t] \notin {"open", "write"}
    BY <2>3 DEF SaveGoesOn
  <2>4. CASE at'[t] = "open" /\ left'[t] = SaveOrder
    BY <1>1, <2>1, <2>4, OrderHas DEF SaveGoesOn, Written, RInv
  <2> QED BY <2>2, <2>3, <2>4
<1> QED BY <1>3, <1>4, <1>5, <1>6 DEF RInv

\* A step of one thread that writes no copy.
LEMMA ThreadRecovers ==
  ASSUME SInv, RInv, NEW t \in Threads,
         Ask(t) \/ Copied(t) \/ Change(t) \/ ImportFails(t) \/ Save(t) \/ Notifies(t)
  PROVE  RInv'
<1>1. process = "up" /\ at[t] \in {"idle", "change", "save", "notify"}
  BY BusyIsUp DEF Ask, Copied, Change, ImportFails, Save, Notifies
<1>2. /\ UNCHANGED <<store, root, file, crashes, process>>
      /\ (kept' = kept /\ mem' = mem) \/ kept' = kept \cup {mem'}
      /\ \/ left' = left /\ at' = [at EXCEPT ![t] = at'[t]] /\ at'[t] \in {"idle", "change", "save"}
         \/ left' = [left EXCEPT ![t] = SaveOrder] /\ at' = [at EXCEPT ![t] = "open"]
  <2>1. at \in [Threads -> Places] /\ left \in [Threads -> Seq(Copies)]
    BY DEF SInv, TypeOK
  <2> QED BY <2>1 DEF Ask, Copied, Change, ImportFails, Save, Notifies, Goes
<1>3. at \in [Threads -> Places] /\ left \in [Threads -> Seq(Copies)]
  BY DEF SInv, TypeOK
<1>4. \A u \in Threads :
        \/ at'[u] = at[u] /\ left'[u] = left[u]
        \/ at[u] # "write" /\ at'[u] \notin {"open", "write"}
        \/ at[u] # "write" /\ at'[u] = "open" /\ left'[u] = SaveOrder
  BY <1>1, <1>2, <1>3
<1>5. kept \subseteq kept' /\ mem' \in kept'
  BY <1>1, <1>2 DEF RInv, MemoryIsKept
<1> QED BY <1>1, <1>2, <1>4, <1>5, NothingWritten

\* Nobody writes while the process is not up.
LEMMA NobodyWrites ==
  ASSUME SInv, process # "up"
  PROVE  \A t \in Threads : at[t] \notin {"open", "write"}
BY DEF SInv, Quiet

LEMMA EnsureStructureRecovers ==
  ASSUME SInv, RInv, EnsureStructure
  PROVE  RInv'
<1>1. /\ process = "down" /\ process' = "preparing" /\ file' = [file EXCEPT !["cfg"] = Torn]
      /\ store \in {"plugins", "favourites"} /\ file["cfg"] = Absent
      /\ UNCHANGED <<store, root, mem, at, left, crashes, kept>>
  BY DEF EnsureStructure, Missing
<1>2. root = "apart" /\ Placed /\ Absent # Torn /\ file \in [Copies -> Contents] /\ "cfg" \in Copies
  BY <1>1, SettingsAssumption DEF RInv, Placed, SInv, TypeOK, Copies
<1>3. SaveOrder' = SaveOrder /\ (\A c : Current(c)' = Current(c)) /\ Nothing' = Nothing /\ Second' = Second
  BY <1>1, OrderIsKept DEF Nothing, Second
<1>4. \A c \in Copies : c # "cfg" => file'[c] = file[c]
  BY <1>1, <1>2
<1>5. file'["cfg"] = Torn
  BY <1>1, <1>2
<1>6. 1 \in DOMAIN SaveOrder /\ SaveOrder[1] = "cfg" /\ Current("cfg") /\ DOMAIN SaveOrder = 1..Len(SaveOrder)
      /\ Len(SaveOrder) \in Nat /\ \A i \in DOMAIN SaveOrder : SaveOrder[i] \in Copies
  BY <1>2, OrderHas
<1>7. \A i, j \in DOMAIN SaveOrder : SaveOrder[i] = SaveOrder[j] => i = j
  BY <1>2, OrderHas
<1>8. Loads \subseteq Copies /\ Second \subseteq Loads \ {"cfg"}
  BY <1>2 DEF Loads, Copies, Second
<1>9. \A v : IsKept(v)' = IsKept(v)
  BY <1>1 DEF IsKept, Read
<1>10. Placed' /\ MemoryIsKept'
  BY <1>1, <1>3, <1>4, <1>6, <1>8 DEF RInv, Placed, MemoryIsKept
<1>11. CopiesAreKept' /\ FreshIsKept'
  <2>1. CopiesAreKept'
    BY <1>4, <1>5, <1>8, <1>9 DEF RInv, CopiesAreKept, Readable
  <2>2. FreshIsKept'
    BY <1>3, <1>4, <1>8, <1>9 DEF RInv, FreshIsKept
  <2> QED BY <2>1, <2>2
<1>12. InTurn'
  <2> SUFFICES ASSUME NEW i \in DOMAIN SaveOrder, NEW j \in DOMAIN SaveOrder, i < j, file'[SaveOrder[j]] = Torn
               PROVE  file'[SaveOrder[i]] # Absent
    BY <1>3 DEF InTurn
  <2>1. SaveOrder[j] # "cfg"
    BY <1>6, <1>7
  <2>2. file[SaveOrder[i]] # Absent
    BY <1>2, <1>4, <1>6, <2>1 DEF RInv, InTurn
  <2> QED BY <1>2, <1>4, <1>5, <1>6, <2>2
<1>13. \A c \in Loads \ {"cfg"} : file[c] # Torn
  <2> SUFFICES ASSUME NEW c \in Loads \ {"cfg"}, file[c] = Torn PROVE FALSE
    OBVIOUS
  <2>1. PICK j \in DOMAIN SaveOrder : SaveOrder[j] = c
    BY <1>2 DEF Placed, Current
  <2>2. 1 < j
    BY <1>6, <2>1
  <2> QED BY <1>1, <1>2, <1>6, <2>1, <2>2 DEF RInv, InTurn
<1>14. FirstIsPrepared'
  BY <1>1, <1>4, <1>5, <1>8, <1>13 DEF FirstIsPrepared
<1>15. FewAreTorn'
  <2>1. Writing' /\ Tears("cfg")' = 1 /\ crashes \in Nat
    BY <1>1, <1>5 DEF Writing, Tears, SInv, TypeOK
  <2>2. Tears("bak")' = 0 /\ Tears("root")' = 0 /\ Tears("rootbak")' = 0
    BY <1>4, <1>8, <1>13 DEF Tears, Loads
  <2> QED BY <1>1, <2>1, <2>2 DEF FewAreTorn
<1>16. \A t \in Threads : SaveGoesOn(t)'
  BY <1>1, NobodyWrites DEF SaveGoesOn
<1> QED BY <1>10, <1>11, <1>12, <1>14, <1>15, <1>16 DEF RInv

LEMMA CopyEndsRecovers ==
  ASSUME SInv, RInv, CopyEnds
  PROVE  RInv'
<1> DEFINE v == IF store = "plugins" THEN EnsuredPlugins ELSE EnsuredFavorites
<1>1. /\ process = "preparing" /\ process' = "copied" /\ file' = [file EXCEPT !["cfg"] = v]
      /\ UNCHANGED <<store, root, mem, at, left, crashes, kept>>
  BY DEF CopyEnds
<1>2. /\ store \in {"plugins", "favourites"} /\ root = "apart" /\ file["cfg"] = Torn
      /\ \A c \in Loads \ {"cfg"} : file[c] # Torn
      /\ Placed /\ Absent # Torn /\ file \in [Copies -> Contents] /\ "cfg" \in Copies
  BY <1>1, SettingsAssumption DEF RInv, FirstIsPrepared, Placed, SInv, TypeOK, Copies
<1>3. Current("cfg") /\ Current("root") /\ "root" \in Second /\ "root" \in Loads \ {"cfg"}
  BY <1>2, OrderHas DEF Loads, Second
<1>4. ~Readable("root") => IsKept(Defaults)
  BY <1>2, <1>3 DEF Readable, RInv, FreshIsKept, Nothing
<1>5. v \in Values /\ IsKept(v)
  <2>1. <<"root">> \in [1..1 -> Copies] /\ <<"bak", "root">> \in [1..2 -> Copies]
    BY DEF Copies
  <2>2. CASE store = "plugins"
    <3>1. \/ Readable("root") /\ v = file["root"]
          \/ ~Readable("root") /\ v = Defaults
      <4>1. \/ \E i \in 1..1 : Readable(<<"root">>[i]) /\ EnsuredPlugins = file[<<"root">>[i]]
            \/ (\A i \in 1..1 : ~Readable(<<"root">>[i])) /\ EnsuredPlugins = Defaults
        BY <2>1, FirstParsedIs DEF EnsuredPlugins
      <4> QED BY <2>2, <4>1
    <3> HIDE DEF v
    <3> QED BY <1>2, <1>3, <1>4, <3>1, SettingsAssumption DEF RInv, CopiesAreKept, Readable, Contents, Values, Copies
  <2>3. CASE store # "plugins"
    <3>1. \/ \E c \in {"bak", "root"} : Readable(c) /\ v = file[c]
          \/ ~Readable("root") /\ v = Defaults
      <4>1. \/ \E i \in 1..2 : Readable(<<"bak", "root">>[i]) /\ EnsuredFavorites = file[<<"bak", "root">>[i]]
            \/ (\A i \in 1..2 : ~Readable(<<"bak", "root">>[i])) /\ EnsuredFavorites = Defaults
        BY <2>1, FirstParsedIs DEF EnsuredFavorites
      <4> QED BY <2>3, <4>1
    <3> HIDE DEF v
    <3>2. {"bak", "root"} \subseteq Loads /\ {"bak", "root"} \subseteq Copies
      BY DEF Loads, Copies
    <3> QED BY <1>2, <1>4, <3>1, <3>2, SettingsAssumption DEF RInv, CopiesAreKept, Readable, Contents, Values
  <2> QED BY <2>2, <2>3
<1> HIDE DEF v
<1>6. v # Absent /\ v # Torn
  BY <1>5, SettingsAssumption DEF Values
<1>7. SaveOrder' = SaveOrder /\ (\A c : Current(c)' = Current(c)) /\ Nothing' = Nothing /\ Second' = Second
  BY <1>1, OrderIsKept DEF Nothing, Second
<1>8. file'["cfg"] = v /\ \A c \in Copies : c # "cfg" => file'[c] = file[c]
  BY <1>1, <1>2
<1>9. \A x : IsKept(x)' = IsKept(x)
  BY <1>1 DEF IsKept, Read
<1>10. Loads \subseteq Copies /\ Second \subseteq Loads \ {"cfg"} /\ \A i \in DOMAIN SaveOrder : SaveOrder[i] \in Copies
  BY <1>2, OrderHas DEF Loads, Copies, Second
<1>11. Placed' /\ MemoryIsKept' /\ FirstIsPrepared'
  BY <1>1, <1>3, <1>7, <1>8, <1>10 DEF RInv, Placed, MemoryIsKept, FirstIsPrepared
<1>12. CopiesAreKept' /\ FreshIsKept'
  <2>1. CopiesAreKept'
    BY <1>5, <1>8, <1>9, <1>10 DEF RInv, CopiesAreKept, Readable
  <2>2. FreshIsKept'
    BY <1>7, <1>8, <1>9, <1>10 DEF RInv, FreshIsKept
  <2> QED BY <2>1, <2>2
<1>13. InTurn'
  <2>1. \A c \in Copies : (file'[c] = Torn => file[c] = Torn) /\ (file'[c] = Absent => file[c] = Absent)
    BY <1>6, <1>8
  <2> QED BY <1>1, <1>7, <1>10, <2>1 DEF RInv, InTurn
<1>14. FewAreTorn'
  <2>1. Tears("cfg")' = 0 /\ crashes \in Nat
    BY <1>6, <1>8 DEF Tears, SInv, TypeOK
  <2>2. Tears("bak")' = 0 /\ Tears("root")' = 0 /\ Tears("rootbak")' = 0
    BY <1>2, <1>8, <1>10 DEF Tears, Loads
  <2> QED BY <1>1, <2>1, <2>2 DEF FewAreTorn
<1>15. \A t \in Threads : SaveGoesOn(t)'
  BY <1>1, NobodyWrites DEF SaveGoesOn
<1> QED BY <1>11, <1>12, <1>13, <1>14, <1>15 DEF RInv

LEMMA StartRecovers ==
  ASSUME SInv, RInv, ProcessStarts
  PROVE  RInv'
<1>1. CASE Starts
  BY <1>1, NothingWritten DEF Starts
<1> QED BY <1>1, EnsureStructureRecovers, CopyEndsRecovers DEF ProcessStarts

LEMMA CrashRecovers ==
  ASSUME SInv, RInv, Crash
  PROVE  RInv'
<1>1. /\ crashes' = crashes + 1 /\ process' = "down" /\ at' = [t \in Threads |-> "idle"]
      /\ UNCHANGED <<store, root, file, kept>> /\ crashes \in Nat
  BY DEF Crash, SInv, TypeOK
<1>2. SaveOrder' = SaveOrder /\ (\A c : Current(c)' = Current(c)) /\ Nothing' = Nothing /\ Second' = Second
  BY <1>1, OrderIsKept DEF Nothing, Second
<1>3. \A v : IsKept(v)' = IsKept(v)
  BY <1>1 DEF IsKept, Read
<1>4. Placed' /\ MemoryIsKept' /\ FirstIsPrepared' /\ InTurn'
  BY <1>1, <1>2 DEF RInv, Placed, MemoryIsKept, FirstIsPrepared, InTurn
<1>5. CopiesAreKept' /\ FreshIsKept'
  BY <1>1, <1>2, <1>3 DEF RInv, CopiesAreKept, FreshIsKept, Readable
<1>6. FewAreTorn'
  <2>1. \A c : Tears(c)' = Tears(c) /\ Tears(c) \in Nat
    BY <1>1 DEF Tears
  <2> QED BY <1>1, <2>1 DEF RInv, FewAreTorn
<1>7. \A t \in Threads : SaveGoesOn(t)'
  BY <1>1 DEF SaveGoesOn
<1> QED BY <1>4, <1>5, <1>6, <1>7 DEF RInv

LEMMA HeadIsFirst ==
  ASSUME NEW S, NEW s \in Seq(S), s # <<>>
  PROVE  Head(s) = s[1]
OBVIOUS

\* The copy a save comes to next.
LEMMA NextCopy ==
  ASSUME SInv, RInv, NEW t \in Threads, at[t] \in {"open", "write"}, left[t] # <<>>
  PROVE  /\ left[t] \in Seq(Copies) /\ left[t][1] \in Copies /\ Len(left[t]) \in Nat /\ Len(left[t]) >= 1
         /\ Written(t) + 1 \in DOMAIN SaveOrder /\ left[t][1] = SaveOrder[Written(t) + 1]
         /\ Written(t) \in Nat /\ Current(left[t][1])
         /\ \A u \in Threads \ {t} : at[u] \notin {"open", "write"}
<1>1. left[t] \in Seq(Copies)
  BY DEF SInv, TypeOK
<1>2. Len(left[t]) \in Nat /\ Len(left[t]) >= 1 /\ 1 \in DOMAIN left[t] /\ left[t][1] \in Copies
  BY <1>1
<1>3. Len(SaveOrder) \in Nat /\ DOMAIN SaveOrder = 1..Len(SaveOrder)
      /\ \A i \in DOMAIN SaveOrder : Current(SaveOrder[i])
  BY OrderHas DEF RInv
<1>4. Len(left[t]) <= Len(SaveOrder) /\ left[t][1] = SaveOrder[Written(t) + 1]
  BY <1>2 DEF RInv, SaveGoesOn
<1>5. Written(t) \in Nat /\ Written(t) + 1 \in DOMAIN SaveOrder
  BY <1>2, <1>3, <1>4 DEF Written
<1> QED BY <1>1, <1>2, <1>3, <1>4, <1>5, OneSaves

LEMMA TruncatesRecovers ==
  ASSUME SInv, RInv, NEW t \in Threads, Truncates(t)
  PROVE  RInv'
<1>1. at[t] = "open" /\ left[t] # <<>> /\ process = "up"
  BY BusyIsUp DEF Truncates
<1> DEFINE w == Written(t) + 1
<1>2. PICK h : h = left[t][1]
  OBVIOUS
<1>3. /\ left[t] \in Seq(Copies) /\ h \in Copies /\ w \in DOMAIN SaveOrder /\ h = SaveOrder[w]
      /\ Written(t) \in Nat /\ Current(h) /\ \A u \in Threads \ {t} : at[u] \notin {"open", "write"}
  BY <1>1, <1>2, NextCopy
<1>4. /\ file' = [file EXCEPT ![h] = Torn] /\ at' = [at EXCEPT ![t] = "write"]
      /\ UNCHANGED <<store, root, process, mem, left, crashes, kept>>
  <2>1. Head(left[t]) = h
    BY <1>1, <1>2, <1>3, HeadIsFirst
  <2> QED BY <2>1 DEF Truncates, Goes
<1>5. /\ file \in [Copies -> Contents] /\ at \in [Threads -> Places] /\ Absent # Torn /\ crashes \in Nat
      /\ Loads \subseteq Copies /\ Second \subseteq Loads /\ Placed
      /\ DOMAIN SaveOrder = 1..Len(SaveOrder) /\ Len(SaveOrder) \in Nat
      /\ \A i \in DOMAIN SaveOrder : SaveOrder[i] \in Copies
  BY SettingsAssumption, OrderHas DEF SInv, TypeOK, RInv, Loads, Copies, Second
<1>6. file'[h] = Torn /\ \A c \in Copies : c # h => file'[c] = file[c]
  BY <1>3, <1>4, <1>5
<1>7. SaveOrder' = SaveOrder /\ (\A c : Current(c)' = Current(c)) /\ Nothing' = Nothing /\ Second' = Second
  BY <1>4, OrderIsKept DEF Nothing, Second
<1>8. \A v : IsKept(v)' = IsKept(v)
  BY <1>4 DEF IsKept, Read
<1>9. Placed' /\ MemoryIsKept' /\ FirstIsPrepared'
  BY <1>1, <1>3, <1>4, <1>5, <1>6, <1>7 DEF RInv, Placed, MemoryIsKept, FirstIsPrepared
<1>10. CopiesAreKept' /\ FreshIsKept'
  <2>1. CopiesAreKept'
    BY <1>5, <1>6, <1>8 DEF RInv, CopiesAreKept, Readable
  <2>2. FreshIsKept'
    BY <1>5, <1>6, <1>7, <1>8 DEF RInv, FreshIsKept
  <2> QED BY <2>1, <2>2
<1>11. InTurn'
  <2> SUFFICES ASSUME root = "apart", NEW i \in DOMAIN SaveOrder, NEW j \in DOMAIN SaveOrder, i < j,
                      file'[SaveOrder[j]] = Torn
               PROVE  file'[SaveOrder[i]] # Absent
    BY <1>4, <1>7 DEF InTurn
  <2>1. file[SaveOrder[i]] # Absent
    <3>1. CASE SaveOrder[j] = h
      <4>1. j = w
        BY <1>3, <1>5, <3>1, OrderHas
      <4>2. i <= Written(t)
        BY <1>3, <1>5, <4>1
      <4> QED BY <1>1, <4>2 DEF RInv, SaveGoesOn
    <3>2. CASE SaveOrder[j] # h
      BY <1>5, <1>6, <3>2 DEF RInv, InTurn
    <3> QED BY <3>1, <3>2
  <2> QED BY <1>5, <1>6, <2>1
<1>12. FewAreTorn'
  <2> SUFFICES ASSUME root = "apart", store # "plugins"
               PROVE  Tears("cfg")' + Tears("bak")' + Tears("root")' + Tears("rootbak")' <= crashes + 1
    <3>1. Writing'
      BY <1>4, <1>5 DEF Writing
    <3> QED BY <1>4, <3>1 DEF FewAreTorn
  <2>1. ~Writing
    BY <1>1, <1>3 DEF Writing
  <2>2. Tears("cfg") + Tears("bak") + Tears("root") + Tears("rootbak") <= crashes
    BY <1>5, <2>1 DEF RInv, FewAreTorn, Tears
  <2>3. \A c \in Loads : Tears(c)' = IF c = h THEN 1 ELSE Tears(c)
    BY <1>5, <1>6 DEF Tears
  <2>4. \A c : Tears(c) \in {0, 1}
    BY DEF Tears
  <2>5. Tears("cfg")' = (IF "cfg" = h THEN 1 ELSE Tears("cfg")) /\ Tears("bak")' = (IF "bak" = h THEN 1 ELSE Tears("bak"))
        /\ Tears("root")' = (IF "root" = h THEN 1 ELSE Tears("root"))
        /\ Tears("rootbak")' = (IF "rootbak" = h THEN 1 ELSE Tears("rootbak"))
    BY <2>3 DEF Loads
  <2> QED BY <1>5, <2>2, <2>4, <2>5
<1>13. ASSUME NEW u \in Threads PROVE SaveGoesOn(u)'
  <2>1. CASE u = t
    <3>1. file'[left'[t][1]] = Torn
      BY <1>2, <1>4, <1>6
    <3>2. Written(t)' = Written(t)
      BY <1>4, <1>7 DEF Written
    <3>3. \A i \in DOMAIN SaveOrder : i <= Written(t) => file'[SaveOrder[i]] # Absent
      BY <1>1, <1>5, <1>6 DEF RInv, SaveGoesOn
    <3>4. /\ Len(left[t]) <= Len(SaveOrder)
          /\ \A j \in DOMAIN left[t] : left[t][j] = SaveOrder[Written(t) + j]
      BY <1>1 DEF RInv, SaveGoesOn
    <3> QED BY <1>4, <1>7, <2>1, <3>1, <3>2, <3>3, <3>4 DEF SaveGoesOn
  <2>2. CASE u # t
    BY <1>3, <1>4, <1>5, <2>2 DEF SaveGoesOn
  <2> QED BY <2>1, <2>2
<1> QED BY <1>9, <1>10, <1>11, <1>12, <1>13 DEF RInv

LEMMA WritesRecovers ==
  ASSUME SInv, RInv, NEW t \in Threads, Writes(t)
  PROVE  RInv'
<1>1. at[t] = "write" /\ left[t] # <<>> /\ process = "up"
  BY BusyIsUp DEF Writes, SInv, InHand
<1> DEFINE w == Written(t) + 1
<1>2. PICK h, v : h = left[t][1] /\ v = dump[t]
  OBVIOUS
<1>3. /\ left[t] \in Seq(Copies) /\ h \in Copies /\ w \in DOMAIN SaveOrder /\ h = SaveOrder[w]
      /\ Written(t) \in Nat /\ Current(h) /\ \A u \in Threads \ {t} : at[u] \notin {"open", "write"}
      /\ Len(left[t]) \in Nat /\ Len(left[t]) >= 1
  BY <1>1, <1>2, NextCopy
<1>4. /\ file' = [file EXCEPT ![h] = v] /\ at' = [at EXCEPT ![t] = "open"]
      /\ left' = [left EXCEPT ![t] = Tail(left[t])]
      /\ UNCHANGED <<store, root, process, mem, crashes, kept>>
  <2>1. Head(left[t]) = h
    BY <1>1, <1>2, <1>3, HeadIsFirst
  <2>2. left' = [left EXCEPT ![t] = Tail(left[t])]
    BY DEF Writes
  <2> QED BY <1>2, <2>1, <2>2 DEF Writes, Goes
<1>5. /\ file \in [Copies -> Contents] /\ at \in [Threads -> Places] /\ left \in [Threads -> Seq(Copies)]
      /\ Absent # Torn /\ crashes \in Nat
      /\ Loads \subseteq Copies /\ Second \subseteq Loads /\ Placed
      /\ DOMAIN SaveOrder = 1..Len(SaveOrder) /\ Len(SaveOrder) \in Nat
      /\ \A i \in DOMAIN SaveOrder : SaveOrder[i] \in Copies
  BY SettingsAssumption, OrderHas DEF SInv, TypeOK, RInv, Loads, Copies, Second
<1>6. file'[h] = v /\ \A c \in Copies : c # h => file'[c] = file[c]
  BY <1>3, <1>4, <1>5
<1>7. v = mem /\ v # Torn /\ v # Absent /\ IsKept(v)
  <2>1. v = mem /\ v \in Values
    BY <1>1, <1>2 DEF SInv, SavesMemory, TypeOK
  <2> QED BY <1>1, <2>1, SettingsAssumption DEF RInv, MemoryIsKept, IsKept, Values
<1>8. SaveOrder' = SaveOrder /\ (\A c : Current(c)' = Current(c)) /\ Nothing' = Nothing /\ Second' = Second
  BY <1>4, OrderIsKept DEF Nothing, Second
<1>9. \A x : IsKept(x)' = IsKept(x)
  BY <1>4 DEF IsKept, Read
<1>10. Placed' /\ MemoryIsKept' /\ FirstIsPrepared'
  BY <1>1, <1>3, <1>4, <1>5, <1>6, <1>8 DEF RInv, Placed, MemoryIsKept, FirstIsPrepared
<1>11. CopiesAreKept' /\ FreshIsKept'
  <2>1. CopiesAreKept'
    BY <1>5, <1>6, <1>7, <1>9 DEF RInv, CopiesAreKept, Readable
  <2>2. FreshIsKept'
    BY <1>5, <1>6, <1>7, <1>8, <1>9 DEF RInv, FreshIsKept
  <2> QED BY <2>1, <2>2
<1>12. InTurn'
  <2>1. \A c \in Copies : (file'[c] = Torn => file[c] = Torn) /\ (file'[c] = Absent => file[c] = Absent)
    BY <1>6, <1>7
  <2> QED BY <1>4, <1>5, <1>8, <2>1 DEF RInv, InTurn
<1>13. FewAreTorn'
  <2> SUFFICES ASSUME root = "apart", store # "plugins"
               PROVE  Tears("cfg")' + Tears("bak")' + Tears("root")' + Tears("rootbak")' <= crashes
    <3>1. \A c : Tears(c)' \in {0, 1}
      BY DEF Tears
    <3> QED BY <1>4, <1>5, <3>1 DEF FewAreTorn
  <2>1. h \in Loads /\ file[h] = Torn
    BY <1>1, <1>2, <1>3, <1>5, OrderHas DEF RInv, SaveGoesOn
  <2>2. Tears("cfg") + Tears("bak") + Tears("root") + Tears("rootbak") <= crashes + 1
    BY <1>5 DEF RInv, FewAreTorn, Tears
  <2>3. \A c \in Loads : Tears(c)' = IF c = h THEN 0 ELSE Tears(c)
    BY <1>5, <1>6, <1>7 DEF Tears
  <2>4. Tears(h) = 1 /\ \A c : Tears(c) \in {0, 1}
    BY <2>1 DEF Tears
  <2>5. Tears("cfg")' = (IF "cfg" = h THEN 0 ELSE Tears("cfg")) /\ Tears("bak")' = (IF "bak" = h THEN 0 ELSE Tears("bak"))
        /\ Tears("root")' = (IF "root" = h THEN 0 ELSE Tears("root"))
        /\ Tears("rootbak")' = (IF "rootbak" = h THEN 0 ELSE Tears("rootbak"))
    BY <2>3 DEF Loads
  <2>6. CASE h = "cfg"
    BY <1>5, <2>2, <2>4, <2>5, <2>6
  <2>7. CASE h = "bak"
    BY <1>5, <2>2, <2>4, <2>5, <2>7
  <2>8. CASE h = "root"
    BY <1>5, <2>2, <2>4, <2>5, <2>8
  <2>9. CASE h = "rootbak"
    BY <1>5, <2>2, <2>4, <2>5, <2>9
  <2> QED BY <2>1, <2>6, <2>7, <2>8, <2>9 DEF Loads
<1>14. ASSUME NEW u \in Threads PROVE SaveGoesOn(u)'
  <2>1. CASE u = t
    <3>1. /\ Len(Tail(left[t])) = Len(left[t]) - 1
          /\ \A j \in DOMAIN Tail(left[t]) : j + 1 \in DOMAIN left[t] /\ Tail(left[t])[j] = left[t][j + 1] /\ j \in Nat
      BY <1>1, <1>3
    <3>2. left'[t] = Tail(left[t]) /\ Written(t)' = w
      <4>1. left'[t] = Tail(left[t])
        BY <1>4, <1>5
      <4>2. Written(t)' = Len(SaveOrder) - (Len(left[t]) - 1)
        BY <1>8, <3>1, <4>1 DEF Written
      <4>3. Written(t) = Len(SaveOrder) - Len(left[t])
        BY DEF Written
      <4>4. Len(SaveOrder) - (Len(left[t]) - 1) = w
        BY <1>3, <1>5, <4>3
      <4> QED BY <4>1, <4>2, <4>4
    <3>3. /\ Len(left[t]) <= Len(SaveOrder)
          /\ \A j \in DOMAIN left[t] : left[t][j] = SaveOrder[Written(t) + j]
          /\ \A i \in DOMAIN SaveOrder : i <= Written(t) => file[SaveOrder[i]] # Absent
      BY <1>1 DEF RInv, SaveGoesOn
    <3>4. \A i \in DOMAIN SaveOrder : i <= w => file'[SaveOrder[i]] # Absent
      <4> SUFFICES ASSUME NEW i \in DOMAIN SaveOrder, i <= w PROVE file'[SaveOrder[i]] # Absent
        OBVIOUS
      <4>1. CASE SaveOrder[i] = h
        BY <1>6, <1>7, <4>1
      <4>2. CASE SaveOrder[i] # h
        <5>1. i <= Written(t)
          BY <1>3, <1>5, <4>2
        <5> QED BY <1>5, <1>6, <3>3, <4>2, <5>1
      <4> QED BY <4>1, <4>2
    <3>5. \A j \in DOMAIN left'[t] : left'[t][j] = SaveOrder[w + j]
      <4> SUFFICES ASSUME NEW j \in DOMAIN left'[t] PROVE left'[t][j] = SaveOrder[w + j]
        OBVIOUS
      <4>1. left'[t][j] = SaveOrder[Written(t) + (j + 1)] /\ j \in Nat
        BY <3>1, <3>2, <3>3
      <4>2. Written(t) + (j + 1) = w + j
        BY <1>3, <4>1
      <4> QED BY <4>1, <4>2
    <3>6. at'[t] = "open" /\ Len(left'[t]) <= Len(SaveOrder)
      BY <1>3, <1>4, <1>5, <3>1, <3>2, <3>3
    <3> HIDE DEF w
    <3> QED BY <1>8, <2>1, <3>2, <3>4, <3>5, <3>6 DEF SaveGoesOn
  <2>2. CASE u # t
    BY <1>3, <1>4, <1>5, <2>2 DEF SaveGoesOn
  <2> QED BY <2>1, <2>2
<1> QED BY <1>10, <1>11, <1>12, <1>13, <1>14 DEF RInv

\* What a finished save has written is all there is to find.
LEMMA SavedRecovers ==
  ASSUME SInv, RInv, NEW t \in Threads, Saved(t)
  PROVE  RInv'
<1>1. at[t] = "open" /\ left[t] = <<>> /\ process = "up"
  BY BusyIsUp DEF Saved
<1>2. at \in [Threads -> Places] /\ \A u \in Threads \ {t} : at[u] \notin {"open", "write"}
  BY <1>1, OneSaves DEF SInv, TypeOK
<1>3. PICK p : p = at'[t]
  OBVIOUS
<1>4. /\ UNCHANGED <<store, root, file, process, mem, left, crashes>> /\ kept' = {dump[t]}
      /\ at' = [at EXCEPT ![t] = p] /\ p \in {"notify", "change", "idle"}
  BY <1>2, <1>3 DEF Saved, Goes
<1>5. dump[t] = mem /\ \A c \in Copies : Current(c) => file[c] = mem
  BY <1>1 DEF SInv, SavesMemory
<1>6. mem # Torn /\ mem # Absent
  BY SettingsAssumption DEF SInv, TypeOK, Values
<1>7. SaveOrder' = SaveOrder /\ (\A c : Current(c)' = Current(c)) /\ Nothing' = Nothing /\ Second' = Second
  BY <1>4, OrderIsKept DEF Nothing, Second
<1>8. Loads \subseteq Copies /\ Second \subseteq Loads
  BY DEF Loads, Copies, Second
<1>9. Placed' /\ MemoryIsKept' /\ FirstIsPrepared' /\ InTurn'
  BY <1>1, <1>4, <1>5, <1>7 DEF RInv, Placed, MemoryIsKept, FirstIsPrepared, InTurn
<1>10. CopiesAreKept' /\ FreshIsKept'
  <2>1. CopiesAreKept'
    BY <1>4, <1>5, <1>8 DEF RInv, Placed, CopiesAreKept, Readable, IsKept
  <2>2. FreshIsKept'
    BY <1>4, <1>5, <1>6, <1>7, <1>8 DEF FreshIsKept
  <2> QED BY <2>1, <2>2
<1>11. FewAreTorn'
  <2>1. \A c \in Loads : Tears(c)' = 0
    BY <1>4, <1>5, <1>6, <1>8, SettingsAssumption DEF RInv, Placed, Tears
  <2>2. crashes' \in Nat
    BY <1>4 DEF SInv, TypeOK
  <2> QED BY <2>1, <2>2 DEF FewAreTorn, Loads
<1>12. \A u \in Threads : SaveGoesOn(u)'
  BY <1>2, <1>4 DEF SaveGoesOn
<1> QED BY <1>9, <1>10, <1>11, <1>12 DEF RInv

\* Whatever happens elsewhere.
LEMMA RestKeeps ==
  ASSUME RInv, UNCHANGED <<store, root, file, process, mem, at, left, crashes, kept>>
  PROVE  RInv'
<1>1. SaveOrder' = SaveOrder /\ (\A c : Current(c)' = Current(c))
  BY OrderIsKept
<1>2. Placed' /\ CopiesAreKept' /\ MemoryIsKept' /\ FreshIsKept'
  BY <1>1 DEF RInv, Placed, CopiesAreKept, MemoryIsKept, FreshIsKept, Readable, IsKept, Read, Nothing, Second
<1>3. InTurn' /\ FewAreTorn' /\ FirstIsPrepared'
  BY <1>1 DEF RInv, InTurn, FewAreTorn, FirstIsPrepared, Tears, Writing
<1>4. \A t \in Threads : SaveGoesOn(t)'
  BY <1>1 DEF RInv, SaveGoesOn, Written
<1> QED BY <1>2, <1>3, <1>4 DEF RInv

\* What a start makes of the copies: the value of one of them, or of none.
LEMMA StartReads ==
  ASSUME SInv
  PROVE  /\ store # "plugins" =>
              \/ \E c \in Loads : Readable(c) /\ Loaded = Read(file[c])
              \/ (\A c \in Loads : ~Readable(c)) /\ Loaded = Read(Nothing)
         /\ store = "plugins" =>
              \/ file["cfg"] = Torn \/ (file["cfg"] = Absent /\ file["root"] = Torn)
              \/ \E c \in {"cfg", "root"} : Readable(c) /\ Loaded = Read(file[c])
              \/ file["cfg"] = Absent /\ file["root"] = Absent /\ Loaded = Read(Nothing)
<1>1. store \in AllStores /\ Absent # Torn
  BY SettingsAssumption DEF SInv, TypeOK
<1>2. ASSUME NEW none
      PROVE  \/ \E c \in Loads : Readable(c) /\ FirstParsed(InOrder, none) = file[c]
             \/ (\A c \in Loads : ~Readable(c)) /\ FirstParsed(InOrder, none) = none
  <2>1. InOrder \in [1..4 -> Copies]
    BY DEF InOrder, Copies
  <2>2. \/ \E i \in 1..4 : Readable(InOrder[i]) /\ FirstParsed(InOrder, none) = file[InOrder[i]]
        \/ (\A i \in 1..4 : ~Readable(InOrder[i])) /\ FirstParsed(InOrder, none) = none
    BY <2>1, FirstParsedIs
  <2>3. /\ \A i \in 1..4 : InOrder[i] \in Loads
        /\ InOrder[1] = "cfg" /\ InOrder[2] = "bak" /\ InOrder[3] = "root" /\ InOrder[4] = "rootbak"
    BY DEF InOrder, Loads
  <2>4. \A c \in Loads : \E i \in 1..4 : InOrder[i] = c
    BY <2>3 DEF Loads
  <2> QED BY <2>2, <2>3, <2>4
<1>3. CASE store = "favourites"
  BY <1>2, <1>3 DEF Loaded, LoadEpgFavorites, Read, Nothing
<1>4. CASE store = "logos"
  BY <1>2, <1>4 DEF Loaded, LoadCustomLogos, Read, Nothing
<1>5. CASE store = "filters"
  BY <1>2, <1>5 DEF Loaded, LoadChannelFilters, Read, Nothing
<1>6. CASE store = "plugins"
  BY <1>1, <1>6 DEF Loaded, LoadPluginsState, Read, Nothing, Readable
<1> QED BY <1>1, <1>3, <1>4, <1>5, <1>6 DEF AllStores

LEMMA InitRecovers == Init => RInv
<1> SUFFICES ASSUME Init PROVE RInv
  OBVIOUS
<1>1. SInv
  BY InitHolds
<1>2. /\ process = "down" /\ crashes = 0 /\ kept = {Loaded} /\ (\A t \in Threads : at[t] = "idle")
      /\ root \in Roots /\ (root # "apart" => store = "filters")
  BY DEF Init, Roots
<1>3. PICK v \in {{}, Items}, present \in {{}, {"root", "rootbak"}, {"cfg", "bak", "root", "rootbak"}} :
        file = [c \in Copies |->
                  IF c \in present /\ (root = "apart" \/ c \in {"cfg", "bak"})
                     /\ ~(store = "plugins" /\ c \in {"bak", "rootbak"})
                  THEN v ELSE Absent]
  BY DEF Init
<1>4. v # Absent /\ v # Torn /\ Absent # Torn
  BY SettingsAssumption
<1>5. Loads \subseteq Copies /\ Second \subseteq Loads
  BY DEF Loads, Copies, Second
<1>6. /\ \A c \in Copies : file[c] \in {v, Absent} /\ file[c] # Torn
      /\ root # "apart" => file["root"] = Absent /\ file["rootbak"] = Absent
      /\ store = "plugins" => file["bak"] = Absent /\ file["rootbak"] = Absent
  BY <1>3, <1>4 DEF Copies
<1>7. \A c \in Loads : Readable(c) => file[c] = v
  BY <1>5, <1>6 DEF Readable
<1>8. Placed
  <2>1. CASE store = "plugins"
    <3>1. SaveOrder = <<"cfg", "root", "sources", "lists">>
      BY <2>1 DEF SaveOrder, SavePluginsState
    <3>2. Current("cfg") /\ Current("root")
      BY <3>1, OrderOfFour
    <3> QED BY <1>2, <1>6, <2>1, <3>2 DEF Placed, Loads
  <2>2. CASE store # "plugins" /\ root = "apart"
    <3>1. SaveOrder = <<"cfg", "bak", "root", "rootbak">>
      BY <2>2 DEF SaveOrder, SaveEpgFavorites, SaveCustomLogos, SaveChannelFilters, WithBackups, InOrder
    <3>2. Current("cfg") /\ Current("bak") /\ Current("root") /\ Current("rootbak")
      BY <3>1, OrderOfFour
    <3> QED BY <1>2, <1>6, <2>2, <3>2 DEF Placed, Loads
  <2>3. CASE store # "plugins" /\ root = "same"
    <3>1. SaveOrder = <<"cfg", "bak", "cfg", "bak">>
      BY <2>3 DEF SaveOrder, SaveEpgFavorites, SaveCustomLogos, SaveChannelFilters, WithBackups
    <3>2. Current("cfg") /\ Current("bak")
      BY <3>1, OrderOfFour
    <3> QED BY <1>2, <1>6, <2>3, <3>2 DEF Placed, Loads
  <2>4. CASE store # "plugins" /\ root = "none"
    <3>1. SaveOrder = <<"cfg", "bak">>
      BY <2>4 DEF SaveOrder, SaveEpgFavorites, SaveCustomLogos, SaveChannelFilters, WithBackups
    <3>2. Current("cfg") /\ Current("bak")
      BY <3>1, OrderOfTwo
    <3> QED BY <1>2, <1>6, <2>4, <3>2 DEF Placed, Loads
  <2>5. store = "plugins" => root = "apart"
    BY <1>2
  <2> QED BY <1>2, <2>1, <2>2, <2>3, <2>4, <2>5 DEF Roots
<1>9. \A x : Loaded = Read(x) => IsKept(x)
  BY <1>2 DEF IsKept, Read
<1>10. CopiesAreKept
  <2> SUFFICES ASSUME NEW c \in Loads, Readable(c) PROVE Loaded = Read(v)
    BY <1>7, <1>9 DEF CopiesAreKept
  <2>1. CASE store # "plugins"
    BY <1>1, <1>7, <2>1, StartReads
  <2>2. CASE store = "plugins"
    <3>1. c \in {"cfg", "root"}
      BY <1>6, <2>2 DEF Loads, Readable
    <3>2. {"cfg", "root"} \subseteq Loads
      BY DEF Loads
    <3>3. \E d \in {"cfg", "root"} : Readable(d) /\ Loaded = Read(file[d])
      BY <1>1, <1>5, <1>6, <2>2, <3>1, <3>2, StartReads DEF Readable
    <3> QED BY <1>7, <3>2, <3>3
  <2> QED BY <2>1, <2>2
<1>11. FreshIsKept
  <2> SUFFICES ASSUME NEW c \in Second, Current(c), file[c] = Absent PROVE Loaded = Read(Nothing)
    BY <1>9 DEF FreshIsKept
  <2>1. \A d \in Loads : file[d] = Absent
    <3>1. store = "plugins" => c # "rootbak"
      BY <1>1, <1>8, OrderHas
    <3>2. CASE root = "apart"
      <4>1. c \notin present
        BY <1>3, <1>4, <1>5, <3>1, <3>2 DEF Second
      <4>2. present = {}
        BY <3>2, <4>1 DEF Second
      <4> QED BY <1>3, <1>5, <4>2
    <3>3. CASE root # "apart"
      <4>1. c \notin present /\ c \in {"cfg", "bak"}
        BY <1>2, <1>3, <1>4, <1>5, <3>3 DEF Second
      <4>2. "cfg" \notin present /\ "bak" \notin present
        BY <4>1
      <4> QED BY <1>3, <1>6, <3>3, <4>2 DEF Loads, Copies
    <3> QED BY <3>2, <3>3
  <2>2. \A d \in Loads : ~Readable(d)
    BY <2>1 DEF Readable
  <2>3. "cfg" \in Loads /\ "root" \in Loads
    BY DEF Loads
  <2> QED BY <1>1, <1>4, <2>1, <2>2, <2>3, StartReads
<1>12. MemoryIsKept /\ FirstIsPrepared
  BY <1>2 DEF MemoryIsKept, FirstIsPrepared
<1>13. InTurn
  BY <1>1, <1>6, <1>8, OrderHas DEF InTurn
<1>14. FewAreTorn
  BY <1>2, <1>5, <1>6 DEF FewAreTorn, Tears, Loads
<1>15. \A t \in Threads : SaveGoesOn(t)
  BY <1>2 DEF SaveGoesOn
<1> QED BY <1>8, <1>10, <1>11, <1>12, <1>13, <1>14, <1>15 DEF RInv

LEMMA StoresRecoverStep == SInv /\ RInv /\ [Next]_settings => RInv'
<1> SUFFICES ASSUME SInv, RInv, [Next]_settings PROVE RInv'
  OBVIOUS
<1>1. CASE UNCHANGED settings
  BY <1>1, RestKeeps DEF settings
<1>2. CASE ProcessStarts \/ Crash
  BY <1>2, StartRecovers, CrashRecovers
<1>3. ASSUME NEW t \in Threads, Ask(t) \/ RequestGoesOn(t) \/ Notifies(t) PROVE RInv'
  BY <1>3, ThreadRecovers, TruncatesRecovers, WritesRecovers, SavedRecovers DEF RequestGoesOn
<1> QED BY <1>1, <1>2, <1>3 DEF Next

\* The worker writes nothing.
LEMMA FavoritesRecoverStep == FavoritesInv /\ RInv /\ [FNext]_vars => RInv'
<1> SUFFICES ASSUME SInv, RInv, [FNext]_vars PROVE RInv'
  BY DEF FavoritesInv
<1>1. CASE UNCHANGED settings \/ UNCHANGED vars
  BY <1>1, RestKeeps DEF settings, vars
<1>2. CASE ProcessStarts \/ Crash
  BY <1>2, StartRecovers, CrashRecovers
<1>3. ASSUME NEW t \in Threads, Ask(t) \/ StoreGoesOn(t) PROVE RInv'
  BY <1>3, ThreadRecovers, TruncatesRecovers, WritesRecovers, SavedRecovers
     DEF StoreGoesOn, RequestGoesOn, FavoritesChanged
<1>4. CASE \E s \in Slugs : RequestChannelProbe(s)
  BY <1>4, RestKeeps DEF RequestChannelProbe
<1>5. CASE ViewersComeAndGo \/ WorkerStarts \/ WorkerStops \/ WorkerGoesOn
  <2>1. UNCHANGED settings
    BY <1>5 DEF ViewersComeAndGo, WorkerStarts, WorkerStops, WorkerGoesOn, Warm, NextFavorite, Urgent,
       WakesUp, Serves, ProbeChannel, Rest
  <2> QED BY <1>1, <2>1
<1> QED BY <1>1, <1>2, <1>3, <1>4, <1>5 DEF FNext

\* Four copies, of which two kills and one writer tear three at most.
LEMMA RecoverableFollows == SInv /\ RInv => (crashes <= 2 => Recoverable)
<1> SUFFICES ASSUME SInv, RInv, crashes <= 2, ~Lost
             PROVE  \E v \in kept : Loaded = Read(v)
  BY DEF Recoverable, Read
<1>1. \A x : IsKept(x) /\ Loaded = Read(x) => \E v \in kept : Loaded = Read(v)
  BY DEF IsKept
<1>2. \A c \in Loads : Readable(c) => IsKept(file[c])
  BY DEF RInv, CopiesAreKept
<1>3. Absent # Torn /\ crashes \in Nat /\ Placed
  BY SettingsAssumption DEF SInv, TypeOK, RInv
<1>4. CASE store = "plugins"
  <2>1. root = "apart" /\ file["cfg"] # Torn
    BY <1>3, <1>4 DEF Lost, Placed
  <2>2. ~(file["cfg"] = Absent /\ file["root"] = Torn)
    BY <1>3, <1>4, <2>1, OrderHas DEF RInv, InTurn
  <2>3. file["root"] = Absent => IsKept(Nothing)
    BY <1>3, <1>4, <2>1, OrderHas DEF RInv, FreshIsKept, Second
  <2>4. {"cfg", "root"} \subseteq Loads
    BY DEF Loads
  <2> QED BY <1>1, <1>2, <1>4, <2>1, <2>2, <2>3, <2>4, StartReads
<1>5. CASE store # "plugins"
  <2>1. CASE \E c \in Loads : Readable(c)
    BY <1>1, <1>2, <1>5, <2>1, StartReads
  <2>2. CASE \A c \in Loads : ~Readable(c)
    <3>1. Loaded = Read(Nothing)
      BY <1>5, <2>2, StartReads
    <3>2. \A c \in Loads : file[c] \in {Absent, Torn}
      BY <2>2 DEF Readable
    <3>3. CASE root = "apart"
      <4>1. \E c \in Loads : file[c] = Absent
        <5> SUFFICES ASSUME \A c \in Loads : file[c] = Torn PROVE FALSE
          BY <3>2
        <5>1. Tears("cfg") = 1 /\ Tears("bak") = 1 /\ Tears("root") = 1 /\ Tears("rootbak") = 1
          BY DEF Tears, Loads
        <5> QED BY <1>3, <1>5, <3>3, <5>1 DEF RInv, FewAreTorn
      <4>2. CASE file["root"] = Absent \/ file["rootbak"] = Absent
        <5>1. IsKept(Nothing)
          BY <1>3, <1>5, <3>3, <4>2, OrderHas DEF RInv, FreshIsKept, Second, Loads
        <5> QED BY <1>1, <3>1, <5>1
      <4>3. CASE file["root"] = Torn
        <5>1. file["cfg"] # Absent /\ file["bak"] # Absent
          <6>1. /\ {1, 2, 3} \subseteq DOMAIN SaveOrder
                /\ SaveOrder[1] = "cfg" /\ SaveOrder[2] = "bak" /\ SaveOrder[3] = "root"
            BY <1>3, <1>5, <3>3, OrderHas
          <6> QED BY <3>3, <4>3, <6>1 DEF RInv, InTurn
        <5>2. file["rootbak"] = Absent
          BY <1>3, <4>1, <4>3, <5>1 DEF Loads
        <5> QED BY <4>2, <5>2
      <4> QED BY <3>2, <4>2, <4>3 DEF Loads
    <3>4. CASE root # "apart"
      <4>1. store = "filters" /\ (file["cfg"] = Absent \/ file["bak"] = Absent)
        BY <1>3, <3>2, <3>4 DEF Placed, Lost, Loads
      <4>2. IsKept(Nothing)
        BY <1>3, <3>4, <4>1, OrderHas DEF RInv, FreshIsKept, Second
      <4> QED BY <1>1, <3>1, <4>2
    <3> QED BY <3>3, <3>4
  <2> QED BY <2>1, <2>2
<1> QED BY <1>4, <1>5

\* As long as the process has not been killed more than twice, the next start
\* finds a value that memory has had since the last save that was finished
\* (load_plugins_state, load_epg_favorites and their like, after a kill at any
\* step of a save): for each of the stores, whatever requests came and in
\* whatever order.
THEOREM StoresRecover == Spec => [](crashes <= 2 => Recoverable)
<1>1. Init => SInv /\ RInv
  BY InitHolds, InitRecovers
<1>2. SInv /\ RInv /\ [Next]_settings => (SInv /\ RInv)'
  BY StoresStep, StoresRecoverStep
<1> QED BY <1>1, <1>2, RecoverableFollows, PTL DEF Spec

\* The same with the worker of the favourites beside them, which writes nothing.
THEOREM FavoritesRecover == FSpec => [](crashes <= 2 => Recoverable)
<1>1. FInit => FavoritesInv /\ RInv
  BY FavoritesInitHolds, InitRecovers DEF FInit
<1>2. FavoritesInv /\ RInv /\ [FNext]_vars => (FavoritesInv /\ RInv)'
  BY FavoritesStep, FavoritesRecoverStep
<1>3. FavoritesInv /\ RInv => (crashes <= 2 => Recoverable)
  BY RecoverableFollows DEF FavoritesInv
<1> QED BY <1>1, <1>2, <1>3, PTL DEF FSpec

\* In behaviours with two kills at most nothing is lost but what is Lost
\* (the filters without a second directory, and the state of the plugins).
THEOREM TwoKillsAreSurvived ==
  ASSUME MaxCrashes <= 2
  PROVE  FSpec => []Recoverable
<1>1. WorkerTypeOK => crashes <= 2
  BY SettingsAssumption DEF WorkerTypeOK, TypeOK
<1>2. FSpec => [](crashes <= 2 => Recoverable)
  BY FavoritesRecover
<1>3. WorkerTypeOK /\ (crashes <= 2 => Recoverable) => Recoverable
  BY <1>1
<1> QED BY <1>2, <1>3, Typing, PTL
-------------------------------------------------------------------------------
(* What the worker is asked for.                                            *)

InQueue(q) == {q[i] : i \in DOMAIN q}
Once(q) == \A i, j \in DOMAIN q : q[i] = q[j] => i = j

\* The channels in the queue are the pending ones, each of them there once.  As
\* long as the worker has not been stopped, a channel that was asked for and has
\* not been probed since is one of them, or the one that is being probed.
NothingIsForgotten ==
  /\ InQueue(queue) = pending /\ Once(queue)
  /\ running \/ worker = "off" => owed \subseteq pending \cup {slug}

\* Only the call of probe_channel has a channel.
Probes == worker # "probing" => slug = Nobody

QInv == NothingIsForgotten /\ Probes

LEMMA InFront ==
  ASSUME NEW S, NEW q \in Seq(S), Once(q), NEW s \in S, s \notin InQueue(q)
  PROVE  InQueue(<<s>> \o q) = {s} \cup InQueue(q) /\ Once(<<s>> \o q)
<1> DEFINE r == <<s>> \o q
<1>1. /\ Len(q) \in Nat /\ DOMAIN q = 1..Len(q) /\ DOMAIN r = 1..(Len(q) + 1)
      /\ r[1] = s /\ \A i \in 1..Len(q) : r[i + 1] = q[i]
  OBVIOUS
<1> HIDE DEF r
<1>2. \A i \in DOMAIN r : i = 1 \/ (i - 1 \in DOMAIN q /\ r[i] = q[i - 1])
  BY <1>1
<1>3. \A i \in DOMAIN q : i + 1 \in DOMAIN r /\ r[i + 1] = q[i] /\ 1 \in DOMAIN r
  BY <1>1
<1>4. InQueue(r) = {s} \cup InQueue(q)
  <2>1. 1 \in DOMAIN r
    BY <1>1
  <2> QED BY <1>1, <1>2, <1>3, <2>1 DEF InQueue
<1>5. Once(r)
  <2> SUFFICES ASSUME NEW i \in DOMAIN r, NEW j \in DOMAIN r, r[i] = r[j] PROVE i = j
    BY DEF Once
  <2>1. CASE i = 1 \/ j = 1
    BY <1>1, <1>2, <2>1 DEF InQueue
  <2>2. CASE i # 1 /\ j # 1
    <3>1. i - 1 = j - 1
      BY <1>2, <2>2 DEF Once
    <3> QED BY <1>1, <3>1
  <2> QED BY <2>1, <2>2
<1> QED BY <1>4, <1>5 DEF r

LEMMA FromFront ==
  ASSUME NEW S, NEW q \in Seq(S), q # <<>>, Once(q)
  PROVE  InQueue(Tail(q)) = InQueue(q) \ {Head(q)} /\ Once(Tail(q))
<1> DEFINE r == Tail(q)
<1>1. /\ Len(q) \in Nat /\ DOMAIN q = 1..Len(q) /\ Len(q) >= 1 /\ DOMAIN r = 1..(Len(q) - 1)
      /\ \A i \in DOMAIN r : r[i] = q[i + 1]
  OBVIOUS
<1>2. Head(q) = q[1]
  OBVIOUS
<1> HIDE DEF r
<1>3. \A i \in DOMAIN r : i + 1 \in DOMAIN q /\ i + 1 # 1 /\ r[i] = q[i + 1]
  BY <1>1
<1>4. \A i \in DOMAIN q : i = 1 \/ (i - 1 \in DOMAIN r /\ r[i - 1] = q[i])
  BY <1>1
<1>5. InQueue(r) = InQueue(q) \ {q[1]}
  <2>1. 1 \in DOMAIN q
    BY <1>1
  <2> QED BY <1>3, <1>4, <2>1 DEF InQueue, Once
<1>6. Once(r)
  <2> SUFFICES ASSUME NEW i \in DOMAIN r, NEW j \in DOMAIN r, r[i] = r[j] PROVE i = j
    BY DEF Once
  <2>1. i + 1 = j + 1
    BY <1>3 DEF Once
  <2> QED BY <1>1, <2>1
<1> QED BY <1>2, <1>5, <1>6 DEF r

LEMMA AtTheEnd ==
  ASSUME NEW S, NEW q \in Seq(S), Once(q), NEW T \in SUBSET S, IsFiniteSet(T), T \cap InQueue(q) = {},
         NEW o \in [1..Cardinality(T) -> T], \A x \in T : \E i \in DOMAIN o : o[i] = x
  PROVE  InQueue(q \o o) = InQueue(q) \cup T /\ Once(q \o o)
<1> DEFINE r == q \o o
<1>1. PICK n \in Nat : n = Cardinality(T)
  BY FS_CardinalityType
<1>2. o \in Seq(S) /\ Len(o) = n /\ DOMAIN o = 1..n
  BY <1>1
<1>3. /\ Len(q) \in Nat /\ DOMAIN q = 1..Len(q) /\ DOMAIN r = 1..(Len(q) + n)
      /\ \A i \in 1..Len(q) : r[i] = q[i]
      /\ \A i \in 1..n : r[Len(q) + i] = o[i]
  BY <1>2
<1> HIDE DEF r
<1>4. Once(o)
  <2>1. IsFiniteSet(1..n) /\ Cardinality(1..n) = n
    BY FS_Interval
  <2>2. o \in Surjection(1..n, T)
    BY <1>1, <1>2 DEF Surjection
  <2>3. o \in Injection(1..n, T)
    BY <1>1, <2>1, <2>2, FS_SurjSameCardinalityImpliesInj
  <2> QED BY <1>2, <2>3 DEF Once, Injection, IsInjective
<1>5. \A i \in DOMAIN r : \/ i \in DOMAIN q /\ r[i] = q[i]
                          \/ i - Len(q) \in DOMAIN o /\ r[i] = o[i - Len(q)]
  <2> SUFFICES ASSUME NEW i \in DOMAIN r, i \notin DOMAIN q
               PROVE  i - Len(q) \in DOMAIN o /\ r[i] = o[i - Len(q)]
    BY <1>3
  <2>1. i - Len(q) \in 1..n /\ Len(q) + (i - Len(q)) = i
    BY <1>3
  <2> QED BY <1>2, <1>3, <2>1
<1>6. \A i \in DOMAIN q : i \in DOMAIN r /\ r[i] = q[i]
  BY <1>3
<1>7. \A i \in DOMAIN o : Len(q) + i \in DOMAIN r /\ r[Len(q) + i] = o[i]
  BY <1>2, <1>3
<1>8. InQueue(r) = InQueue(q) \cup T
  <2>1. \A i \in DOMAIN o : o[i] \in T
    BY <1>1, <1>2
  <2> QED BY <1>5, <1>6, <1>7, <2>1 DEF InQueue
<1>9. Once(r)
  <2> SUFFICES ASSUME NEW i \in DOMAIN r, NEW j \in DOMAIN r, r[i] = r[j] PROVE i = j
    BY DEF Once
  <2>1. \A k \in DOMAIN o : o[k] \in T
    BY <1>1, <1>2
  <2>2. CASE i \in DOMAIN q /\ j \in DOMAIN q
    BY <1>6, <2>2 DEF Once
  <2>3. CASE i \notin DOMAIN q /\ j \notin DOMAIN q
    <3>1. i - Len(q) = j - Len(q)
      BY <1>4, <1>5, <2>3 DEF Once
    <3> QED BY <1>3, <3>1
  <2>4. CASE ~(i \in DOMAIN q <=> j \in DOMAIN q)
    BY <1>5, <2>1, <2>4 DEF InQueue
  <2> QED BY <2>2, <2>3, <2>4
<1> QED BY <1>8, <1>9 DEF r

LEMMA TakenOut ==
  ASSUME FavoritesInv, QInv, TakeOut, queue # <<>>, worker # "probing", UNCHANGED <<running, owed>>
  PROVE  QInv'
<1>1. queue \in Seq(Slugs) /\ Once(queue) /\ InQueue(queue) = pending /\ slug = Nobody
  BY DEF FavoritesInv, WorkerTypeOK, QInv, NothingIsForgotten, Probes
<1>2. InQueue(queue') = pending' /\ Once(queue')
  BY <1>1, FromFront DEF TakeOut
<1>3. owed \subseteq Slugs /\ Nobody \notin Slugs
  BY WorkerAssumption DEF FavoritesInv, WorkerTypeOK
<1>4. running' \/ worker' = "off" => owed' \subseteq pending' \cup {slug'}
  BY <1>1, <1>3 DEF TakeOut, QInv, NothingIsForgotten
<1> QED BY <1>2, <1>4 DEF QInv, NothingIsForgotten, Probes, TakeOut

LEMMA WorkerForgetsNothing ==
  ASSUME FavoritesInv, QInv, WorkerGoesOn
  PROVE  QInv'
<1>1. running' = running
  BY DEF WorkerGoesOn, Warm, NextFavorite, Urgent, WakesUp, Serves, ProbeChannel, Rest
<1>2. owed \subseteq Slugs /\ Nobody \notin Slugs /\ resume \notin {"off", "probing"}
  BY WorkerAssumption DEF FavoritesInv, WorkerTypeOK, Interrupted
<1>3. ASSUME UNCHANGED <<queue, pending, owed, slug>>, worker \notin {"off", "probing"}, worker' \notin {"off", "probing"}
      PROVE  QInv'
  BY <1>1, <1>3 DEF QInv, NothingIsForgotten, Probes
<1>4. CASE Warm \/ NextFavorite \/ WakesUp
  BY <1>3, <1>4 DEF Warm, NextFavorite, WakesUp
<1>5. CASE Urgent
  <2>1. CASE queue # <<>> /\ TakeOut
    BY <1>1, <1>5, <2>1, TakenOut DEF Urgent
  <2>2. CASE UNCHANGED <<queue, pending, slug>> /\ worker' = "passing"
    BY <1>3, <1>5, <2>2 DEF Urgent
  <2>3. CASE UNCHANGED <<queue, pending>> /\ worker' = "probing"
    BY <1>1, <1>2, <1>5, <2>3 DEF Urgent, QInv, NothingIsForgotten, Probes
  <2> QED BY <1>5, <2>1, <2>2, <2>3 DEF Urgent
<1>6. CASE Serves
  <2>1. CASE queue # <<>> /\ TakeOut
    BY <1>1, <1>6, <2>1, TakenOut DEF Serves
  <2>2. CASE UNCHANGED <<slug, queue, pending>> /\ worker' \in {"waiting", "passing"}
    BY <1>3, <1>6, <2>2 DEF Serves
  <2> QED BY <1>6, <2>1, <2>2 DEF Serves
<1>7. CASE ProbeChannel
  BY <1>1, <1>2, <1>7 DEF ProbeChannel, QInv, NothingIsForgotten, Probes
<1> QED BY <1>4, <1>5, <1>6, <1>7 DEF WorkerGoesOn

LEMMA NotificationForgetsNothing ==
  ASSUME FavoritesInv, QInv, NEW t \in Threads, FavoritesChanged(t)
  PROVE  QInv'
<1> DEFINE new == Unqueued(copy[t])
<1>1. copy[t] \subseteq Slugs /\ queue \in Seq(Slugs)
  BY DEF FavoritesInv, SInv, FavouritesAreSlugs, WorkerTypeOK
<1>2. new \in SUBSET Slugs /\ IsFiniteSet(new) /\ new \cap pending = {} /\ pending \cup new = pending \cup copy[t]
  <2>1. new \subseteq Slugs
    BY <1>1 DEF Unqueued
  <2> QED BY <2>1, WorkerAssumption, FS_Subset DEF Unqueued
<1>3. PICK order \in [1..Cardinality(new) -> new] :
        queue' = queue \o order /\ \A x \in new : \E i \in DOMAIN order : order[i] = x
  BY DEF FavoritesChanged, NotifyFavoritesChanged
<1>4. /\ pending' = pending \cup copy[t] /\ owed' = owed \cup copy[t]
      /\ UNCHANGED <<worker, running, slug>>
  BY DEF FavoritesChanged, NotifyFavoritesChanged
<1> HIDE DEF new
<1>5. Once(queue) /\ InQueue(queue) = pending
  BY DEF QInv, NothingIsForgotten
<1>6. InQueue(queue') = pending' /\ Once(queue')
  <2>1. InQueue(queue \o order) = InQueue(queue) \cup new /\ Once(queue \o order)
    BY <1>1, <1>2, <1>3, <1>5, AtTheEnd
  <2> QED BY <1>2, <1>3, <1>4, <1>5, <2>1
<1> QED BY <1>4, <1>6 DEF QInv, NothingIsForgotten, Probes

LEMMA AskingForgetsNothing ==
  ASSUME FavoritesInv, QInv, NEW s \in Slugs, RequestChannelProbe(s)
  PROVE  QInv'
<1>1. queue \in Seq(Slugs) /\ Once(queue) /\ InQueue(queue) = pending
  BY DEF FavoritesInv, WorkerTypeOK, QInv, NothingIsForgotten
<1>2. /\ queue' = (IF s \in pending THEN queue ELSE <<s>> \o queue) /\ pending' = pending \cup {s}
      /\ owed' = owed \cup {s} /\ UNCHANGED <<worker, running, slug>>
  BY DEF RequestChannelProbe
<1>3. InQueue(queue') = pending' /\ Once(queue')
  <2>1. CASE s \in pending
    BY <1>1, <1>2, <2>1
  <2>2. CASE s \notin pending
    <3>1. InQueue(<<s>> \o queue) = {s} \cup pending /\ Once(<<s>> \o queue)
      BY <1>1, <2>2, InFront
    <3> QED BY <1>2, <2>2, <3>1
  <2> QED BY <2>1, <2>2
<1> QED BY <1>2, <1>3 DEF QInv, NothingIsForgotten, Probes

LEMMA QueueStep == FavoritesInv /\ QInv /\ [FNext]_vars => QInv'
<1> SUFFICES ASSUME FavoritesInv, QInv, [FNext]_vars PROVE QInv'
  OBVIOUS
<1>1. ASSUME UNCHANGED <<worker, slug, queue, pending, owed>>, running' => running
      PROVE  QInv'
  BY <1>1 DEF QInv, NothingIsForgotten, Probes
<1>2. CASE UNCHANGED vars \/ UNCHANGED worker_vars \/ ViewersComeAndGo \/ WorkerStops
  BY <1>1, <1>2 DEF vars, worker_vars, ViewersComeAndGo, WorkerStops
<1>3. CASE WorkerStarts
  BY <1>3 DEF WorkerStarts, QInv, NothingIsForgotten, Probes
<1>4. ASSUME NEW t \in Threads, FavoritesChanged(t) PROVE QInv'
  BY <1>4, NotificationForgetsNothing
<1>5. CASE \E s \in Slugs : RequestChannelProbe(s)
  BY <1>5, AskingForgetsNothing
<1>6. CASE WorkerGoesOn
  BY <1>6, WorkerForgetsNothing
<1> QED BY <1>2, <1>3, <1>4, <1>5, <1>6 DEF FNext, StoreGoesOn

LEMMA QueueInitHolds == FInit => QInv
BY DEF FInit, WorkerInit, QInv, NothingIsForgotten, Probes, InQueue, Once

\* Whoever asks for a channel, and however often while the worker takes others
\* out, the channel is in the queue, and there once, until the worker probes it
\* or is stopped (notify_favorites_changed, request_channel_probe, run,
\* probe_channel): what AskedForIsProbed rests on.
THEOREM AskedForIsNotForgotten == FSpec => []NothingIsForgotten
<1>1. FInit => FavoritesInv /\ QInv
  BY FavoritesInitHolds, QueueInitHolds
<1>2. FavoritesInv /\ QInv /\ [FNext]_vars => (FavoritesInv /\ QInv)'
  BY FavoritesStep, QueueStep
<1>3. QInv => NothingIsForgotten
  BY DEF QInv
<1> QED BY <1>1, <1>2, <1>3, PTL DEF FSpec

\* The queue, which has no limit of its own, is never longer than the channels
\* there are.
THEOREM QueueIsBounded == FSpec => [](Len(queue) <= Cardinality(Slugs))
<1>1. FavoritesInv /\ NothingIsForgotten => Len(queue) <= Cardinality(Slugs)
  <2> SUFFICES ASSUME FavoritesInv, NothingIsForgotten PROVE Len(queue) <= Cardinality(Slugs)
    OBVIOUS
  <2>1. queue \in Seq(Slugs) /\ Once(queue)
    BY DEF FavoritesInv, WorkerTypeOK, NothingIsForgotten
  <2>2. Len(queue) \in Nat /\ queue \in Injection(1..Len(queue), Slugs)
    BY <2>1 DEF Once, Injection, IsInjective
  <2>3. Cardinality(1..Len(queue)) <= Cardinality(Slugs)
    BY <2>2, WorkerAssumption, FS_Injection
  <2>4. Cardinality(1..Len(queue)) = Len(queue)
    <3>1. PICK n \in Nat : n = Len(queue)
      BY <2>2
    <3>2. Cardinality(1..n) = IF 1 > n THEN 0 ELSE n - 1 + 1
      BY FS_Interval
    <3> QED BY <3>1, <3>2
  <2> QED BY <2>3, <2>4
<1> QED BY <1>1, Invariance, AskedForIsNotForgotten, PTL
===============================================================================
