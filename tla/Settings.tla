------------------------------- MODULE Settings -------------------------------
(***************************************************************************)
(* What the proxy remembers from one run to the next, and how: the four     *)
(* stores of proxy.cpp (the state of the plugins, the favourites with the   *)
(* disabled candidates, the logos and the filters of the channels) are each *)
(* a value in memory behind a mutex and some copies on disk.  A change and  *)
(* the save that follows it are two critical sections; a save truncates and *)
(* writes one copy after the other, and the process may be killed between   *)
(* any two of these steps.  The next start takes the first copy it can use. *)
(*                                                                         *)
(* A behaviour is about one of the stores.  A value is the set of the items *)
(* that are in it: an address, a list, a favourite, a disabled candidate, a *)
(* logo, a filter.  A copy that has been truncated, or written in part, is  *)
(* Torn: it does not parse.                                                 *)
(***************************************************************************)
EXTENDS Naturals, Sequences, FiniteSets

CONSTANTS Stores,       \* the stores considered, of AllStores
          Slugs, Cids,  \* the items: channels (or lists) and candidates (or addresses)
          Defaults,     \* the items that come with the program
          Threads,      \* HTTP threads that handle requests about the store
          Nobody, Absent, Torn,
          MaxRequests,  \* bound: requests in a behaviour
          MaxCrashes    \* bound: crashes in a behaviour

Items == Slugs \cup Cids
AllStores == {"plugins", "favourites", "logos", "filters"}
Copies == {"cfg", "bak", "root", "rootbak", "sources", "lists"}

ASSUME SettingsAssumption ==
  /\ Stores \subseteq AllStores
  /\ Defaults \subseteq Items
  /\ Nobody \notin Threads
  /\ Absent # Torn /\ \A v \in SUBSET Items : Absent # v /\ Torn # v
  /\ MaxRequests \in Nat /\ MaxCrashes \in Nat

VARIABLES store,    \* the store this behaviour is about
          root,     \* where the second pair of copies is: "apart", "same" (the
                    \* directory of the first pair) or "none"
          file,     \* what is on disk
          process,  \* "down", "preparing" (main.cpp is copying a file) or "up"
          mem,      \* the value in memory
          lock,     \* the thread in the mutex of the store
          at,       \* where each thread is
          todo,     \* the changes its request has still to make
          copy,     \* the favourites it has copied, or found to be new
          dump,     \* the value its save writes
          left,     \* the copies its save has still to write
          requests, crashes,
          kept,     \* the values memory has had since the last save that was finished
          saved     \* a save has been finished in this run of the process

settings == <<store, root, file, process, mem, lock, at, todo, copy, dump, left,
              requests, crashes, kept, saved>>

Values == SUBSET Items
Roots == {"apart", "same", "none"}
Contents == {Absent, Torn} \cup Values
Places == {"idle", "change", "save", "open", "write", "notify"}

Puts(v)  == [op |-> "put", arg |-> v, keep |-> FALSE]
Takes(v) == [op |-> "take", arg |-> v, keep |-> FALSE]
Changes == [op : {"put", "take", "set", "append", "import", "replace"},
            arg : Values, keep : BOOLEAN]

\* The value after a change of m.  Favourites are set as a whole, and a second
\* part of an import that replaces drops the lists there were.
Result(c, m) ==
  CASE c.op \in {"put", "import"} -> m \cup c.arg
    [] c.op = "take" -> m \ c.arg
    [] c.op \in {"set", "replace"} -> (m \ Slugs) \cup c.arg
    [] OTHER -> m
-------------------------------------------------------------------------------
(* What a start reads.                                                      *)

Readable(c) == file[c] \notin {Absent, Torn}

\* The first of these copies that parses, or none.
FirstParsed(order, none) ==
  LET good == {i \in DOMAIN order : Readable(order[i])}
  IN  IF good = {} THEN none
      ELSE file[order[CHOOSE i \in good : \A j \in good : i <= j]]

InOrder == <<"cfg", "bak", "root", "rootbak">>

\* The state of the plugins: the first copy that exists is the only one that
\* is tried; nothing is left when it does not parse.
LoadPluginsState ==
  LET target == IF file["cfg"] # Absent THEN file["cfg"] ELSE file["root"]
  IN  CASE target = Absent -> Defaults
        [] target = Torn -> {}
        [] OTHER -> target

\* The favourites: four copies and the list that comes with the program.
LoadEpgFavorites == FirstParsed(InOrder, Defaults)

LoadCustomLogos == FirstParsed(InOrder, {})

\* The filters of the file are added to the ones the program starts from.
LoadChannelFilters == Defaults \cup FirstParsed(InOrder, {})

Loaded == CASE store = "plugins" -> LoadPluginsState
            [] store = "favourites" -> LoadEpgFavorites
            [] store = "logos" -> LoadCustomLogos
            [] OTHER -> LoadChannelFilters

\* The copies in the order in which a save writes them.
WithBackups == CASE root = "apart" -> InOrder
                 [] root = "same" -> <<"cfg", "bak", "cfg", "bak">>
                 [] OTHER -> <<"cfg", "bak">>
SavePluginsState == <<"cfg", "root", "sources", "lists">>
SaveEpgFavorites == WithBackups
SaveCustomLogos == WithBackups
SaveChannelFilters == WithBackups

SaveOrder == CASE store = "plugins" -> SavePluginsState
               [] store = "favourites" -> SaveEpgFavorites
               [] store = "logos" -> SaveCustomLogos
               [] OTHER -> SaveChannelFilters
-------------------------------------------------------------------------------
(* The changes the functions of the proxy make.                             *)

\* (An empty logo, or a filter without patterns, is a removal.)
SetCustomLogo == {Puts({x}) : x \in Slugs}
RemoveCustomLogo == {Takes({x}) : x \in Slugs}
SetChannelFilter == {Puts({x}) : x \in Slugs}
RemoveChannelFilter == {Takes({x}) : x \in Slugs}
ToggleDisabledCandidate == {Puts({x}) : x \in Cids} \cup {Takes({x}) : x \in Cids}
SetEpgFavorites == {[op |-> "set", arg |-> v, keep |-> FALSE] : v \in SUBSET Slugs}
AddEpgFavorite == {[op |-> "append", arg |-> {x}, keep |-> FALSE] : x \in Slugs}
SaveEpgSource == {Puts({x} \cup v) : x \in Slugs, v \in {{}, Cids}}
DeleteEpgSource == {Takes({x}) : x \in Slugs}
ToggleEpgSource == {Puts({x}) : x \in Slugs} \cup {Takes({x}) : x \in Slugs}

(* The requests, as the changes they make one after the other, of the        *)
(* interface under /api and of the one of the page of the guide.             *)

Each(changes) == {<<c>> : c \in changes}

\* One logo, or several of a body before the one of the query.
LogoRequests == Each(SetCustomLogo \cup RemoveCustomLogo)
                \cup {<<Puts({x}), c>> : x \in Slugs, c \in RemoveCustomLogo}
FilterRequests == Each(SetChannelFilter \cup RemoveChannelFilter)
                  \cup {<<Puts({x}), c>> : x \in Slugs, c \in RemoveChannelFilter}
EpgFilterRequests == Each(SetChannelFilter \cup RemoveChannelFilter)
FavoriteRequests == Each(SetEpgFavorites \cup AddEpgFavorite \cup ToggleDisabledCandidate)
ApiFavoriteRequests == Each(AddEpgFavorite \cup ToggleDisabledCandidate)

\* An import holds the mutex from its first change to its last save: each
\* address is set, and saved, on its way, the lists all together at its end.
ImportSources ==
  {<<[Puts({x}) EXCEPT !.keep = TRUE], [op |-> mode, arg |-> v \cup {x}, keep |-> FALSE]>> :
      x \in Cids, v \in SUBSET Slugs, mode \in {"import", "replace"}}
PluginRequests == Each(SaveEpgSource \cup DeleteEpgSource \cup ToggleEpgSource) \cup ImportSources

Requests == CASE store = "plugins" -> PluginRequests
              [] store = "favourites" -> FavoriteRequests \cup ApiFavoriteRequests
              [] store = "logos" -> LogoRequests
              [] OTHER -> FilterRequests \cup EpgFilterRequests
-------------------------------------------------------------------------------
(* The start of the process.                                                *)

\* A fresh installation, one with copies of an earlier run, or the second
\* pair of copies alone.  Only the filters have a second directory that main
\* does not make.
Init ==
  /\ store \in Stores
  /\ root \in IF store = "filters" THEN Roots ELSE {"apart"}
  /\ \E v \in {{}, Items} :
       \E present \in {{}, {"root", "rootbak"}, {"cfg", "bak", "root", "rootbak"}} :
         file = [c \in Copies |->
                   IF c \in present /\ (root = "apart" \/ c \in {"cfg", "bak"})
                      /\ ~(store = "plugins" /\ c \in {"bak", "rootbak"})
                   THEN v ELSE Absent]
  /\ process = "down" /\ mem = {} /\ lock = Nobody
  /\ at = [t \in Threads |-> "idle"]
  /\ todo = [t \in Threads |-> <<>>]
  /\ copy = [t \in Threads |-> {}]
  /\ dump = [t \in Threads |-> {}]
  /\ left = [t \in Threads |-> <<>>]
  /\ requests = 0 /\ crashes = 0
  /\ kept = {Loaded}
  /\ saved = FALSE

\* main.cpp makes the first copy when there is none.
Missing == store \in {"plugins", "favourites"} /\ file["cfg"] = Absent

\* What it copies: for the favourites the backup, the copy of the program's
\* directory, the list of the program or an empty one; for the plugins the
\* copy or the one of the program.
EnsuredFavorites == FirstParsed(<<"bak", "root">>, Defaults)
EnsuredPlugins == FirstParsed(<<"root">>, Defaults)

EnsureStructure ==
  /\ process = "down" /\ Missing
  /\ process' = "preparing"
  /\ file' = [file EXCEPT !["cfg"] = Torn]
  /\ UNCHANGED <<store, root, mem, lock, at, todo, copy, dump, left, requests, crashes, kept, saved>>

CopyEnds ==
  /\ process = "preparing"
  /\ process' = "copied"
  /\ file' = [file EXCEPT !["cfg"] =
                IF store = "plugins" THEN EnsuredPlugins ELSE EnsuredFavorites]
  /\ UNCHANGED <<store, root, mem, lock, at, todo, copy, dump, left, requests, crashes, kept, saved>>

\* The constructor of the proxy loads the stores.
Starts ==
  /\ process = "copied" \/ (process = "down" /\ ~Missing)
  /\ process' = "up"
  /\ mem' = Loaded
  /\ kept' = kept \cup {Loaded}
  /\ UNCHANGED <<store, root, file, lock, at, todo, copy, dump, left, requests, crashes, saved>>

\* The process is killed, or ends: memory and threads are gone.
Crash ==
  /\ process # "down" /\ crashes < MaxCrashes
  /\ crashes' = crashes + 1
  /\ process' = "down" /\ mem' = {} /\ lock' = Nobody
  /\ at' = [t \in Threads |-> "idle"]
  /\ todo' = [t \in Threads |-> <<>>]
  /\ copy' = [t \in Threads |-> {}]
  /\ dump' = [t \in Threads |-> {}]
  /\ left' = [t \in Threads |-> <<>>]
  /\ saved' = FALSE
  /\ UNCHANGED <<store, root, file, requests, kept>>
-------------------------------------------------------------------------------
(* The steps of a request.                                                  *)

Goes(t, place) == at' = [at EXCEPT ![t] = place]

Ask(t) ==
  /\ process = "up" /\ at[t] = "idle" /\ requests < MaxRequests
  /\ requests' = requests + 1
  /\ \E changes \in Requests : todo' = [todo EXCEPT ![t] = changes]
  /\ Goes(t, "change")
  /\ UNCHANGED <<store, root, file, process, mem, lock, copy, dump, left, crashes, kept, saved>>

Enters(t) == lock \in {Nobody, t}

\* add_epg_favorite reads the favourites and lets go of them; a favourite that
\* is there already is left at that.
Copied(t) ==
  LET c == Head(todo[t])
  IN  /\ at[t] = "change" /\ Enters(t) /\ c.op = "append"
      /\ IF c.arg \subseteq mem
         THEN Goes(t, "idle") /\ todo' = [todo EXCEPT ![t] = <<>>]
         ELSE /\ Goes(t, "change")
              /\ todo' = [todo EXCEPT ![t] =
                            <<[op |-> "set", arg |-> (mem \cap Slugs) \cup c.arg, keep |-> FALSE]>>]
      /\ UNCHANGED <<store, root, file, process, mem, lock, copy, dump, left, requests, crashes, kept, saved>>

\* The change in memory, by itself.  Who sets the favourites finds out which
\* are new; an import keeps the mutex.
Change(t) ==
  LET c == Head(todo[t])
  IN  /\ at[t] = "change" /\ Enters(t) /\ c.op # "append"
      /\ mem' = Result(c, mem)
      /\ kept' = kept \cup {Result(c, mem)}
      /\ copy' = [copy EXCEPT ![t] = IF c.op = "set" THEN c.arg \ mem ELSE {}]
      /\ lock' = IF c.keep \/ c.op \in {"import", "replace"} THEN t ELSE lock
      /\ Goes(t, "save")
      /\ UNCHANGED <<store, root, file, process, todo, dump, left, requests, crashes, saved>>

\* The rest of an import does not parse: it returns and leaves what it has done.
ImportFails(t) ==
  /\ at[t] = "change" /\ lock = t /\ Head(todo[t]).op \in {"import", "replace"}
  /\ lock' = Nobody /\ Goes(t, "idle")
  /\ todo' = [todo EXCEPT ![t] = <<>>]
  /\ UNCHANGED <<store, root, file, process, mem, copy, dump, left, requests, crashes, kept, saved>>

\* Mutant: a save that does not take the mutex.
SaveUnlocked(t) ==
  /\ at[t] = "save"
  /\ Goes(t, "open")
  /\ dump' = [dump EXCEPT ![t] = mem]
  /\ left' = [left EXCEPT ![t] = SaveOrder]
  /\ UNCHANGED <<store, root, file, process, mem, lock, todo, copy, requests, crashes, kept, saved>>

\* The save: the value of memory as it is by now, to one copy after the other.
Save(t) ==
  /\ at[t] = "save" /\ Enters(t)
  /\ lock' = t /\ Goes(t, "open")
  /\ dump' = [dump EXCEPT ![t] = mem]
  /\ left' = [left EXCEPT ![t] = SaveOrder]
  /\ UNCHANGED <<store, root, file, process, mem, todo, copy, requests, crashes, kept, saved>>

\* Mutant: all the copies are opened before the first is written.
TruncatesAll(t) ==
  /\ at[t] = "open" /\ left[t] # <<>>
  /\ Goes(t, "write")
  /\ file' = [c \in Copies |-> IF \E i \in DOMAIN left[t] : left[t][i] = c THEN Torn ELSE file[c]]
  /\ UNCHANGED <<store, root, process, mem, lock, todo, copy, dump, left, requests, crashes, kept, saved>>

Truncates(t) ==
  /\ at[t] = "open" /\ left[t] # <<>>
  /\ Goes(t, "write")
  /\ file' = [file EXCEPT ![Head(left[t])] = Torn]
  /\ UNCHANGED <<store, root, process, mem, lock, todo, copy, dump, left, requests, crashes, kept, saved>>

Writes(t) ==
  /\ at[t] = "write"
  /\ Goes(t, "open")
  /\ file' = [file EXCEPT ![Head(left[t])] = dump[t]]
  /\ left' = [left EXCEPT ![t] = Tail(@)]
  /\ UNCHANGED <<store, root, process, mem, lock, todo, copy, dump, requests, crashes, kept, saved>>

\* The save is finished, and with it this change of the request.
Saved(t) ==
  /\ at[t] = "open" /\ left[t] = <<>>
  /\ kept' = {dump[t]} /\ saved' = TRUE
  /\ lock' = IF Head(todo[t]).keep THEN t ELSE Nobody
  /\ todo' = [todo EXCEPT ![t] = Tail(@)]
  /\ dump' = [dump EXCEPT ![t] = {}]
  /\ Goes(t, IF copy[t] # {} THEN "notify" ELSE IF Len(todo[t]) > 1 THEN "change" ELSE "idle")
  /\ UNCHANGED <<store, root, file, process, mem, copy, left, requests, crashes>>

\* The worker of the favourites is told of the new ones.
Notifies(t) ==
  /\ at[t] = "notify"
  /\ Goes(t, "idle")
  /\ copy' = [copy EXCEPT ![t] = {}]
  /\ UNCHANGED <<store, root, file, process, mem, lock, todo, dump, left, requests, crashes, kept, saved>>

RequestGoesOn(t) == \/ Copied(t) \/ Change(t) \/ ImportFails(t) \/ Save(t)
                    \/ Truncates(t) \/ Writes(t) \/ Saved(t)

ProcessStarts == EnsureStructure \/ CopyEnds \/ Starts

Next == \/ ProcessStarts \/ Crash
        \/ \E t \in Threads : Ask(t) \/ RequestGoesOn(t) \/ Notifies(t)

Spec == Init /\ [][Next]_settings
-------------------------------------------------------------------------------
TypeOK ==
  /\ store \in Stores /\ root \in Roots
  /\ file \in [Copies -> Contents]
  /\ process \in {"down", "preparing", "copied", "up"}
  /\ mem \in Values
  /\ lock \in Threads \cup {Nobody}
  /\ at \in [Threads -> Places]
  /\ todo \in [Threads -> Seq(Changes)]
  /\ copy \in [Threads -> Values] /\ dump \in [Threads -> Values]
  /\ left \in [Threads -> Seq(Copies)]
  /\ requests \in 0 .. MaxRequests /\ crashes \in 0 .. MaxCrashes
  /\ kept \in SUBSET Values
  /\ saved \in BOOLEAN

\* The state of the plugins has one copy that counts: torn, it is lost.  The
\* filters have two when their second directory is missing or the first, as it
\* is when the program runs in /app: a save that is cut off in the second copy
\* leaves the next save with one.
Lost == \/ store = "plugins" /\ file["cfg"] = Torn
        \/ store = "filters" /\ root # "apart" /\ file["cfg"] = Torn /\ file["bak"] = Torn

\* Wherever the process is killed, the next start finds a value that memory
\* has had since the last save that was finished: never an older one, never
\* one nobody has set, and never nothing, unless the store is Lost.  (To the
\* filters it adds the ones of the program, even those that were removed.)
\* A crash in the middle of a save leaves a torn copy until the next save: two of
\* them are survived, and the save after a third may be in the last copy.
Recoverable ==
  process # "preparing" /\ ~Lost
    => \E v \in kept : Loaded = IF store = "filters" THEN v \cup Defaults ELSE v

\* When no request is in progress every copy on disk is the value in memory,
\* in whatever order the changes and the saves of the requests came.
DiskFollowsMemory ==
  process = "up" /\ saved /\ (\A t \in Threads : at[t] = "idle")
    => \A i \in DOMAIN SaveOrder : file[SaveOrder[i]] = mem
===============================================================================
