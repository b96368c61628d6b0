------------------------------- MODULE SourceFiles -------------------------------
(***************************************************************************)
(* Source definitions: the YAML files under configs/sources, the registry  *)
(* the pipeline matches against (src/ulpf/parse/dsl/loader.py), the thread *)
(* that watches the directory and the API that writes, disables and        *)
(* reloads files (src/ulpf/api/routes/sources.py).  A file is the name it  *)
(* declares, a version and whether it validates.                           *)
(***************************************************************************)
EXTENDS Naturals, Sequences, FiniteSets, SequencesExt

CONSTANTS FileOrder,    \* file stems, in glob order; a new source's stem is its name
          Clients,      \* API clients
          MaxVersions, MaxRemovals, MaxMoves

VARIABLES dir,        \* the files: name, ver, ok
          history,    \* versions under .history/ and .disabled/
          registry,   \* _definitions: name -> version, 0 when absent
          pathNames,  \* _paths: file -> name
          broken,     \* _load_errors
          fsEvents,   \* watchdog's queue
          reload,     \* reload_path of each thread: the file and what it read, or Rest
          client,     \* where each client's request is
          versions, removals, moves,
          oddities    \* "moved"; "twin" (two files of one name, a broken file having also the
                      \* one it keeps in force); "handed" (_paths gave two files one name);
                      \* "race" (a file changed between the backup and the write of a PUT);
                      \* "stale" (or between the read and the swap of its reload, or inside
                      \* a DELETE)
srcVars == <<dir, history, registry, pathNames, broken, fsEvents, reload, client, versions, removals, moves, oddities>>

Stems == ToSet(FileOrder)
NoName == "none"
ASSUME SourceAssumption == FileOrder \in Seq(STRING) /\ NoName \notin Stems /\ "watch" \notin Clients
NoFile == [name |-> NoName, ver |-> 0, ok |-> FALSE]
Rest == [path |-> NoName, seen |-> NoFile]
Threads == {"watch"} \cup Clients
IsFile(p) == dir[p] # NoFile
NoRequest == [at |-> "idle", name |-> NoName, path |-> NoName]

SourceInit ==
  /\ dir = [p \in Stems |-> NoFile] /\ history = {} /\ registry = [n \in Stems |-> 0]
  /\ pathNames = [p \in Stems |-> NoName] /\ broken = {} /\ fsEvents = <<>>
  /\ reload = [t \in Threads |-> Rest] /\ client = [c \in Clients |-> NoRequest]
  /\ versions = 0 /\ removals = 0 /\ moves = 0 /\ oddities = {}

Twins(d) == \E p, q \in Stems : p # q /\ d[p] # NoFile /\ d[q] # NoFile /\ d[p].name = d[q].name
Writing(p) == \E b \in Clients : client[b].at = "write" /\ client[b].path = p
Swapping(p) == \E b \in Clients : client[b].at \in {"swap", "forget"} /\ client[b].path = p
Noted(d, p) == oddities \cup (IF Twins(d) THEN {"twin"} ELSE {}) \cup (IF Writing(p) THEN {"race"} ELSE {})
                        \cup (IF Swapping(p) THEN {"stale"} ELSE {})

\* An operator's editor, mv and rm; what the operator replaces is the operator's to keep.
EditorSaves(p, n, ok) ==
  /\ versions < MaxVersions /\ versions' = versions + 1
  /\ dir' = [dir EXCEPT ![p] = [name |-> n, ver |-> versions + 1, ok |-> ok]]
  /\ fsEvents' = Append(fsEvents, <<"changed", p>>) /\ oddities' = Noted(dir', p)
  /\ history' = history \cup {dir[p].ver}
  /\ UNCHANGED <<registry, pathNames, broken, reload, client, removals, moves>>
EditorRemoves(p) ==
  /\ IsFile(p) /\ removals < MaxRemovals /\ removals' = removals + 1
  /\ dir' = [dir EXCEPT ![p] = NoFile] /\ fsEvents' = Append(fsEvents, <<"deleted", p>>)
  /\ history' = history \cup {dir[p].ver} /\ oddities' = Noted(dir', p)
  /\ UNCHANGED <<registry, pathNames, broken, reload, client, versions, moves>>
EditorMoves(p, q) ==
  /\ IsFile(p) /\ p # q /\ ~IsFile(q) /\ moves < MaxMoves /\ moves' = moves + 1
  /\ dir' = [dir EXCEPT ![p] = NoFile, ![q] = dir[p]] /\ fsEvents' = Append(fsEvents, <<"moved", q>>)
  /\ oddities' = Noted(dir', q) \cup {"moved"}
  /\ UNCHANGED <<history, registry, pathNames, broken, reload, client, versions, removals>>

\* path_for: the first file _paths credits with the name, in the order they were loaded.
PathFor(n) == {p \in Stems : pathNames[p] = n}

\* _read_and_validate, before the lock is taken.
ReadFile(t, p) == reload' = [reload EXCEPT ![t] = [path |-> p, seen |-> dir[p]]]

\* Mutant: the name the file held before stays.
SwapKeepsOldName(t) ==
  LET seen == reload[t].seen
  IN IF ~seen.ok THEN broken' = broken \cup {reload[t].path} /\ UNCHANGED <<registry, pathNames>>
     ELSE /\ registry' = [registry EXCEPT ![seen.name] = seen.ver]
          /\ pathNames' = [pathNames EXCEPT ![reload[t].path] = seen.name] /\ broken' = broken \ {reload[t].path}

\* The rest of reload_path: a valid definition replaces what the file held before; a
\* broken one leaves the registry alone.
Swap(t) ==
  LET p == reload[t].path
      seen == reload[t].seen
  IN IF ~seen.ok
     THEN broken' = broken \cup {p} /\ UNCHANGED <<registry, pathNames>>
     ELSE /\ registry' = [n \in Stems |-> IF n = seen.name THEN seen.ver
                                          ELSE IF n = pathNames[p] THEN 0 ELSE registry[n]]
          /\ pathNames' = [pathNames EXCEPT ![p] = seen.name] /\ broken' = broken \ {p}

\* forget_path
Forget(p) ==
  /\ registry' = [n \in Stems |-> IF n = pathNames[p] THEN 0 ELSE registry[n]]
  /\ pathNames' = [pathNames EXCEPT ![p] = NoName] /\ broken' = broken \ {p}

\* _paths credits two files with one name, the first not having been read again yet; or for
\* good, when it is broken and keeps its previous definition in force.
CreditedTwice(P) == \E p \in P, q \in Stems : p # q /\ pathNames[p] # NoName /\ pathNames[q] = pathNames[p]
NotedSwap == oddities' = oddities \cup (IF CreditedTwice(Stems)' THEN {"handed"} ELSE {})
                                 \cup (IF CreditedTwice(broken)' THEN {"twin"} ELSE {})

\* _ReloadHandler on the watchdog thread: one event at a time, two steps for a reload.
WatchTakes ==
  /\ fsEvents # <<>> /\ reload["watch"] = Rest
  /\ LET kind == Head(fsEvents)[1]
         p == Head(fsEvents)[2]
     IN IF kind = "deleted" THEN Forget(p) /\ fsEvents' = Tail(fsEvents) /\ UNCHANGED reload
        ELSE ReadFile("watch", p) /\ fsEvents' = Tail(fsEvents) /\ UNCHANGED <<registry, pathNames, broken>>
  /\ UNCHANGED <<dir, history, client, versions, removals, moves, oddities>>
WatchSwaps ==
  /\ reload["watch"] # Rest /\ Swap("watch") /\ reload' = [reload EXCEPT !["watch"] = Rest] /\ NotedSwap
  /\ UNCHANGED <<dir, history, fsEvents, client, versions, removals, moves>>

\* reload_path and forget_path run on the event loop, one request at a time.
LoopFree == \A c \in Clients : client[c].at # "swap"

\* PUT /{name}: _write_source_file backs up the file of that name, then writes it, on a
\* thread; then reload_path.
PutCopies(c, n) ==
  /\ client[c] = NoRequest /\ versions < MaxVersions
  /\ \E p \in IF PathFor(n) = {} THEN {n} ELSE PathFor(n) :
       /\ client' = [client EXCEPT ![c] = [at |-> "write", name |-> n, path |-> p]]
       /\ history' = IF IsFile(p) THEN history \cup {dir[p].ver} ELSE history
       /\ oddities' = IF Writing(p) THEN oddities \cup {"race"} ELSE oddities
  /\ UNCHANGED <<dir, registry, pathNames, broken, fsEvents, reload, versions, removals, moves>>
PutWrites(c) ==
  /\ client[c].at = "write" /\ versions < MaxVersions /\ versions' = versions + 1
  /\ dir' = [dir EXCEPT ![client[c].path] = [name |-> client[c].name, ver |-> versions + 1, ok |-> TRUE]]
  /\ fsEvents' = Append(fsEvents, <<"changed", client[c].path>>)
  /\ client' = [client EXCEPT ![c].at = "read"] 
  /\ oddities' = oddities \cup (IF Twins(dir') THEN {"twin"} ELSE {})
                          \cup (IF Swapping(client[c].path) THEN {"stale"} ELSE {})
  /\ UNCHANGED <<history, registry, pathNames, broken, reload, removals, moves>>
PutReads(c) ==
  /\ client[c].at = "read" /\ LoopFree /\ ReadFile(c, client[c].path) /\ client' = [client EXCEPT ![c].at = "swap"]
  /\ UNCHANGED <<dir, history, registry, pathNames, broken, fsEvents, versions, removals, moves, oddities>>
PutSwaps(c) ==
  /\ client[c].at = "swap" /\ Swap(c) /\ reload' = [reload EXCEPT ![c] = Rest]
  /\ client' = [client EXCEPT ![c] = NoRequest] /\ NotedSwap
  /\ UNCHANGED <<dir, history, fsEvents, versions, removals, moves>>

\* DELETE /{name}: the file goes to .disabled/ and the name leaves the registry; 404 when
\* path_for names no file.
DeleteMoves(c, n) ==
  /\ client[c] = NoRequest /\ removals < MaxRemovals /\ removals' = removals + 1
  /\ \E p \in PathFor(n) :
       /\ IsFile(p) /\ client' = [client EXCEPT ![c] = [at |-> "forget", name |-> n, path |-> p]]
       /\ dir' = [dir EXCEPT ![p] = NoFile] /\ history' = history \cup {dir[p].ver}
       /\ fsEvents' = Append(fsEvents, <<"deleted", p>>) /\ oddities' = Noted(dir', p)
  /\ UNCHANGED <<registry, pathNames, broken, reload, versions, moves>>
DeleteForgets(c) ==
  /\ client[c].at = "forget" /\ LoopFree /\ Forget(client[c].path) /\ client' = [client EXCEPT ![c] = NoRequest]
  /\ UNCHANGED <<dir, history, fsEvents, reload, versions, removals, moves, oddities>>

\* load_all: every file that validates, in order; a later one of the same name wins.
LoadAll(n) ==
  LET of == {k \in DOMAIN FileOrder : dir[FileOrder[k]].ok /\ dir[FileOrder[k]].name = n}
  IN IF of = {} THEN 0 ELSE dir[FileOrder[Max(of)]].ver

Catch == WatchTakes \/ WatchSwaps \/ \E c \in Clients : PutWrites(c) \/ PutReads(c) \/ PutSwaps(c) \/ DeleteForgets(c)
SourceNext ==
  \/ Catch
  \/ \E p \in Stems : EditorRemoves(p) \/ (\E q \in Stems : EditorMoves(p, q))
                      \/ (\E n \in Stems, ok \in BOOLEAN : EditorSaves(p, n, ok))
  \/ \E c \in Clients, n \in Stems : PutCopies(c, n) \/ DeleteMoves(c, n)
SourceSpec == SourceInit /\ [][SourceNext]_srcVars
-----------------------------------------------------------------------------
Quiet == fsEvents = <<>> /\ (\A t \in Threads : reload[t] = Rest)
         /\ \A c \in Clients : client[c].at \in {"idle", "write"}

\* Once the watcher has caught up, the live registry is what a restart would load, over
\* every race of the watcher's reload with a PUT or DELETE: a broken file keeps its last
\* good version; renamed files, two files of one name and a file that changes inside a
\* request's own reload or forget are the exceptions.
CaughtUpMeansCurrent ==
  Quiet /\ oddities \cap {"moved", "twin", "stale"} = {} /\ broken = {} =>
     \A n \in Stems : registry[n] = LoadAll(n)

\* "can never take down a running pipeline ... the previous definition stays in force":
\* a broken file that was live before keeps its last good version live, at every moment,
\* unless it once shared its name with another file.
BrokenKeepsPrevious ==
  \A p \in broken : "handed" \notin oddities /\ pathNames[p] # NoName => registry[pathNames[p]] > 0

\* No version is lost: what a PUT overwrote is in the history, unless the file
\* changed between the backup and the write.
NothingOverwrittenUnsaved ==
  \A v \in 1..versions : v \in history \/ "race" \in oddities \/ \E p \in Stems : dir[p].ver = v

\* The live definitions follow the files, a broken file takes none down, and no version is
\* overwritten unsaved.
RegistryFollowsFiles == CaughtUpMeansCurrent /\ BrokenKeepsPrevious /\ NothingOverwrittenUnsaved
=============================================================================
