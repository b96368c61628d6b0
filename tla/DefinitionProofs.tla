---------------------------- MODULE DefinitionProofs ----------------------------
(***************************************************************************)
(* Proofs about the source definitions, for any set of files, clients,     *)
(* lines and catalogues: the registry follows the files over every         *)
(* interleaving of editor, watcher and API requests (SourceFiles), and the *)
(* stages that apply the definitions, and the tools that repeat them, do   *)
(* with an event what they should (Normalization).                         *)
(***************************************************************************)
EXTENDS SourceFiles, Normalization, WellFoundedInduction, TLAPS

\* A non-empty set of natural numbers has a least element, which Min picks.
LEMMA MinFacts ==
  ASSUME NEW S, S \subseteq Nat, S # {}
  PROVE  Min(S) \in S /\ \A y \in S : Min(S) <= y
<1>1. \E x \in S : \A y \in S : ~ (<<y, x>> \in OpToRel(<, Nat))
  BY NatLessThanWellFounded, WFMin
<1>2. PICK x \in S : \A y \in S : ~ (<<y, x>> \in OpToRel(<, Nat))
  BY <1>1
<1>3. \A y \in S : ~(y < x)
  BY <1>2 DEF OpToRel
<1>4. \A y \in S : x =< y
  BY <1>3
<1>. QED
  BY <1>4 DEF Min

\* A non-empty set of positions of a sequence has a greatest element, which Max picks.
LEMMA MaxFacts ==
  ASSUME NEW n \in Nat, NEW S, S \subseteq 1..n, S # {}
  PROVE  Max(S) \in S /\ \A y \in S : y <= Max(S)
<1>. DEFINE R == {n - k : k \in S}
<1>0. \A y \in S : y \in Nat /\ n - y \in Nat
  OBVIOUS
<1>4. \A y \in S : n - y \in R
  OBVIOUS
<1>1. R \subseteq Nat
  BY <1>0
<1>1a. R # {}
  BY <1>4
<1>2. Min(R) \in R /\ \A y \in R : Min(R) <= y
  BY <1>1, <1>1a, MinFacts
<1>3. PICK x \in S : Min(R) = n - x
  BY <1>2
<1>3a. \A y \in S : n - x <= n - y
  BY <1>2, <1>3, <1>4
<1>5. \A y \in S : x >= y
  BY <1>0, <1>3a
<1>. QED
  BY <1>0, <1>5 DEF Max
-----------------------------------------------------------------------------
(* watchdog's queue.  Pend(es, p): an event on p waits; Before(es, q, p):  *)
(* one on q waits in front of one on p; LastSays: the last event on a file *)
(* says whether the file is there.                                         *)
Event == {"changed", "deleted", "moved"} \X Stems
Pend(es, p) == \E j \in 1..Len(es) : es[j][2] = p
Before(es, q, p) == \E i, j \in 1..Len(es) : i < j /\ es[i][2] = q /\ es[j][2] = p
Says(d, p) == IF d[p] # NoFile THEN "changed" ELSE "deleted"
LastOf(es, k) == \A j \in 1..Len(es) : j > k => es[j][2] # es[k][2]
LastSays(es, d) == \A k \in 1..Len(es) : LastOf(es, k) => es[k][1] = Says(d, es[k][2])

\* A sequence with one more element, position by position.
LEMMA AppendFacts ==
  ASSUME NEW T, NEW es \in Seq(T), NEW e \in T
  PROVE  /\ Append(es, e) \in Seq(T) /\ Len(es) \in Nat /\ Len(Append(es, e)) = Len(es) + 1
         /\ Append(es, e)[Len(es) + 1] = e
         /\ \A k \in 1..Len(es) : Append(es, e)[k] = es[k] /\ es[k] \in T
  OBVIOUS

\* The rest of a sequence, position by position.
LEMMA TailFacts ==
  ASSUME NEW T, NEW es \in Seq(T), es # <<>>
  PROVE  /\ Tail(es) \in Seq(T) /\ Len(es) \in Nat /\ Len(es) > 0 /\ Len(Tail(es)) = Len(es) - 1
         /\ Head(es) = es[1] /\ es[1] \in T
         /\ \A k \in 1..Len(Tail(es)) : Tail(es)[k] = es[k + 1]
  OBVIOUS

\* What waits after an event joined the queue, and what its last events say.
LEMMA PushPend ==
  ASSUME NEW es \in Seq(Event), NEW e \in Event
  PROVE  /\ \A r \in Stems : Pend(Append(es, e), r) <=> Pend(es, r) \/ r = e[2]
         /\ \A q, r \in Stems : Before(es, q, r) => Before(Append(es, e), q, r)
         /\ \A q \in Stems : Pend(es, q) => Before(Append(es, e), q, e[2])
<1>. DEFINE n == Len(es)
            fs == Append(es, e)
<1>1. n \in Nat /\ Len(fs) = n + 1 /\ fs[n + 1] = e /\ \A k \in 1..n : fs[k] = es[k]
  BY AppendFacts
<1>. HIDE DEF n, fs
<1>2. \A k : k \in 1..n => k \in 1..(n + 1) /\ k < n + 1
  BY <1>1
<1>3. n + 1 \in 1..(n + 1)
  BY <1>1
<1>4. \A k \in 1..(n + 1) : k \in 1..n \/ k = n + 1
  BY <1>1
<1>5. \A r \in Stems : Pend(fs, r) <=> Pend(es, r) \/ r = e[2]
  BY <1>1, <1>2, <1>3, <1>4 DEF Pend, n
<1>6. \A q, r \in Stems : Before(es, q, r) => Before(fs, q, r)
  BY <1>1, <1>2 DEF Before, n
<1>7. \A q \in Stems : Pend(es, q) => Before(fs, q, e[2])
  BY <1>1, <1>2, <1>3 DEF Before, Pend, n
<1>. QED
  BY <1>5, <1>6, <1>7 DEF fs

\* The last events still say which files are there once the new one has joined.
LEMMA PushLast ==
  ASSUME NEW es \in Seq(Event), NEW e \in Event, NEW d, NEW d2, LastSays(es, d),
         \A r \in Stems \ {e[2]} : d2[r] = d[r], e[1] = Says(d2, e[2])
  PROVE  LastSays(Append(es, e), d2)
<1>. DEFINE n == Len(es)
            fs == Append(es, e)
<1>1. n \in Nat /\ Len(fs) = n + 1 /\ fs[n + 1] = e /\ \A k \in 1..n : fs[k] = es[k] /\ es[k][2] \in Stems
  BY AppendFacts DEF Event
<1>. HIDE DEF fs
<1>. SUFFICES ASSUME NEW k \in 1..(n + 1), LastOf(fs, k) PROVE fs[k][1] = Says(d2, fs[k][2])
  BY <1>1 DEF LastSays, fs
<1>2. CASE k = n + 1
  BY <1>1, <1>2
<1>3. CASE k \in 1..n
  <2>1. fs[n + 1][2] # fs[k][2]
    BY <1>1, <1>3 DEF LastOf
  <2>2. es[k][2] \in Stems \ {e[2]}
    BY <1>1, <1>3, <2>1
  <2>3. LastOf(es, k)
    BY <1>1, <1>3 DEF LastOf
  <2>4. es[k][1] = Says(d, es[k][2])
    BY <1>3, <2>3 DEF LastSays
  <2>. QED
    BY <1>1, <1>3, <2>2, <2>4 DEF Says
<1>. QED
  BY <1>1, <1>2, <1>3

\* What waits after the first event was taken, and what it said.
LEMMA PopPend ==
  ASSUME NEW es \in Seq(Event), es # <<>>
  PROVE  /\ \A r \in Stems : Pend(Tail(es), r) => Pend(es, r)
         /\ \A r \in Stems : Pend(es, r) => r = Head(es)[2] \/ Pend(Tail(es), r)
         /\ \A q, r \in Stems : Before(es, q, r) => q = Head(es)[2] \/ Before(Tail(es), q, r)
         /\ \A q, r \in Stems : Before(es, q, r) => Pend(Tail(es), r)
<1>. DEFINE n == Len(es)
            fs == Tail(es)
<1>1. n \in Nat /\ Len(fs) = n - 1 /\ Head(es) = es[1] /\ \A k \in 1..(n - 1) : fs[k] = es[k + 1]
  BY TailFacts
<1>. HIDE DEF n, fs
<1>2. \A k \in 1..(n - 1) : k + 1 \in 1..n
  BY <1>1
<1>3. \A k \in 1..n : k = 1 \/ (k - 1 \in 1..(n - 1) /\ fs[k - 1] = es[k])
  BY <1>1
<1>4. \A r \in Stems : Pend(fs, r) => Pend(es, r)
  BY <1>1, <1>2 DEF Pend, n
<1>5. \A r \in Stems : Pend(es, r) => r = Head(es)[2] \/ Pend(fs, r)
  BY <1>1, <1>3 DEF Pend, n
<1>6. ASSUME NEW q \in Stems, NEW r \in Stems, Before(es, q, r)
      PROVE  (q = Head(es)[2] \/ Before(fs, q, r)) /\ Pend(fs, r)
  <2>1. PICK i \in 1..n, j \in 1..n : i < j /\ es[i][2] = q /\ es[j][2] = r
    BY <1>6 DEF Before, n
  <2>2. j # 1 /\ i - 1 < j - 1
    BY <1>1, <2>1
  <2>3. j - 1 \in 1..(n - 1) /\ fs[j - 1] = es[j]
    BY <1>3, <2>2
  <2>4. Pend(fs, r)
    BY <1>1, <2>1, <2>3 DEF Pend
  <2>5. CASE i = 1
    BY <1>1, <2>1, <2>4, <2>5
  <2>6. CASE i # 1
    <3>1. i - 1 \in 1..(n - 1) /\ fs[i - 1] = es[i]
      BY <1>3, <2>6
    <3>2. Before(fs, q, r)
      BY <1>1, <2>1, <2>2, <2>3, <3>1 DEF Before
    <3>. QED
      BY <2>4, <3>2
  <2>. QED
    BY <2>5, <2>6
<1>. QED
  BY <1>4, <1>5, <1>6 DEF fs

\* So they do once the first was taken; an event no later one on its file follows said it too.
LEMMA PopLast ==
  ASSUME NEW es \in Seq(Event), es # <<>>, NEW d, LastSays(es, d)
  PROVE  /\ LastSays(Tail(es), d)
         /\ ~Pend(Tail(es), Head(es)[2]) => Head(es)[1] = Says(d, Head(es)[2])
<1>. DEFINE n == Len(es)
            fs == Tail(es)
<1>1. n \in Nat /\ n > 0 /\ Len(fs) = n - 1 /\ Head(es) = es[1] /\ \A k \in 1..(n - 1) : fs[k] = es[k + 1]
  BY TailFacts
<1>. HIDE DEF fs
<1>2. ASSUME NEW k \in 1..(n - 1), LastOf(fs, k) PROVE fs[k][1] = Says(d, fs[k][2])
  <2>1. ASSUME NEW j \in 1..n, j > k + 1 PROVE es[j][2] # es[k + 1][2]
    <3>1. j - 1 \in 1..(n - 1) /\ j - 1 > k
      BY <1>1, <2>1
    <3>2. fs[j - 1] = es[j]
      BY <1>1, <3>1
    <3>. QED
      BY <1>1, <1>2, <3>1, <3>2 DEF LastOf
  <2>2. k + 1 \in 1..n
    BY <1>1
  <2>3. LastOf(es, k + 1)
    BY <2>1 DEF LastOf
  <2>. QED
    BY <1>1, <2>2, <2>3 DEF LastSays
<1>3. ASSUME ~Pend(fs, es[1][2]) PROVE es[1][1] = Says(d, es[1][2])
  <2>1. ASSUME NEW j \in 1..n, j > 1 PROVE es[j][2] # es[1][2]
    <3>1. j - 1 \in 1..(n - 1)
      BY <1>1, <2>1
    <3>2. fs[j - 1] = es[j]
      BY <1>1, <3>1
    <3>. QED
      BY <1>1, <1>3, <3>1, <3>2 DEF Pend
  <2>2. LastOf(es, 1) /\ 1 \in 1..n
    BY <1>1, <2>1 DEF LastOf
  <2>. QED
    BY <2>2 DEF LastSays
<1>. QED
  BY <1>1, <1>2, <1>3 DEF LastSays, fs

-----------------------------------------------------------------------------
(* Types.                                                                  *)

Files == {NoFile} \cup [name : Stems, ver : Nat \ {0}, ok : BOOLEAN]
ReadResults == [path : Stems, seen : Files]
Requests == [at : {"write", "read", "swap", "forget"}, name : Stems, path : Stems]
SType ==
  /\ versions \in Nat /\ dir \in [Stems -> Files] /\ registry \in [Stems -> Nat]
  /\ pathNames \in [Stems -> Stems \cup {NoName}] /\ broken \subseteq Stems
  /\ fsEvents \in Seq(Event)
  /\ reload \in [Threads -> {Rest} \cup ReadResults]
  /\ client \in [Clients -> {NoRequest} \cup Requests]
  /\ \A c \in Clients : client[c].at = "swap" => reload[c] \in ReadResults

\* A file on disk has a name and a version; a missing one is not valid.
LEMMA FileFacts ==
  /\ NoFile.ok = FALSE /\ NoFile.ver = 0
  /\ \A f \in Files : /\ f.ver \in Nat /\ f.ok \in BOOLEAN
                      /\ f # NoFile => f.name \in Stems /\ f.ver > 0
                      /\ f.ok => f # NoFile
  /\ \A n \in Stems, v \in Nat, ok \in BOOLEAN :
        [name |-> n, ver |-> v + 1, ok |-> ok] \in Files \ {NoFile}
<1>0. NoFile.ok = FALSE /\ NoFile.ver = 0 /\ NoFile.ver \in Nat /\ NoFile.ok \in BOOLEAN
  BY DEF NoFile
<1>1. \A f \in Files : f # NoFile => f.name \in Stems /\ f.ver \in Nat \ {0} /\ f.ok \in BOOLEAN
  BY DEF Files
<1>2. ASSUME NEW n \in Stems, NEW v \in Nat, NEW ok \in BOOLEAN
      PROVE  [name |-> n, ver |-> v + 1, ok |-> ok] \in Files \ {NoFile}
  <2>1. v + 1 \in Nat \ {0} /\ v + 1 # 0
    OBVIOUS
  <2>2. [name |-> n, ver |-> v + 1, ok |-> ok].ver = v + 1
    OBVIOUS
  <2>3. [name |-> n, ver |-> v + 1, ok |-> ok] # NoFile
    BY <1>0, <2>1, <2>2
  <2>. QED
    BY <2>1, <2>3 DEF Files
<1>3. \A f \in Files : f.ver \in Nat /\ f.ok \in BOOLEAN
  BY <1>0, <1>1
<1>4. \A f \in Files : (f # NoFile => f.ver > 0) /\ (f.ok => f # NoFile)
  BY <1>0, <1>1
<1>. QED
  BY <1>0, <1>1, <1>2, <1>3, <1>4

\* A reload under way names a file.
LEMMA RestFacts ==
  /\ \A p \in Stems, f \in Files : [path |-> p, seen |-> f] \in ReadResults /\ [path |-> p, seen |-> f] # Rest
  /\ \A r \in ReadResults : r.path \in Stems /\ r.seen \in Files /\ r # Rest /\ r = [path |-> r.path, seen |-> r.seen]
<1>1. Rest.path = NoName /\ NoName \notin Stems
  BY SourceAssumption DEF Rest
<1>. QED
  BY <1>1 DEF ReadResults

\* Requests under way, and what changing their stage gives.
LEMMA RequestFacts ==
  /\ NoRequest.at = "idle"
  /\ \A r \in Requests : r.at \in {"write", "read", "swap", "forget"} /\ r.name \in Stems /\ r.path \in Stems
  /\ \A a \in {"write", "read", "swap", "forget"}, n \in Stems, p \in Stems :
        [at |-> a, name |-> n, path |-> p] \in Requests
  /\ \A r \in Requests, a \in {"write", "read", "swap", "forget"} : [r EXCEPT !.at = a] \in Requests
  BY DEF Requests, NoRequest

\* A client that is not idle has a request with a file and a name.
LEMMA ClientAt ==
  ASSUME SType, NEW c \in Clients
  PROVE  /\ client[c] = NoRequest \/ client[c] \in Requests
         /\ client[c].at # "idle" => client[c] \in Requests /\ client[c].path \in Stems /\ client[c].name \in Stems
  BY RequestFacts DEF SType

\* What the second half of a reload does, by whether the file that was read validates.
Swapped(h, s) ==
  \/ ~s.ok /\ broken' = broken \cup {h} /\ UNCHANGED <<registry, pathNames>>
  \/ /\ s.ok /\ broken' = broken \ {h} /\ pathNames' = [pathNames EXCEPT ![h] = s.name]
     /\ registry' = [n \in Stems |-> IF n = s.name THEN s.ver ELSE IF n = pathNames[h] THEN 0 ELSE registry[n]]

\* Swap, with the file and what was read of it named.
LEMMA SwapFacts ==
  ASSUME SType, NEW t \in Threads, reload[t] \in ReadResults, Swap(t)
  PROVE  \E h \in Stems, s \in Files : reload[t] = [path |-> h, seen |-> s] /\ Swapped(h, s)
<1>1. /\ reload[t].path \in Stems /\ reload[t].seen \in Files
      /\ reload[t] = [path |-> reload[t].path, seen |-> reload[t].seen]
  BY RestFacts
<1>2. Swapped(reload[t].path, reload[t].seen)
  BY DEF Swap, Swapped
<1>. QED
  BY <1>1, <1>2

\* Swap keeps the types of what it writes.
LEMMA SwappedType ==
  ASSUME SType, NEW h \in Stems, NEW s \in Files, Swapped(h, s)
  PROVE  registry' \in [Stems -> Nat] /\ pathNames' \in [Stems -> Stems \cup {NoName}] /\ broken' \subseteq Stems
<1>0. registry \in [Stems -> Nat] /\ pathNames \in [Stems -> Stems \cup {NoName}] /\ broken \subseteq Stems
  BY DEF SType
<1>1. CASE ~s.ok
  BY <1>0, <1>1 DEF Swapped
<1>2. CASE s.ok
  <2>1. s.name \in Stems /\ s.ver \in Nat
    BY <1>2, FileFacts
  <2>2. registry' \in [Stems -> Nat]
    BY <1>0, <1>2, <2>1 DEF Swapped
  <2>. QED
    BY <1>0, <1>2, <2>1, <2>2 DEF Swapped
<1>. QED
  BY <1>1, <1>2

\* So does Forget.
LEMMA ForgetType ==
  ASSUME SType, NEW h \in Stems, Forget(h)
  PROVE  registry' \in [Stems -> Nat] /\ pathNames' \in [Stems -> Stems \cup {NoName}] /\ broken' \subseteq Stems
  BY DEF SType, Forget

\* An event joins the queue.
LEMMA PushType ==
  ASSUME SType, NEW k \in {"changed", "deleted", "moved"}, NEW p \in Stems, fsEvents' = Append(fsEvents, <<k, p>>)
  PROVE  fsEvents' \in Seq(Event)
<1>1. <<k, p>> \in Event
  BY DEF Event
<1>2. fsEvents \in Seq(Event)
  BY DEF SType
<1>. QED
  BY <1>1, <1>2, AppendFacts

\* The event the watcher takes is on a file.
LEMMA HeadType ==
  ASSUME SType, fsEvents # <<>>
  PROVE  /\ Head(fsEvents)[2] \in Stems /\ Tail(fsEvents) \in Seq(Event)
<1>2. fsEvents \in Seq(Event)
  BY DEF SType
<1>1. Head(fsEvents) \in Event /\ Tail(fsEvents) \in Seq(Event)
  BY <1>2, TailFacts
<1>. QED
  BY <1>1 DEF Event

\* The types hold in the beginning.
LEMMA STypeInit == SourceInit => SType
<1>. SUFFICES ASSUME SourceInit PROVE SType
  OBVIOUS
<1>1. fsEvents \in Seq(Event) /\ versions \in Nat
  BY DEF SourceInit
<1>2. dir \in [Stems -> Files] /\ registry \in [Stems -> Nat] /\ pathNames \in [Stems -> Stems \cup {NoName}] /\ broken \subseteq Stems
  BY DEF SourceInit, Files
<1>3. /\ reload \in [Threads -> {Rest} \cup ReadResults]
      /\ client \in [Clients -> {NoRequest} \cup Requests]
  BY DEF SourceInit
<1>4. \A c \in Clients : client[c].at # "swap"
  BY RequestFacts DEF SourceInit
<1>. QED
  BY <1>1, <1>2, <1>3, <1>4 DEF SType

\* Every step keeps the types, one case per action.
LEMMA STypeStep == SType /\ [SourceNext]_srcVars => SType'
<1>. SUFFICES ASSUME SType, [SourceNext]_srcVars PROVE SType'
  OBVIOUS
<1>0. /\ versions \in Nat /\ dir \in [Stems -> Files] /\ registry \in [Stems -> Nat]
      /\ pathNames \in [Stems -> Stems \cup {NoName}] /\ broken \subseteq Stems
      /\ fsEvents \in Seq(Event)
      /\ reload \in [Threads -> {Rest} \cup ReadResults]
      /\ client \in [Clients -> {NoRequest} \cup Requests]
      /\ \A c \in Clients : client[c].at = "swap" => reload[c] \in ReadResults
  BY DEF SType
<1>1. ASSUME NEW p \in Stems, NEW n \in Stems, NEW ok \in BOOLEAN, EditorSaves(p, n, ok) PROVE SType'
  <2>1. /\ versions' = versions + 1 /\ dir' = [dir EXCEPT ![p] = [name |-> n, ver |-> versions + 1, ok |-> ok]]
        /\ fsEvents' = Append(fsEvents, <<"changed", p>>)
        /\ UNCHANGED <<registry, pathNames, broken, reload, client>>
    BY <1>1 DEF EditorSaves
  <2>2. fsEvents' \in Seq(Event)
    BY <2>1, PushType
  <2>3. [name |-> n, ver |-> versions + 1, ok |-> ok] \in Files
    BY <1>0, FileFacts
  <2>4. dir' \in [Stems -> Files]
    BY <1>0, <2>1, <2>3
  <2>. QED
    BY <1>0, <2>1, <2>2, <2>4 DEF SType
<1>2. ASSUME NEW p \in Stems, EditorRemoves(p) PROVE SType'
  <2>1. /\ dir' = [dir EXCEPT ![p] = NoFile] /\ fsEvents' = Append(fsEvents, <<"deleted", p>>)
        /\ UNCHANGED <<registry, pathNames, broken, reload, client, versions>>
    BY <1>2 DEF EditorRemoves
  <2>2. fsEvents' \in Seq(Event)
    BY <2>1, PushType
  <2>4. dir' \in [Stems -> Files]
    BY <1>0, <2>1 DEF Files
  <2>. QED
    BY <1>0, <2>1, <2>2, <2>4 DEF SType
<1>3. ASSUME NEW p \in Stems, NEW q \in Stems, EditorMoves(p, q) PROVE SType'
  <2>1. /\ dir' = [dir EXCEPT ![p] = NoFile, ![q] = dir[p]] /\ fsEvents' = Append(fsEvents, <<"moved", q>>)
        /\ UNCHANGED <<registry, pathNames, broken, reload, client, versions>>
    BY <1>3 DEF EditorMoves
  <2>2. fsEvents' \in Seq(Event)
    BY <2>1, PushType
  <2>3. NoFile \in Files
    BY DEF Files
  <2>4. dir' \in [Stems -> Files]
    BY <1>0, <2>1, <2>3
  <2>. QED
    BY <1>0, <2>1, <2>2, <2>4 DEF SType
<1>4. CASE WatchTakes
  <2>1. /\ fsEvents # <<>> /\ fsEvents' = Tail(fsEvents) /\ UNCHANGED <<dir, client, versions>>
        /\ \/ Forget(Head(fsEvents)[2]) /\ UNCHANGED reload
           \/ ReadFile("watch", Head(fsEvents)[2]) /\ UNCHANGED <<registry, pathNames, broken>>
    BY <1>4 DEF WatchTakes
  <2>2. PICK h \in Stems : h = Head(fsEvents)[2]
    BY <2>1, HeadType
  <2>3. fsEvents' \in Seq(Event)
    BY <2>1, HeadType
  <2>4. CASE Forget(h) /\ UNCHANGED reload
    BY <1>0, <2>1, <2>3, <2>4, ForgetType DEF SType
  <2>5. CASE ReadFile("watch", h) /\ UNCHANGED <<registry, pathNames, broken>>
    <3>1. reload' = [reload EXCEPT !["watch"] = [path |-> h, seen |-> dir[h]]] /\ dir[h] \in Files
      BY <1>0, <2>5 DEF ReadFile
    <3>2. [path |-> h, seen |-> dir[h]] \in ReadResults
      BY <3>1, RestFacts
    <3>3. reload' \in [Threads -> {Rest} \cup ReadResults]
      BY <1>0, <3>1, <3>2
    <3>4. \A c \in Clients : c \in Threads /\ c # "watch"
      BY SourceAssumption DEF Threads
    <3>5. \A c \in Clients : reload'[c] = reload[c]
      BY <1>0, <3>1, <3>4
    <3>. QED
      BY <1>0, <2>1, <2>3, <2>5, <3>3, <3>5 DEF SType
  <2>. QED
    BY <2>1, <2>2, <2>4, <2>5
<1>5. CASE WatchSwaps
  <2>1. /\ reload["watch"] # Rest /\ Swap("watch") /\ reload' = [reload EXCEPT !["watch"] = Rest]
        /\ UNCHANGED <<dir, fsEvents, client, versions>>
    BY <1>5 DEF WatchSwaps
  <2>2. "watch" \in Threads /\ reload["watch"] \in ReadResults
    BY <1>0, <2>1 DEF Threads
  <2>3. PICK h \in Stems, s \in Files : Swapped(h, s)
    BY <2>1, <2>2, SwapFacts
  <2>4. registry' \in [Stems -> Nat] /\ pathNames' \in [Stems -> Stems \cup {NoName}] /\ broken' \subseteq Stems
    BY <2>3, SwappedType
  <2>5. reload' \in [Threads -> {Rest} \cup ReadResults]
    BY <1>0, <2>1
  <2>6. \A c \in Clients : c \in Threads /\ c # "watch"
    BY SourceAssumption DEF Threads
  <2>7. \A c \in Clients : reload'[c] = reload[c]
    BY <1>0, <2>1, <2>6
  <2>. QED
    BY <1>0, <2>1, <2>4, <2>5, <2>7 DEF SType
<1>6. ASSUME NEW c \in Clients, NEW n \in Stems, PutCopies(c, n) PROVE SType'
  <2>1. PICK p \in Stems : client' = [client EXCEPT ![c] = [at |-> "write", name |-> n, path |-> p]]
    BY <1>6 DEF PutCopies, PathFor
  <2>2. UNCHANGED <<dir, registry, pathNames, broken, fsEvents, reload, versions>>
    BY <1>6 DEF PutCopies
  <2>3. [at |-> "write", name |-> n, path |-> p] \in Requests
    BY RequestFacts
  <2>4. client' \in [Clients -> {NoRequest} \cup Requests]
    BY <1>0, <2>1, <2>3
  <2>5. \A b \in Clients : client'[b].at = "swap" => client[b].at = "swap"
    BY <1>0, <2>1
  <2>. QED
    BY <1>0, <2>2, <2>4, <2>5 DEF SType
<1>7. ASSUME NEW c \in Clients, PutWrites(c) PROVE SType'
  <2>0. PICK p \in Stems, n \in Stems : p = client[c].path /\ n = client[c].name
    BY <1>7, ClientAt DEF PutWrites
  <2>1. /\ versions' = versions + 1 /\ dir' = [dir EXCEPT ![p] = [name |-> n, ver |-> versions + 1, ok |-> TRUE]]
        /\ fsEvents' = Append(fsEvents, <<"changed", p>>) /\ client' = [client EXCEPT ![c].at = "read"]
        /\ UNCHANGED <<registry, pathNames, broken, reload>>
    BY <1>7, <2>0 DEF PutWrites
  <2>2. fsEvents' \in Seq(Event)
    BY <2>1, PushType
  <2>3. [name |-> n, ver |-> versions + 1, ok |-> TRUE] \in Files
    BY <1>0, FileFacts
  <2>4. dir' \in [Stems -> Files]
    BY <1>0, <2>1, <2>3
  <2>5. client[c] \in Requests
    BY <1>7, ClientAt DEF PutWrites
  <2>6. [client[c] EXCEPT !.at = "read"] \in Requests /\ [client[c] EXCEPT !.at = "read"].at = "read"
    BY <2>5, RequestFacts DEF Requests
  <2>7. client' = [client EXCEPT ![c] = [client[c] EXCEPT !.at = "read"]]
    BY <2>1
  <2>8. client' \in [Clients -> {NoRequest} \cup Requests]
    BY <1>0, <2>6, <2>7
  <2>9. \A b \in Clients : client'[b].at = "swap" => client[b].at = "swap"
    BY <1>0, <2>6, <2>7
  <2>. QED
    BY <1>0, <2>1, <2>2, <2>4, <2>8, <2>9 DEF SType
<1>8. ASSUME NEW c \in Clients, PutReads(c) PROVE SType'
  <2>1. /\ client[c].at = "read" /\ reload' = [reload EXCEPT ![c] = [path |-> client[c].path, seen |-> dir[client[c].path]]]
        /\ client' = [client EXCEPT ![c].at = "swap"]
        /\ UNCHANGED <<dir, registry, pathNames, broken, fsEvents, versions>>
    BY <1>8 DEF PutReads, ReadFile
  <2>2. client[c] \in Requests /\ client[c].path \in Stems
    BY <2>1, ClientAt
  <2>3. [path |-> client[c].path, seen |-> dir[client[c].path]] \in ReadResults
    BY <1>0, <2>2, RestFacts
  <2>4. [client[c] EXCEPT !.at = "swap"] \in Requests
    BY <2>2, RequestFacts
  <2>5. client' \in [Clients -> {NoRequest} \cup Requests]
    BY <1>0, <2>1, <2>4
  <2>6. c \in Threads
    BY DEF Threads
  <2>7. reload' \in [Threads -> {Rest} \cup ReadResults] /\ reload'[c] \in ReadResults
    BY <1>0, <2>1, <2>3, <2>6
  <2>8. \A b \in Clients : b # c => client'[b] = client[b] /\ reload'[b] = reload[b]
    BY <1>0, <2>1, <2>6 DEF Threads
  <2>. QED
    BY <1>0, <2>1, <2>5, <2>7, <2>8 DEF SType
<1>9. ASSUME NEW c \in Clients, PutSwaps(c) PROVE SType'
  <2>1. /\ client[c].at = "swap" /\ Swap(c) /\ reload' = [reload EXCEPT ![c] = Rest]
        /\ client' = [client EXCEPT ![c] = NoRequest] /\ UNCHANGED <<dir, fsEvents, versions>>
    BY <1>9 DEF PutSwaps
  <2>2. c \in Threads /\ reload[c] \in ReadResults
    BY <1>0, <2>1 DEF Threads
  <2>3. PICK h \in Stems, s \in Files : Swapped(h, s)
    BY <2>1, <2>2, SwapFacts
  <2>4. registry' \in [Stems -> Nat] /\ pathNames' \in [Stems -> Stems \cup {NoName}] /\ broken' \subseteq Stems
    BY <2>3, SwappedType
  <2>5. reload' \in [Threads -> {Rest} \cup ReadResults] /\ client' \in [Clients -> {NoRequest} \cup Requests]
    BY <1>0, <2>1
  <2>6. client'[c].at = "idle"
    BY <1>0, <2>1, RequestFacts
  <2>7. \A b \in Clients : b # c => client'[b] = client[b] /\ reload'[b] = reload[b]
    BY <1>0, <2>1, <2>2 DEF Threads
  <2>. QED
    BY <1>0, <2>1, <2>4, <2>5, <2>6, <2>7 DEF SType
<1>10. ASSUME NEW c \in Clients, NEW n \in Stems, DeleteMoves(c, n) PROVE SType'
  <2>1. PICK p \in Stems : /\ client' = [client EXCEPT ![c] = [at |-> "forget", name |-> n, path |-> p]]
                           /\ dir' = [dir EXCEPT ![p] = NoFile] /\ fsEvents' = Append(fsEvents, <<"deleted", p>>)
    BY <1>10 DEF DeleteMoves, PathFor
  <2>2. UNCHANGED <<registry, pathNames, broken, reload, versions>>
    BY <1>10 DEF DeleteMoves
  <2>3. [at |-> "forget", name |-> n, path |-> p] \in Requests
    BY RequestFacts
  <2>4. client' \in [Clients -> {NoRequest} \cup Requests]
    BY <1>0, <2>1, <2>3
  <2>5. \A b \in Clients : client'[b].at = "swap" => client[b].at = "swap"
    BY <1>0, <2>1
  <2>6. fsEvents' \in Seq(Event)
    BY <2>1, PushType
  <2>7. dir' \in [Stems -> Files]
    BY <1>0, <2>1 DEF Files
  <2>. QED
    BY <1>0, <2>2, <2>4, <2>5, <2>6, <2>7 DEF SType
<1>11. ASSUME NEW c \in Clients, DeleteForgets(c) PROVE SType'
  <2>1. /\ client[c].at = "forget" /\ Forget(client[c].path) /\ client' = [client EXCEPT ![c] = NoRequest]
        /\ UNCHANGED <<dir, fsEvents, reload, versions>>
    BY <1>11 DEF DeleteForgets
  <2>2. client[c].path \in Stems
    BY <2>1, ClientAt
  <2>3. registry' \in [Stems -> Nat] /\ pathNames' \in [Stems -> Stems \cup {NoName}] /\ broken' \subseteq Stems
    BY <2>1, <2>2, ForgetType
  <2>4. client' \in [Clients -> {NoRequest} \cup Requests]
    BY <1>0, <2>1
  <2>5. \A b \in Clients : client'[b].at = "swap" => client[b].at = "swap"
    BY <1>0, <2>1, RequestFacts
  <2>. QED
    BY <1>0, <2>1, <2>3, <2>4, <2>5 DEF SType
<1>12. CASE UNCHANGED srcVars
  BY <1>0, <1>12 DEF SType, srcVars
<1>. QED
  BY <1>1, <1>2, <1>3, <1>4, <1>5, <1>6, <1>7, <1>8, <1>9, <1>10, <1>11, <1>12 DEF SourceNext, Catch

\* What a step may do to the registry: nothing, the second half of a reload, or a forget.
LEMMA RegistrySteps ==
  ASSUME SType, [SourceNext]_srcVars
  PROVE  /\ oddities \subseteq oddities'
         /\ \/ UNCHANGED <<registry, pathNames, broken>>
            \/ \E h \in Stems : Forget(h)
            \/ \E h \in Stems, s \in Files : Swapped(h, s) /\ NotedSwap
<1>1. ASSUME NEW p \in Stems, NEW n \in Stems, NEW ok \in BOOLEAN, EditorSaves(p, n, ok)
      PROVE  oddities \subseteq oddities' /\ UNCHANGED <<registry, pathNames, broken>>
  BY <1>1 DEF EditorSaves, Noted
<1>2. ASSUME NEW p \in Stems, EditorRemoves(p)
      PROVE  oddities \subseteq oddities' /\ UNCHANGED <<registry, pathNames, broken>>
  BY <1>2 DEF EditorRemoves, Noted
<1>3. ASSUME NEW p \in Stems, NEW q \in Stems, EditorMoves(p, q)
      PROVE  oddities \subseteq oddities' /\ UNCHANGED <<registry, pathNames, broken>>
  BY <1>3 DEF EditorMoves, Noted
<1>4. CASE WatchTakes
  <2>1. fsEvents # <<>> /\ UNCHANGED oddities
        /\ (Forget(Head(fsEvents)[2]) \/ UNCHANGED <<registry, pathNames, broken>>)
    BY <1>4 DEF WatchTakes
  <2>. QED
    BY <2>1, HeadType
<1>5. CASE WatchSwaps
  <2>1. reload["watch"] # Rest /\ Swap("watch") /\ NotedSwap
    BY <1>5 DEF WatchSwaps
  <2>2. "watch" \in Threads /\ reload["watch"] \in ReadResults
    BY <2>1 DEF Threads, SType
  <2>3. \E h \in Stems, s \in Files : Swapped(h, s)
    BY <2>1, <2>2, SwapFacts
  <2>. QED
    BY <2>1, <2>3 DEF NotedSwap
<1>6. ASSUME NEW c \in Clients, NEW n \in Stems, PutCopies(c, n)
      PROVE  oddities \subseteq oddities' /\ UNCHANGED <<registry, pathNames, broken>>
  BY <1>6 DEF PutCopies
<1>7. ASSUME NEW c \in Clients, PutWrites(c)
      PROVE  oddities \subseteq oddities' /\ UNCHANGED <<registry, pathNames, broken>>
  BY <1>7 DEF PutWrites
<1>8. ASSUME NEW c \in Clients, PutReads(c)
      PROVE  oddities \subseteq oddities' /\ UNCHANGED <<registry, pathNames, broken>>
  BY <1>8 DEF PutReads
<1>9. ASSUME NEW c \in Clients, PutSwaps(c)
      PROVE  oddities \subseteq oddities' /\ \E h \in Stems, s \in Files : Swapped(h, s) /\ NotedSwap
  <2>1. client[c].at = "swap" /\ Swap(c) /\ NotedSwap
    BY <1>9 DEF PutSwaps
  <2>2. c \in Threads /\ reload[c] \in ReadResults
    BY <2>1 DEF Threads, SType
  <2>3. \E h \in Stems, s \in Files : Swapped(h, s)
    BY <2>1, <2>2, SwapFacts
  <2>. QED
    BY <2>1, <2>3 DEF NotedSwap
<1>10. ASSUME NEW c \in Clients, NEW n \in Stems, DeleteMoves(c, n)
      PROVE  oddities \subseteq oddities' /\ UNCHANGED <<registry, pathNames, broken>>
  BY <1>10 DEF DeleteMoves, Noted
<1>11. ASSUME NEW c \in Clients, DeleteForgets(c)
      PROVE  oddities \subseteq oddities' /\ \E h \in Stems : Forget(h)
  <2>1. client[c].at = "forget" /\ Forget(client[c].path) /\ UNCHANGED oddities
    BY <1>11 DEF DeleteForgets
  <2>. QED
    BY <2>1, ClientAt
<1>12. CASE UNCHANGED srcVars
  BY <1>12 DEF srcVars
<1>13. CASE \E c \in Clients : PutWrites(c) \/ PutReads(c) \/ PutSwaps(c) \/ DeleteForgets(c)
  BY <1>7, <1>8, <1>9, <1>11, <1>13
<1>14. CASE \E p \in Stems : EditorRemoves(p) \/ (\E q \in Stems : EditorMoves(p, q))
                      \/ (\E n \in Stems, ok \in BOOLEAN : EditorSaves(p, n, ok))
  BY <1>1, <1>2, <1>3, <1>14
<1>15. CASE \E c \in Clients, n \in Stems : PutCopies(c, n) \/ DeleteMoves(c, n)
  BY <1>6, <1>10, <1>15
<1>. QED
  BY <1>4, <1>5, <1>12, <1>13, <1>14, <1>15 DEF SourceNext, Catch

\* A live name is credited to a file.
Backed == \A n \in Stems : registry[n] # 0 => \E p \in Stems : pathNames[p] = n
\* While no two files were credited with one name, every credited name is live.
Apart == "handed" \notin oddities =>
           /\ ~CreditedTwice(Stems)
           /\ \A p \in Stems : pathNames[p] # NoName => registry[pathNames[p]] > 0

\* A swap or forget that takes a name out of the registry takes only its own credit.
LEMMA BackedStep == SType /\ Backed /\ [SourceNext]_srcVars => Backed'
<1>. SUFFICES ASSUME SType, Backed, [SourceNext]_srcVars PROVE Backed'
  OBVIOUS
<1>0. registry \in [Stems -> Nat] /\ pathNames \in [Stems -> Stems \cup {NoName}]
  BY DEF SType
<1>1. CASE UNCHANGED <<registry, pathNames, broken>>
  BY <1>1 DEF Backed
<1>2. ASSUME NEW h \in Stems, Forget(h) PROVE Backed'
  <2>. SUFFICES ASSUME NEW n \in Stems, registry'[n] # 0 PROVE \E p \in Stems : pathNames'[p] = n
    BY DEF Backed
  <2>1. n # pathNames[h] /\ registry[n] # 0
    BY <1>0, <1>2 DEF Forget
  <2>2. PICK p \in Stems : pathNames[p] = n
    BY <2>1 DEF Backed
  <2>3. pathNames'[p] = n
    BY <1>0, <1>2, <2>1, <2>2 DEF Forget
  <2>. QED
    BY <2>3
<1>3. ASSUME NEW h \in Stems, NEW s \in Files, Swapped(h, s) PROVE Backed'
  <2>1. CASE ~s.ok
    BY <1>3, <2>1 DEF Swapped, Backed
  <2>2. CASE s.ok
    <3>. SUFFICES ASSUME NEW n \in Stems, registry'[n] # 0 PROVE \E p \in Stems : pathNames'[p] = n
      BY DEF Backed
    <3>1. CASE n = s.name
      BY <1>0, <1>3, <2>2, <3>1 DEF Swapped
    <3>2. CASE n # s.name
      <4>1. n # pathNames[h] /\ registry[n] # 0
        BY <1>0, <1>3, <2>2, <3>2 DEF Swapped
      <4>2. PICK p \in Stems : pathNames[p] = n
        BY <4>1 DEF Backed
      <4>3. pathNames'[p] = n
        BY <1>0, <1>3, <2>2, <4>1, <4>2 DEF Swapped
      <4>. QED
        BY <4>3
    <3>. QED
      BY <3>1, <3>2
  <2>. QED
    BY <2>1, <2>2
<1>. QED
  BY <1>1, <1>2, <1>3, RegistrySteps

\* With every name credited once, no swap or forget takes down another file's.
LEMMA ApartStep == SType /\ Apart /\ [SourceNext]_srcVars => Apart'
<1>. SUFFICES ASSUME SType, Apart, [SourceNext]_srcVars, "handed" \notin oddities'
              PROVE  /\ ~CreditedTwice(Stems)'
                     /\ \A p \in Stems : pathNames'[p] # NoName => registry'[pathNames'[p]] > 0
  BY DEF Apart
<1>0. /\ registry \in [Stems -> Nat] /\ pathNames \in [Stems -> Stems \cup {NoName}]
      /\ ~CreditedTwice(Stems) /\ \A p \in Stems : pathNames[p] # NoName => registry[pathNames[p]] > 0
  BY RegistrySteps DEF SType, Apart
<1>1. CASE UNCHANGED <<registry, pathNames, broken>>
  BY <1>0, <1>1 DEF CreditedTwice
<1>2. ASSUME NEW h \in Stems, Forget(h)
      PROVE  /\ ~CreditedTwice(Stems)'
             /\ \A p \in Stems : pathNames'[p] # NoName => registry'[pathNames'[p]] > 0
  <2>1. \A p \in Stems : pathNames'[p] # NoName => p # h /\ pathNames'[p] = pathNames[p]
    BY <1>0, <1>2 DEF Forget
  <2>2. ~CreditedTwice(Stems)'
    BY <1>0, <2>1 DEF CreditedTwice
  <2>3. ASSUME NEW p \in Stems, pathNames'[p] # NoName PROVE registry'[pathNames'[p]] > 0
    <3>1. p # h /\ pathNames'[p] = pathNames[p] /\ pathNames[p] \in Stems
      BY <1>0, <2>1, <2>3
    <3>2. pathNames[p] # pathNames[h]
      BY <1>0, <2>3, <3>1 DEF CreditedTwice
    <3>3. registry'[pathNames[p]] = registry[pathNames[p]]
      BY <1>2, <3>1, <3>2 DEF Forget
    <3>. QED
      BY <1>0, <2>3, <3>1, <3>3
  <2>. QED
    BY <2>2, <2>3
<1>3. ASSUME NEW h \in Stems, NEW s \in Files, Swapped(h, s), NotedSwap
      PROVE  /\ ~CreditedTwice(Stems)'
             /\ \A p \in Stems : pathNames'[p] # NoName => registry'[pathNames'[p]] > 0
  <2>1. ~CreditedTwice(Stems)'
    BY <1>3 DEF NotedSwap
  <2>2. CASE ~s.ok
    BY <1>0, <1>3, <2>1, <2>2 DEF Swapped
  <2>3. CASE s.ok
    <3>1. s.name \in Stems /\ s.ver > 0
      BY <2>3, FileFacts
    <3>2. ASSUME NEW p \in Stems, pathNames'[p] # NoName PROVE registry'[pathNames'[p]] > 0
      <4>1. CASE p = h
        BY <1>0, <1>3, <2>3, <3>1, <4>1 DEF Swapped
      <4>2. CASE p # h
        <5>1. pathNames'[p] = pathNames[p] /\ pathNames[p] \in Stems
          BY <1>0, <1>3, <2>3, <3>2, <4>2 DEF Swapped
        <5>2. pathNames[p] # pathNames[h]
          BY <1>0, <3>2, <4>2, <5>1 DEF CreditedTwice
        <5>3a. \A n \in Stems : n # pathNames[h] => registry'[n] = IF n = s.name THEN s.ver ELSE registry[n]
          BY <1>3, <2>3 DEF Swapped
        <5>3. registry'[pathNames[p]] = s.ver \/ registry'[pathNames[p]] = registry[pathNames[p]]
          BY <5>1, <5>2, <5>3a
        <5>4. registry[pathNames[p]] > 0
          BY <1>0, <3>2, <5>1
        <5>. QED
          BY <3>1, <5>1, <5>3, <5>4
      <4>. QED
        BY <4>1, <4>2
    <3>. QED
      BY <2>1, <3>2
  <2>. QED
    BY <2>2, <2>3
<1>. QED
  BY <1>1, <1>2, <1>3, RegistrySteps

\* Unless a file changed under a PUT, what the PUT will overwrite is in the history, and
\* no two requests are between backup and write of one file.
Saved == "race" \notin oddities =>
  /\ \A c \in Clients : client[c].at = "write" => dir[client[c].path].ver \in history \cup {0}
  /\ \A b, c \in Clients : b # c /\ client[b].at = "write" /\ client[c].at = "write" => client[b].path # client[c].path
Kept == NothingOverwrittenUnsaved /\ Saved

\* No step loses a version, one case per action.
LEMMA KeptStep == SType /\ Kept /\ [SourceNext]_srcVars => Kept'
<1>. SUFFICES ASSUME SType, Kept, [SourceNext]_srcVars, "race" \notin oddities'
              PROVE  /\ \A v \in 1..versions' : v \in history' \/ \E p \in Stems : dir'[p].ver = v
                     /\ \A c \in Clients : client'[c].at = "write" => dir'[client'[c].path].ver \in history' \cup {0}
                     /\ \A b, c \in Clients : b # c /\ client'[b].at = "write" /\ client'[c].at = "write" => client'[b].path # client'[c].path
  BY DEF Kept, NothingOverwrittenUnsaved, Saved
<1>. DEFINE Goal == /\ \A v \in 1..versions' : v \in history' \/ \E p \in Stems : dir'[p].ver = v
                    /\ \A c \in Clients : client'[c].at = "write" => dir'[client'[c].path].ver \in history' \cup {0}
                    /\ \A b, c \in Clients : b # c /\ client'[b].at = "write" /\ client'[c].at = "write" => client'[b].path # client'[c].path
<1>0. /\ versions \in Nat /\ dir \in [Stems -> Files] /\ client \in [Clients -> {NoRequest} \cup Requests]
      /\ \A v \in 1..versions : v \in history \/ \E p \in Stems : dir[p].ver = v
      /\ \A c \in Clients : client[c].at = "write" => dir[client[c].path].ver \in history \cup {0}
      /\ \A b, c \in Clients : b # c /\ client[b].at = "write" /\ client[c].at = "write" => client[b].path # client[c].path
  BY RegistrySteps DEF SType, Kept, Saved, NothingOverwrittenUnsaved
<1>00. \A c \in Clients : client[c].at = "write" => client[c].path \in Stems
  BY ClientAt
\* a file is replaced or removed, and its version is in the history
<1>a. ASSUME NEW p \in Stems, NEW f \in Files, dir' = [dir EXCEPT ![p] = f], dir[p].ver \in history' \cup {0},
             history \subseteq history', ~Writing(p), 
             \/ versions' = versions
             \/ versions' = versions + 1 /\ f.ver = versions + 1,
             \A c \in Clients : client'[c].at = "write" => client'[c] = client[c]
      PROVE  Goal
  <2>1. dir'[p] = f /\ \A r \in Stems \ {p} : dir'[r] = dir[r]
    BY <1>0, <1>a
  <2>2. ASSUME NEW v \in 1..versions', v \notin history' PROVE \E r \in Stems : dir'[r].ver = v
    <3>1. CASE v \in 1..versions
      <4>1. PICK r \in Stems : dir[r].ver = v
        BY <1>0, <1>a, <2>2, <3>1
      <4>2. v # 0
        BY <1>0, <3>1
      <4>3. r # p
        BY <1>a, <2>2, <4>1, <4>2
      <4>. QED
        BY <2>1, <4>1, <4>3
    <3>2. CASE v \notin 1..versions
      <4>1. v = f.ver
        BY <1>0, <1>a, <3>2
      <4>. QED
        BY <2>1, <4>1
    <3>. QED
      BY <3>1, <3>2
  <2>3. ASSUME NEW c \in Clients, client'[c].at = "write" PROVE dir'[client'[c].path].ver \in history' \cup {0}
    <3>1. client'[c] = client[c] /\ client[c].at = "write" /\ client[c].path \in Stems \ {p}
      BY <1>00, <1>a, <2>3 DEF Writing
    <3>. QED
      BY <1>0, <1>a, <2>1, <3>1
  <2>4. \A b, c \in Clients : b # c /\ client'[b].at = "write" /\ client'[c].at = "write" => client'[b].path # client'[c].path
    BY <1>0, <1>a
  <2>. QED
    BY <2>2, <2>3, <2>4
\* the files and versions stay, and no write begins
<1>b. ASSUME UNCHANGED <<dir, history, versions>>, \A c \in Clients : client'[c].at = "write" => client'[c] = client[c]
      PROVE  Goal
  BY <1>0, <1>b
<1>. HIDE DEF Goal
<1>1. ASSUME NEW p \in Stems, NEW n \in Stems, NEW ok \in BOOLEAN, EditorSaves(p, n, ok) PROVE Goal
  <2>1. /\ versions' = versions + 1 /\ dir' = [dir EXCEPT ![p] = [name |-> n, ver |-> versions + 1, ok |-> ok]]
        /\ history' = history \cup {dir[p].ver} /\ client' = client /\ ~Writing(p)
    BY <1>1 DEF EditorSaves, Noted
  <2>2. PICK f \in Files : f = [name |-> n, ver |-> versions + 1, ok |-> ok]
    BY <1>0, FileFacts
  <2>3. f.ver = versions + 1
    BY <2>2
  <2>. QED
    BY <2>1, <2>2, <2>3, <1>a
<1>2. ASSUME NEW p \in Stems, EditorRemoves(p) PROVE Goal
  <2>1. /\ versions' = versions /\ dir' = [dir EXCEPT ![p] = NoFile]
        /\ history' = history \cup {dir[p].ver} /\ client' = client /\ ~Writing(p)
    BY <1>2 DEF EditorRemoves, Noted
  <2>2. NoFile \in Files
    BY DEF Files
  <2>. QED
    BY <2>1, <2>2, <1>a
<1>3. ASSUME NEW p \in Stems, NEW q \in Stems, EditorMoves(p, q) PROVE Goal
  <2>1. /\ p # q /\ dir[q] = NoFile /\ dir' = [dir EXCEPT ![p] = NoFile, ![q] = dir[p]] /\ UNCHANGED <<history, client, versions>>
        /\ ~Writing(q)
    BY <1>3 DEF EditorMoves, Noted, IsFile
  <2>2. dir'[p] = NoFile /\ dir'[q] = dir[p] /\ \A r \in Stems \ {p, q} : dir'[r] = dir[r]
    BY <1>0, <2>1
  <2>3. ASSUME NEW v \in 1..versions', v \notin history' PROVE \E r \in Stems : dir'[r].ver = v
    <3>1. PICK r \in Stems : dir[r].ver = v
      BY <1>0, <2>1, <2>3
    <3>2. r # q
      BY <1>0, <2>1, <2>3, <3>1, FileFacts
    <3>. QED
      BY <2>2, <3>1, <3>2
  <2>4. ASSUME NEW c \in Clients, client'[c].at = "write" PROVE dir'[client'[c].path].ver \in history' \cup {0}
    <3>1. client'[c] = client[c] /\ client[c].at = "write" /\ client[c].path \in Stems \ {q}
      BY <1>00, <2>1, <2>4 DEF Writing
    <3>. QED
      BY <1>0, <2>1, <2>2, <3>1, FileFacts
  <2>. QED
    BY <1>0, <2>1, <2>3, <2>4 DEF Goal
<1>4. ASSUME WatchTakes PROVE Goal
  BY <1>4, <1>b DEF WatchTakes
<1>5. ASSUME WatchSwaps PROVE Goal
  BY <1>5, <1>b DEF WatchSwaps
<1>6. ASSUME NEW c \in Clients, NEW n \in Stems, PutCopies(c, n) PROVE Goal
  <2>1. PICK p \in Stems : /\ client' = [client EXCEPT ![c] = [at |-> "write", name |-> n, path |-> p]]
                           /\ history' = IF IsFile(p) THEN history \cup {dir[p].ver} ELSE history
                           /\ oddities' = IF Writing(p) THEN oddities \cup {"race"} ELSE oddities
    BY <1>6 DEF PutCopies, PathFor
  <2>2. UNCHANGED <<dir, versions>> /\ client[c] = NoRequest /\ ~Writing(p)
    BY <1>6, <2>1 DEF PutCopies
  <2>3. history \subseteq history' /\ dir[p].ver \in history' \cup {0}
    BY <2>1, FileFacts DEF IsFile
  <2>4. client'[c].path = p /\ \A b \in Clients \ {c} : client'[b] = client[b]
    BY <1>0, <2>1
  <2>5. \A b \in Clients : b # c /\ client'[b].at = "write" => client'[b].path # p
    BY <2>2, <2>4 DEF Writing
  <2>6. \A b \in Clients : client'[b].at = "write" => dir'[client'[b].path].ver \in history' \cup {0}
    BY <1>0, <2>2, <2>3, <2>4
  <2>7. \A v \in 1..versions' : v \in history' \/ \E r \in Stems : dir'[r].ver = v
    BY <1>0, <2>2, <2>3
  <2>8. \A a, b \in Clients : a # b /\ client'[a].at = "write" /\ client'[b].at = "write" => client'[a].path # client'[b].path
    BY <1>0, <2>4, <2>5
  <2>. QED
    BY <2>6, <2>7, <2>8 DEF Goal
<1>7. ASSUME NEW c \in Clients, PutWrites(c) PROVE Goal
  <2>0. client[c].at = "write" /\ client[c] \in Requests
    BY <1>7, ClientAt DEF PutWrites
  <2>1. PICK p \in Stems, n \in Stems : p = client[c].path /\ n = client[c].name
    BY <2>0, ClientAt
  <2>2. /\ versions' = versions + 1 /\ dir' = [dir EXCEPT ![p] = [name |-> n, ver |-> versions + 1, ok |-> TRUE]]
        /\ client' = [client EXCEPT ![c].at = "read"] /\ UNCHANGED history
    BY <1>7, <2>1 DEF PutWrites
  <2>3. PICK f \in Files : f = [name |-> n, ver |-> versions + 1, ok |-> TRUE]
    BY <1>0, FileFacts
  <2>4. f.ver = versions + 1 /\ dir'[p] = f /\ \A r \in Stems \ {p} : dir'[r] = dir[r]
    BY <1>0, <2>2, <2>3
  <2>5. [client[c] EXCEPT !.at = "read"].at = "read"
    BY <2>0 DEF Requests
  <2>6. \A b \in Clients : client'[b].at = "write" => b # c /\ client'[b] = client[b]
    BY <1>0, <2>2, <2>5
  <2>7. dir[p].ver \in history \cup {0}
    BY <1>0, <2>0, <2>1
  <2>8. ASSUME NEW v \in 1..versions', v \notin history' PROVE \E r \in Stems : dir'[r].ver = v
    <3>1. CASE v \in 1..versions
      <4>1. PICK r \in Stems : dir[r].ver = v
        BY <1>0, <2>2, <2>8, <3>1
      <4>2. v # 0
        BY <1>0, <3>1
      <4>3. r # p
        BY <2>2, <2>7, <2>8, <4>1, <4>2
      <4>. QED
        BY <2>4, <4>1, <4>3
    <3>2. CASE v \notin 1..versions
      <4>1. v = f.ver
        BY <1>0, <2>2, <2>4, <3>2
      <4>. QED
        BY <2>4, <4>1
    <3>. QED
      BY <3>1, <3>2
  <2>9. ASSUME NEW b \in Clients, client'[b].at = "write" PROVE dir'[client'[b].path].ver \in history' \cup {0}
    <3>1. b # c /\ client'[b] = client[b] /\ client[b].at = "write" /\ client[b].path \in Stems \ {p}
      BY <1>0, <1>00, <2>0, <2>1, <2>6, <2>9
    <3>. QED
      BY <1>0, <2>2, <2>4, <3>1
  <2>10. \A a, b \in Clients : a # b /\ client'[a].at = "write" /\ client'[b].at = "write" => client'[a].path # client'[b].path
    BY <1>0, <2>6
  <2>. QED
    BY <2>8, <2>9, <2>10 DEF Goal
<1>8. ASSUME NEW c \in Clients, PutReads(c) PROVE Goal
  <2>1. client[c].at = "read" /\ client' = [client EXCEPT ![c].at = "swap"] /\ UNCHANGED <<dir, history, versions>>
    BY <1>8 DEF PutReads
  <2>2. [client[c] EXCEPT !.at = "swap"].at = "swap"
    BY <2>1, ClientAt DEF Requests
  <2>3. \A b \in Clients : client'[b].at = "write" => client'[b] = client[b]
    BY <1>0, <2>1, <2>2
  <2>. QED
    BY <2>1, <2>3, <1>b
<1>9. ASSUME NEW c \in Clients, PutSwaps(c) PROVE Goal
  <2>1. client' = [client EXCEPT ![c] = NoRequest] /\ UNCHANGED <<dir, history, versions>>
    BY <1>9 DEF PutSwaps
  <2>2. \A b \in Clients : client'[b].at = "write" => client'[b] = client[b]
    BY <1>0, <2>1, RequestFacts
  <2>. QED
    BY <2>1, <2>2, <1>b
<1>10. ASSUME NEW c \in Clients, NEW n \in Stems, DeleteMoves(c, n) PROVE Goal
  <2>1. PICK p \in Stems : /\ client' = [client EXCEPT ![c] = [at |-> "forget", name |-> n, path |-> p]]
                           /\ dir' = [dir EXCEPT ![p] = NoFile] /\ history' = history \cup {dir[p].ver}
                           /\ oddities' = Noted(dir', p)
    BY <1>10 DEF DeleteMoves, PathFor
  <2>2. versions' = versions /\ ~Writing(p)
    BY <1>10, <2>1 DEF DeleteMoves, Noted
  <2>3. NoFile \in Files
    BY DEF Files
  <2>4. \A b \in Clients : client'[b].at = "write" => client'[b] = client[b]
    BY <1>0, <2>1
  <2>. QED
    BY <2>1, <2>2, <2>3, <2>4, <1>a
<1>11. ASSUME NEW c \in Clients, DeleteForgets(c) PROVE Goal
  <2>1. client' = [client EXCEPT ![c] = NoRequest] /\ UNCHANGED <<dir, history, versions>>
    BY <1>11 DEF DeleteForgets
  <2>2. \A b \in Clients : client'[b].at = "write" => client'[b] = client[b]
    BY <1>0, <2>1, RequestFacts
  <2>. QED
    BY <2>1, <2>2, <1>b
<1>12. ASSUME UNCHANGED srcVars PROVE Goal
  BY <1>12, <1>b DEF srcVars
<1>13. ASSUME \E c \in Clients : PutWrites(c) \/ PutReads(c) \/ PutSwaps(c) \/ DeleteForgets(c) PROVE Goal
  BY <1>7, <1>8, <1>9, <1>11, <1>13
<1>14. ASSUME \E p \in Stems : EditorRemoves(p) \/ (\E q \in Stems : EditorMoves(p, q))
                      \/ (\E n \in Stems, ok \in BOOLEAN : EditorSaves(p, n, ok))
       PROVE Goal
  BY <1>1, <1>2, <1>3, <1>14
<1>15. ASSUME \E c \in Clients, n \in Stems : PutCopies(c, n) \/ DeleteMoves(c, n) PROVE Goal
  BY <1>6, <1>10, <1>15
<1>16. Goal
  BY <1>4, <1>5, <1>12, <1>13, <1>14, <1>15 DEF SourceNext, Catch
<1>. QED
  BY <1>16 DEF Goal

-----------------------------------------------------------------------------
(* The files and the registry.  While no file was renamed, no two files    *)
(* shared a name and no file changed inside a request's own reload or      *)
(* forget: what the watcher read is the file unless a later event on it    *)
(* waits (ReadLatest); a file with nothing under way is what the registry  *)
(* holds of it (Credited); a request reloads the file as it is (OwnReload);*)
(* and a name that changes hands does so in the order of the queue: a file *)
(* that is still credited with another's name, or was read with it, has    *)
(* its own event before the other's, unless it is broken (ReadOrder,       *)
(* HandOver).                                                              *)

Clean == oddities \cap {"moved", "twin", "stale"} = {}
Reading(p) == reload["watch"] # Rest /\ reload["watch"].path = p
Settling(p) == Pend(fsEvents, p) \/ Reading(p)
ReadLatest == \A p \in Stems : Reading(p) /\ ~Pend(fsEvents, p) => reload["watch"].seen = dir[p] /\ dir[p] # NoFile
Credited ==
  \A p \in Stems : ~Settling(p) =>
    /\ dir[p].ok => pathNames[p] = dir[p].name /\ registry[dir[p].name] = dir[p].ver
    /\ dir[p] = NoFile => pathNames[p] = NoName
    /\ dir[p] # NoFile /\ ~dir[p].ok => p \in broken
OwnReload ==
  \A c \in Clients :
    /\ client[c].at = "swap" => reload[c] = [path |-> client[c].path, seen |-> dir[client[c].path]]
    /\ client[c].at = "forget" => dir[client[c].path] = NoFile
ReadOrder ==
  \A p, q \in Stems : p # q /\ Reading(q) /\ dir[p] # NoFile /\ reload["watch"].seen # NoFile
                      /\ dir[p].name = reload["watch"].seen.name => Before(fsEvents, q, p)
HandOver ==
  \A p, q \in Stems : p # q /\ dir[p].ok /\ pathNames[q] = dir[p].name =>
    \/ Before(fsEvents, q, p)
    \/ Reading(q) /\ Pend(fsEvents, p)
    \/ q \in broken /\ Settling(p)
Following == ~Twins(dir) /\ LastSays(fsEvents, dir) /\ ReadLatest /\ Credited /\ OwnReload /\ ReadOrder /\ HandOver
Follow == Clean => Following

\* Both files of a pair in the queue have an event waiting.
LEMMA BeforePend == \A es, q, p : Before(es, q, p) => Pend(es, p) /\ Pend(es, q)
  BY DEF Before, Pend

\* A file is written or removed, by the operator or by a request, while no request is
\* reloading or forgetting it.
LEMMA FileChanges ==
  ASSUME SType, Following, NEW p \in Stems, NEW f \in Files, dir' = [dir EXCEPT ![p] = f],
         fsEvents' = Append(fsEvents, <<Says(dir', p), p>>), UNCHANGED <<registry, pathNames, broken, reload>>,
         ~Twins(dir'), ~Swapping(p),
         \A c \in Clients : client'[c].at = "swap" => client'[c] = client[c],
         \A c \in Clients : client'[c].at = "forget" => client'[c] = client[c] \/ (client'[c].path = p /\ f = NoFile)
  PROVE  Following'
<1>0. dir \in [Stems -> Files] /\ pathNames \in [Stems -> Stems \cup {NoName}] /\ fsEvents \in Seq(Event)
  BY DEF SType
<1>0a. /\ LastSays(fsEvents, dir) /\ ReadLatest /\ Credited /\ OwnReload /\ ReadOrder /\ HandOver
  BY DEF Following
<1>1. dir'[p] = f /\ \A r \in Stems \ {p} : dir'[r] = dir[r]
  BY <1>0
<1>2a. Says(dir', p) \in {"changed", "deleted", "moved"}
  BY DEF Says
<1>2b. <<Says(dir', p), p>> \in Event
  BY <1>2a DEF Event
<1>2. PICK e \in Event : e = <<Says(dir', p), p>>
  BY <1>2b
<1>2c. e[2] = p /\ e[1] = Says(dir', p) /\ fsEvents' = Append(fsEvents, e)
  BY <1>2
<1>3a. /\ \A r \in Stems : Pend(Append(fsEvents, e), r) <=> Pend(fsEvents, r) \/ r = e[2]
       /\ \A q, r \in Stems : Before(fsEvents, q, r) => Before(Append(fsEvents, e), q, r)
       /\ \A q \in Stems : Pend(fsEvents, q) => Before(Append(fsEvents, e), q, e[2])
  BY <1>0, PushPend
<1>3. /\ \A r \in Stems : Pend(fsEvents', r) <=> Pend(fsEvents, r) \/ r = p
      /\ \A q, r \in Stems : Before(fsEvents, q, r) => Before(fsEvents', q, r)
      /\ \A q \in Stems : Pend(fsEvents, q) => Before(fsEvents', q, p)
  BY <1>2c, <1>3a
<1>4. LastSays(fsEvents', dir')
  <2>0. \A r \in Stems \ {e[2]} : dir'[r] = dir[r]
    BY <1>1, <1>2c
  <2>1a. \A d2 : (\A r \in Stems \ {e[2]} : d2[r] = dir[r]) /\ e[1] = Says(d2, e[2]) => LastSays(Append(fsEvents, e), d2)
    BY <1>0, <1>0a, PushLast
  <2>1b. e[1] = Says(dir', e[2])
    BY <1>2c
  <2>1. LastSays(Append(fsEvents, e), dir')
    BY <2>0, <2>1a, <2>1b
  <2>. QED
    BY <1>2c, <2>1
<1>5. \A r : Reading(r)' <=> Reading(r)
  BY DEF Reading
<1>6. ReadLatest'
  BY <1>0a, <1>1, <1>3, <1>5 DEF ReadLatest
<1>7. Credited'
  <2>. SUFFICES ASSUME NEW r \in Stems, ~Settling(r)'
                PROVE  /\ dir'[r].ok => pathNames'[r] = dir'[r].name /\ registry'[dir'[r].name] = dir'[r].ver
                       /\ dir'[r] = NoFile => pathNames'[r] = NoName
                       /\ dir'[r] # NoFile /\ ~dir'[r].ok => r \in broken'
    BY DEF Credited
  <2>1. r # p /\ ~Settling(r)
    BY <1>3, <1>5 DEF Settling
  <2>2. dir'[r] = dir[r]
    BY <1>1, <2>1
  <2>. QED
    BY <1>0a, <2>1, <2>2 DEF Credited
<1>8. OwnReload'
  <2>1. ASSUME NEW c \in Clients, client'[c].at = "swap"
        PROVE  reload'[c] = [path |-> client'[c].path, seen |-> dir'[client'[c].path]]
    <3>1. client'[c] = client[c] /\ client[c].path \in Stems
      BY <2>1, ClientAt
    <3>2. client[c].path # p
      BY <2>1, <3>1 DEF Swapping
    <3>. QED
      BY <1>0a, <1>1, <2>1, <3>1, <3>2 DEF OwnReload
  <2>2. ASSUME NEW c \in Clients, client'[c].at = "forget" PROVE dir'[client'[c].path] = NoFile
    <3>1. CASE client'[c] = client[c]
      <4>0. client[c].at = "forget"
        BY <2>2, <3>1, Zenon
      <4>1. client[c].path \in Stems
        BY <4>0, ClientAt
      <4>2. client[c].path # p
        BY <4>0 DEF Swapping
      <4>3. dir[client[c].path] = NoFile
        BY <1>0a, <4>0 DEF OwnReload
      <4>4. dir'[client[c].path] = NoFile
        BY <1>1, <4>1, <4>2, <4>3
      <4>. QED
        BY <3>1, <4>4
    <3>2. CASE client'[c].path = p /\ f = NoFile
      BY <1>1, <3>2
    <3>. QED
      BY <2>2, <3>1, <3>2
  <2>. QED
    BY <2>1, <2>2 DEF OwnReload
\* the new name of p is held by another file only while that file's own change is pending
<1>9. ASSUME NEW q \in Stems, q # p, f # NoFile, ~Pend(fsEvents, q), dir[q] # NoFile, dir[q].name = f.name PROVE FALSE
  <2>1. dir'[q] = dir[q]
    BY <1>1, <1>9
  <2>. QED
    BY <1>1, <1>9, <2>1 DEF Twins
<1>10. ReadOrder'
  <2>. SUFFICES ASSUME NEW r \in Stems, NEW q \in Stems, r # q, Reading(q)', dir'[r] # NoFile,
                       reload'["watch"].seen # NoFile, dir'[r].name = reload'["watch"].seen.name
                PROVE  Before(fsEvents', q, r)
    BY DEF ReadOrder
  <2>1. CASE r # p
    <3>1. dir'[r] = dir[r]
      BY <1>1, <2>1
    <3>2. Before(fsEvents, q, r)
      BY <1>0a, <1>5, <3>1 DEF ReadOrder
    <3>. QED
      BY <1>3, <3>2
  <2>2. CASE r = p
    <3>1. Pend(fsEvents, q)
      <4>. SUFFICES ASSUME ~Pend(fsEvents, q) PROVE FALSE
        OBVIOUS
      <4>1. reload["watch"].seen = dir[q] /\ dir[q] # NoFile
        BY <1>0a, <1>5 DEF ReadLatest
      <4>. QED
        BY <1>1, <1>9, <2>2, <4>1
    <3>. QED
      BY <1>3, <2>2, <3>1
  <2>. QED
    BY <2>1, <2>2
<1>11. HandOver'
  <2>. SUFFICES ASSUME NEW r \in Stems, NEW q \in Stems, r # q, dir'[r].ok, pathNames'[q] = dir'[r].name
                PROVE  \/ Before(fsEvents', q, r)
                       \/ Reading(q)' /\ Pend(fsEvents', r)
                       \/ q \in broken' /\ Settling(r)'
    BY DEF HandOver
  <2>1. CASE r # p
    <3>1. dir'[r] = dir[r]
      BY <1>1, <2>1
    <3>2. \/ Before(fsEvents, q, r)
          \/ Reading(q) /\ Pend(fsEvents, r)
          \/ q \in broken /\ Settling(r)
      BY <1>0a, <3>1 DEF HandOver
    <3>. QED
      BY <1>3, <1>5, <3>2 DEF Settling
  <2>2. CASE r = p
    <3>1. Pend(fsEvents', r)
      BY <1>3, <2>2
    <3>2. CASE Pend(fsEvents, q)
      BY <1>3, <2>2, <3>2
    <3>3. CASE Reading(q) \/ q \in broken
      BY <1>5, <3>1, <3>3 DEF Settling
    <3>4. CASE ~Pend(fsEvents, q) /\ ~Reading(q) /\ q \notin broken
      <4>1. ~Settling(q)
        BY <3>4 DEF Settling
      <4>2. f \in Files /\ f.ok /\ f # NoFile /\ f.name \in Stems /\ pathNames[q] = f.name
        BY <1>1, <2>2, FileFacts
      <4>3. pathNames[q] # NoName
        BY <4>2, SourceAssumption
      <4>4. dir[q] # NoFile /\ pathNames[q] = dir[q].name
        BY <1>0a, <3>4, <4>1, <4>3 DEF Credited
      <4>. QED
        BY <1>9, <2>2, <3>4, <4>2, <4>4
    <3>. QED
      BY <3>2, <3>3, <3>4
  <2>. QED
    BY <2>1, <2>2
<1>. QED
  BY <1>4, <1>6, <1>7, <1>8, <1>10, <1>11 DEF Following

\* The watcher takes an event: a deletion is forgotten at once, the rest is read first.
LEMMA WatchTakesFollows ==
  ASSUME SType, Following, WatchTakes
  PROVE  Following'
<1>0. dir \in [Stems -> Files] /\ pathNames \in [Stems -> Stems \cup {NoName}] /\ fsEvents \in Seq(Event)
      /\ registry \in [Stems -> Nat] /\ broken \subseteq Stems /\ "watch" \in Threads /\ DOMAIN reload = Threads
  BY DEF SType, Threads
<1>0a. ~Twins(dir) /\ LastSays(fsEvents, dir) /\ ReadLatest /\ Credited /\ OwnReload /\ ReadOrder /\ HandOver
  BY DEF Following
<1>1. fsEvents # <<>> /\ reload["watch"] = Rest /\ fsEvents' = Tail(fsEvents) /\ UNCHANGED <<dir, client>>
  BY DEF WatchTakes
<1>2. PICK h \in Stems : h = Head(fsEvents)[2]
  BY <1>1, HeadType
<1>3. /\ \A r \in Stems : Pend(fsEvents', r) => Pend(fsEvents, r)
      /\ \A r \in Stems : Pend(fsEvents, r) => r = h \/ Pend(fsEvents', r)
      /\ \A q, r \in Stems : Before(fsEvents, q, r) => q = h \/ Before(fsEvents', q, r)
      /\ \A q, r \in Stems : Before(fsEvents, q, r) => Pend(fsEvents', r)
  <2>1. /\ \A r \in Stems : Pend(Tail(fsEvents), r) => Pend(fsEvents, r)
        /\ \A r \in Stems : Pend(fsEvents, r) => r = Head(fsEvents)[2] \/ Pend(Tail(fsEvents), r)
        /\ \A q, r \in Stems : Before(fsEvents, q, r) => q = Head(fsEvents)[2] \/ Before(Tail(fsEvents), q, r)
        /\ \A q, r \in Stems : Before(fsEvents, q, r) => Pend(Tail(fsEvents), r)
    BY <1>0, <1>1, PopPend
  <2>. QED
    BY <1>1, <1>2, <2>1
<1>4. LastSays(fsEvents', dir') /\ (~Pend(fsEvents', h) => Head(fsEvents)[1] = Says(dir, h))
  <2>1. LastSays(Tail(fsEvents), dir) /\ (~Pend(Tail(fsEvents), Head(fsEvents)[2]) => Head(fsEvents)[1] = Says(dir, Head(fsEvents)[2]))
    BY <1>0, <1>0a, <1>1, PopLast
  <2>. QED
    BY <1>1, <1>2, <2>1
<1>5. \A r : ~Reading(r)
  BY <1>1 DEF Reading
<1>6. ~Twins(dir')
  BY <1>0a, <1>1
\* a file with nothing under way is named by no other file
<1>7. ASSUME NEW r \in Stems, NEW q \in Stems, r # q, dir[r].ok, pathNames[q] = dir[r].name
      PROVE  Pend(fsEvents, r) /\ (Before(fsEvents, q, r) \/ q \in broken)
  <2>1. Before(fsEvents, q, r) \/ (q \in broken /\ Pend(fsEvents, r))
    BY <1>0a, <1>5, <1>7 DEF HandOver, Settling
  <2>. QED
    BY <2>1, BeforePend
<1>8. CASE Head(fsEvents)[1] = "deleted"
  <2>1. Forget(h) /\ UNCHANGED reload
    BY <1>2, <1>8 DEF WatchTakes
  <2>2. /\ pathNames'[h] = NoName /\ \A q \in Stems \ {h} : pathNames'[q] = pathNames[q]
        /\ broken' = broken \ {h} /\ \A n \in Stems : n # pathNames[h] => registry'[n] = registry[n]
    BY <1>0, <2>1 DEF Forget
  <2>3. \A r : ~Reading(r)'
    BY <1>1, <2>1 DEF Reading
  <2>4. ~Pend(fsEvents', h) => dir[h] = NoFile
    BY <1>4, <1>8 DEF Says
  <2>5. ReadLatest' /\ ReadOrder'
    BY <2>3 DEF ReadLatest, ReadOrder
  <2>6. OwnReload'
    BY <1>0a, <1>1, <2>1 DEF OwnReload
  <2>7. Credited'
    <3>. SUFFICES ASSUME NEW r \in Stems, ~Pend(fsEvents', r)
                  PROVE  /\ dir[r].ok => pathNames'[r] = dir[r].name /\ registry'[dir[r].name] = dir[r].ver
                         /\ dir[r] = NoFile => pathNames'[r] = NoName
                         /\ dir[r] # NoFile /\ ~dir[r].ok => r \in broken'
      BY <1>1 DEF Credited, Settling
    <3>1. CASE r = h
      BY <2>2, <2>4, <3>1, FileFacts
    <3>2. CASE r # h
      <4>1. ~Pend(fsEvents, r) /\ ~Settling(r)
        BY <1>3, <1>5, <3>2 DEF Settling
      <4>2. pathNames'[r] = pathNames[r] /\ (r \in broken' <=> r \in broken)
        BY <2>2, <3>2
      <4>3. dir[r].ok => pathNames[h] # dir[r].name /\ dir[r].name \in Stems
        BY <1>0, <1>7, <3>2, <4>1, FileFacts
      <4>4. dir[r].ok => registry'[dir[r].name] = registry[dir[r].name]
        BY <2>2, <4>3
      <4>. QED
        BY <1>0a, <4>1, <4>2, <4>4 DEF Credited
    <3>. QED
      BY <3>1, <3>2
  <2>8. HandOver'
    <3>. SUFFICES ASSUME NEW r \in Stems, NEW q \in Stems, r # q, dir[r].ok, pathNames'[q] = dir[r].name
                  PROVE  Before(fsEvents', q, r) \/ (q \in broken' /\ Pend(fsEvents', r))
      BY <1>1 DEF HandOver, Settling
    <3>1. dir[r].name \in Stems /\ dir[r] # NoFile
      BY <1>0, FileFacts
    <3>2. q # h
      BY <2>2, <3>1, SourceAssumption
    <3>3. pathNames[q] = dir[r].name /\ (q \in broken' <=> q \in broken)
      BY <2>2, <3>2
    <3>4. Pend(fsEvents, r) /\ (Before(fsEvents, q, r) \/ q \in broken)
      BY <1>7, <3>3
    <3>5. Pend(fsEvents', r)
      BY <1>3, <2>4, <3>1, <3>4
    <3>. QED
      BY <1>3, <3>2, <3>3, <3>4, <3>5
  <2>. QED
    BY <1>4, <1>6, <2>5, <2>6, <2>7, <2>8 DEF Following
<1>9. CASE Head(fsEvents)[1] # "deleted"
  <2>1. ReadFile("watch", h) /\ UNCHANGED <<registry, pathNames, broken>>
    BY <1>2, <1>9 DEF WatchTakes
  <2>2. reload'["watch"] = [path |-> h, seen |-> dir[h]] /\ \A t \in Threads : t # "watch" => reload'[t] = reload[t]
    BY <1>0, <2>1 DEF ReadFile
  <2>3. reload'["watch"] # Rest /\ reload'["watch"].path = h /\ reload'["watch"].seen = dir[h]
    BY <1>0, <2>2, RestFacts
  <2>4. \A r : Reading(r)' <=> r = h
    BY <2>3 DEF Reading
  <2>5. ~Pend(fsEvents', h) => dir[h] # NoFile
    BY <1>4, <1>9 DEF Says
  <2>6. ReadLatest'
    BY <1>1, <2>3, <2>4, <2>5 DEF ReadLatest
  <2>7. OwnReload'
    <3>1. \A c \in Clients : reload'[c] = reload[c]
      BY <2>2, SourceAssumption DEF Threads
    <3>. QED
      BY <1>0a, <1>1, <3>1 DEF OwnReload
  <2>8. Credited'
    <3>. SUFFICES ASSUME NEW r \in Stems, ~Settling(r)'
                  PROVE  /\ dir[r].ok => pathNames[r] = dir[r].name /\ registry[dir[r].name] = dir[r].ver
                         /\ dir[r] = NoFile => pathNames[r] = NoName
                         /\ dir[r] # NoFile /\ ~dir[r].ok => r \in broken
      BY <1>1, <2>1 DEF Credited
    <3>1. ~Settling(r)
      BY <1>3, <1>5, <2>4 DEF Settling
    <3>. QED
      BY <1>0a, <3>1 DEF Credited
  <2>9. ReadOrder'
    <3>. SUFFICES ASSUME NEW r \in Stems, r # h, dir[r] # NoFile, dir[h] # NoFile, dir[r].name = dir[h].name
                  PROVE  FALSE
      BY <1>1, <2>3, <2>4 DEF ReadOrder
    <3>. QED
      BY <1>0a DEF Twins
  <2>10. HandOver'
    <3>. SUFFICES ASSUME NEW r \in Stems, NEW q \in Stems, r # q, dir[r].ok, pathNames[q] = dir[r].name
                  PROVE  \/ Before(fsEvents', q, r)
                         \/ Reading(q)' /\ Pend(fsEvents', r)
                         \/ q \in broken /\ Settling(r)'
      BY <1>1, <2>1 DEF HandOver
    <3>1. Pend(fsEvents, r) /\ (Before(fsEvents, q, r) \/ q \in broken)
      BY <1>7
    <3>2. Settling(r)'
      BY <1>3, <2>4, <3>1 DEF Settling
    <3>. QED
      BY <1>3, <2>4, <3>1, <3>2
  <2>. QED
    BY <1>4, <1>6, <2>6, <2>7, <2>8, <2>9, <2>10 DEF Following
<1>. QED
  BY <1>8, <1>9

\* A reload that replaces a definition changes the credit of its own file, and in the
\* registry only the name it declares and the one it held before.
LEMMA SwappedFacts ==
  ASSUME SType, NEW h \in Stems, NEW s \in Files, Swapped(h, s), s.ok
  PROVE  /\ pathNames'[h] = s.name /\ \A q \in Stems \ {h} : pathNames'[q] = pathNames[q]
         /\ broken' = broken \ {h} /\ registry'[s.name] = s.ver /\ s.name \in Stems
         /\ \A n \in Stems : n # pathNames[h] /\ n # s.name => registry'[n] = registry[n]
<1>1. s.name \in Stems
  BY FileFacts
<1>2. pathNames \in [Stems -> Stems \cup {NoName}]
  BY DEF SType
<1>. QED
  BY <1>1, <1>2 DEF Swapped

\* The watcher replaces the definition: what it read is the file as it is, or another event
\* on the file waits, and in front of the event of any file that took the name.
LEMMA WatchSwapsFollows ==
  ASSUME SType, Following, WatchSwaps, ~CreditedTwice(broken)'
  PROVE  Following'
<1>0. dir \in [Stems -> Files] /\ pathNames \in [Stems -> Stems \cup {NoName}]
      /\ broken \subseteq Stems /\ "watch" \in Threads /\ DOMAIN reload = Threads
      /\ reload \in [Threads -> {Rest} \cup ReadResults]
  BY DEF SType, Threads
<1>0a. ~Twins(dir) /\ LastSays(fsEvents, dir) /\ ReadLatest /\ Credited /\ OwnReload /\ ReadOrder /\ HandOver
  BY DEF Following
<1>1. /\ reload["watch"] # Rest /\ Swap("watch") /\ reload' = [reload EXCEPT !["watch"] = Rest]
      /\ UNCHANGED <<dir, fsEvents, client>>
  BY DEF WatchSwaps
<1>2. reload["watch"] \in ReadResults
  BY <1>0, <1>1
<1>3. PICK h \in Stems, s \in Files : reload["watch"] = [path |-> h, seen |-> s] /\ Swapped(h, s)
  BY <1>0, <1>1, <1>2, SwapFacts
<1>4. reload["watch"].path = h /\ reload["watch"].seen = s
  BY <1>3
<1>5. \A r : Reading(r) <=> r = h
  BY <1>1, <1>4 DEF Reading
<1>6. reload'["watch"] = Rest /\ \A t \in Threads : t # "watch" => reload'[t] = reload[t]
  BY <1>0, <1>1
<1>7. \A r : ~Reading(r)'
  BY <1>6 DEF Reading
<1>8. \A r : Settling(r)' <=> Pend(fsEvents, r)
  BY <1>1, <1>7 DEF Settling
<1>9. ~Twins(dir') /\ LastSays(fsEvents', dir') /\ ReadLatest' /\ ReadOrder'
  BY <1>0a, <1>1, <1>7 DEF ReadLatest, ReadOrder
<1>10. OwnReload'
  <2>1. \A c \in Clients : reload'[c] = reload[c]
    BY <1>6, SourceAssumption DEF Threads
  <2>. QED
    BY <1>0a, <1>1, <2>1 DEF OwnReload
<1>11. ~Pend(fsEvents, h) => s = dir[h] /\ dir[h] # NoFile
  BY <1>0a, <1>4, <1>5 DEF ReadLatest
<1>12. \A r \in Stems \ {h} : ~Pend(fsEvents, r) => ~Settling(r)
  BY <1>5 DEF Settling
<1>13. CASE ~s.ok
  <2>1. broken' = broken \cup {h} /\ UNCHANGED <<registry, pathNames>>
    BY <1>3, <1>13 DEF Swapped
  <2>2. Credited'
    <3>. SUFFICES ASSUME NEW r \in Stems, ~Pend(fsEvents, r)
                  PROVE  /\ dir[r].ok => pathNames[r] = dir[r].name /\ registry[dir[r].name] = dir[r].ver
                         /\ dir[r] = NoFile => pathNames[r] = NoName
                         /\ dir[r] # NoFile /\ ~dir[r].ok => r \in broken'
      BY <1>1, <1>8, <2>1 DEF Credited
    <3>1. CASE r = h
      BY <1>11, <1>13, <2>1, <3>1
    <3>2. CASE r # h
      BY <1>0a, <1>12, <2>1, <3>2 DEF Credited
    <3>. QED
      BY <3>1, <3>2
  <2>3. HandOver'
    <3>. SUFFICES ASSUME NEW r \in Stems, NEW q \in Stems, r # q, dir[r].ok, pathNames[q] = dir[r].name
                  PROVE  Before(fsEvents, q, r) \/ (q \in broken' /\ Pend(fsEvents, r))
      BY <1>1, <1>8, <2>1 DEF HandOver
    <3>1. \/ Before(fsEvents, q, r)
          \/ Reading(q) /\ Pend(fsEvents, r)
          \/ q \in broken /\ Settling(r)
      BY <1>0a DEF HandOver
    <3>2. CASE Reading(q) /\ Pend(fsEvents, r)
      BY <1>5, <2>1, <3>2
    <3>3. CASE q \in broken /\ Settling(r)
      <4>1. r = h => Pend(fsEvents, r)
        BY <1>11, <1>13
      <4>. QED
        BY <1>12, <2>1, <3>3, <4>1
    <3>. QED
      BY <3>1, <3>2, <3>3
  <2>. QED
    BY <1>9, <1>10, <2>2, <2>3 DEF Following
<1>14. CASE s.ok
  <2>1. /\ pathNames'[h] = s.name /\ \A q \in Stems \ {h} : pathNames'[q] = pathNames[q]
        /\ broken' = broken \ {h} /\ registry'[s.name] = s.ver /\ s.name \in Stems
        /\ \A n \in Stems : n # pathNames[h] /\ n # s.name => registry'[n] = registry[n]
    BY <1>3, <1>14, SwappedFacts
  <2>1a. s # NoFile
    BY <1>14, FileFacts
  <2>2. Credited'
    <3>. SUFFICES ASSUME NEW r \in Stems, ~Pend(fsEvents, r)
                  PROVE  /\ dir[r].ok => pathNames'[r] = dir[r].name /\ registry'[dir[r].name] = dir[r].ver
                         /\ dir[r] = NoFile => pathNames'[r] = NoName
                         /\ dir[r] # NoFile /\ ~dir[r].ok => r \in broken'
      BY <1>1, <1>8 DEF Credited
    <3>1. CASE r = h
      BY <1>11, <1>14, <2>1, <3>1
    <3>2. CASE r # h
      <4>1. ~Settling(r) /\ pathNames'[r] = pathNames[r] /\ (r \in broken' <=> r \in broken)
        BY <1>12, <2>1, <3>2
      <4>2. ASSUME dir[r].ok PROVE registry'[dir[r].name] = registry[dir[r].name]
        <5>1. dir[r].name \in Stems /\ dir[r] # NoFile
          BY <1>0, <4>2, FileFacts
        <5>2. dir[r].name # s.name
          BY <1>0a, <1>4, <1>5, <2>1a, <3>2, <5>1, BeforePend DEF ReadOrder
        <5>3. dir[r].name # pathNames[h]
          BY <1>0a, <3>2, <4>1, <4>2, BeforePend DEF HandOver, Settling
        <5>. QED
          BY <2>1, <5>1, <5>2, <5>3
      <4>. QED
        BY <1>0a, <4>1, <4>2 DEF Credited
    <3>. QED
      BY <3>1, <3>2
  <2>3. HandOver'
    <3>. SUFFICES ASSUME NEW r \in Stems, NEW q \in Stems, r # q, dir[r].ok, pathNames'[q] = dir[r].name
                  PROVE  Before(fsEvents, q, r) \/ (q \in broken' /\ Pend(fsEvents, r))
      BY <1>1, <1>8 DEF HandOver
    <3>0. dir[r].name \in Stems /\ dir[r] # NoFile
      BY <1>0, FileFacts
    <3>1. CASE q = h
      BY <1>0a, <1>4, <1>5, <2>1, <2>1a, <3>0, <3>1 DEF ReadOrder
    <3>2. CASE q # h
      <4>1. pathNames'[q] = pathNames[q] /\ (q \in broken' <=> q \in broken)
        BY <2>1, <3>2
      <4>2. \/ Before(fsEvents, q, r)
            \/ Reading(q) /\ Pend(fsEvents, r)
            \/ q \in broken /\ Settling(r)
        BY <1>0a, <4>1 DEF HandOver
      <4>3. CASE q \in broken /\ Settling(r)
        <5>1. CASE Pend(fsEvents, r)
          BY <4>1, <4>3, <5>1
        <5>2. CASE ~Pend(fsEvents, r)
          <6>1. r = h /\ s = dir[h]
            BY <1>11, <1>12, <4>3, <5>2
          <6>2. q \in broken' /\ q # h /\ pathNames'[q] # NoName /\ pathNames'[h] = pathNames'[q]
            BY <2>1, <3>0, <3>2, <4>1, <4>3, <6>1, SourceAssumption
          <6>3. CreditedTwice(broken)'
            BY <6>2 DEF CreditedTwice
          <6>. QED
            BY <6>3
        <5>. QED
          BY <5>1, <5>2
      <4>. QED
        BY <1>5, <3>2, <4>2, <4>3
    <3>. QED
      BY <3>1, <3>2
  <2>. QED
    BY <1>9, <1>10, <2>2, <2>3 DEF Following
<1>. QED
  BY <1>13, <1>14

\* A PUT's own reload saw the file as it is; for every other file with nothing under way
\* the registry stays.
LEMMA PutSwapsFollows ==
  ASSUME SType, Following, NEW c \in Clients, PutSwaps(c)
  PROVE  Following'
<1>0. dir \in [Stems -> Files] /\ pathNames \in [Stems -> Stems \cup {NoName}]
      /\ broken \subseteq Stems /\ c \in Threads /\ c # "watch" /\ "watch" \in Threads
      /\ reload \in [Threads -> {Rest} \cup ReadResults] /\ client \in [Clients -> {NoRequest} \cup Requests]
  BY SourceAssumption DEF SType, Threads
<1>0a. ~Twins(dir) /\ LastSays(fsEvents, dir) /\ ReadLatest /\ Credited /\ OwnReload /\ ReadOrder /\ HandOver
  BY DEF Following
<1>1. /\ client[c].at = "swap" /\ Swap(c) /\ reload' = [reload EXCEPT ![c] = Rest]
      /\ client' = [client EXCEPT ![c] = NoRequest] /\ UNCHANGED <<dir, fsEvents>>
  BY DEF PutSwaps
<1>2. reload[c] \in ReadResults
  BY <1>1 DEF SType
<1>3. PICK h \in Stems, s \in Files : reload[c] = [path |-> h, seen |-> s] /\ Swapped(h, s)
  BY <1>0, <1>1, <1>2, SwapFacts
<1>4. s = dir[h]
  <2>0. reload[c] = [path |-> client[c].path, seen |-> dir[client[c].path]]
    BY <1>0a, <1>1, Zenon DEF OwnReload
  <2>1. reload[c].path = client[c].path /\ reload[c].seen = dir[client[c].path]
    BY <2>0
  <2>2. reload[c].path = h /\ reload[c].seen = s
    BY <1>3
  <2>. QED
    BY <2>1, <2>2
<1>5. reload'["watch"] = reload["watch"] /\ \A b \in Clients : b # c => reload'[b] = reload[b]
  BY <1>0, <1>1 DEF Threads
<1>6. \A r : (Reading(r)' <=> Reading(r)) /\ (Settling(r)' <=> Settling(r))
  BY <1>1, <1>5 DEF Reading, Settling
<1>7. ~Twins(dir') /\ LastSays(fsEvents', dir') /\ ReadLatest' /\ ReadOrder'
  BY <1>0a, <1>1, <1>5, <1>6 DEF ReadLatest, ReadOrder
<1>8. OwnReload'
  <2>1. client'[c].at = "idle" /\ \A b \in Clients : b # c => client'[b] = client[b]
    BY <1>0, <1>1, RequestFacts
  <2>. QED
    BY <1>0a, <1>1, <1>5, <2>1 DEF OwnReload
<1>9. CASE ~s.ok
  <2>1. broken' = broken \cup {h} /\ UNCHANGED <<registry, pathNames>>
    BY <1>3, <1>9 DEF Swapped
  <2>2. Credited'
    BY <1>0a, <1>1, <1>6, <2>1 DEF Credited
  <2>3. HandOver'
    BY <1>0a, <1>1, <1>6, <2>1 DEF HandOver
  <2>. QED
    BY <1>7, <1>8, <2>2, <2>3 DEF Following
<1>10. CASE s.ok
  <2>1. /\ pathNames'[h] = s.name /\ \A q \in Stems \ {h} : pathNames'[q] = pathNames[q]
        /\ broken' = broken \ {h} /\ registry'[s.name] = s.ver /\ s.name \in Stems
        /\ \A n \in Stems : n # pathNames[h] /\ n # s.name => registry'[n] = registry[n]
    BY <1>3, <1>10, SwappedFacts
  <2>1a. s # NoFile
    BY <1>10, FileFacts
  <2>2. Credited'
    <3>. SUFFICES ASSUME NEW r \in Stems, ~Settling(r)
                  PROVE  /\ dir[r].ok => pathNames'[r] = dir[r].name /\ registry'[dir[r].name] = dir[r].ver
                         /\ dir[r] = NoFile => pathNames'[r] = NoName
                         /\ dir[r] # NoFile /\ ~dir[r].ok => r \in broken'
      BY <1>1, <1>6 DEF Credited
    <3>1. CASE r = h
      BY <1>4, <1>10, <2>1, <2>1a, <3>1
    <3>2. CASE r # h
      <4>1. pathNames'[r] = pathNames[r] /\ (r \in broken' <=> r \in broken)
        BY <2>1, <3>2
      <4>2. ASSUME dir[r].ok PROVE registry'[dir[r].name] = registry[dir[r].name]
        <5>1. dir[r].name \in Stems /\ dir[r] # NoFile
          BY <1>0, <4>2, FileFacts
        <5>2. dir[r].name # s.name
          BY <1>0a, <1>4, <2>1a, <3>2, <5>1 DEF Twins
        <5>3. dir[r].name # pathNames[h]
          BY <1>0a, <3>2, <4>2, BeforePend DEF HandOver, Settling
        <5>. QED
          BY <2>1, <5>1, <5>2, <5>3
      <4>. QED
        BY <1>0a, <4>1, <4>2 DEF Credited
    <3>. QED
      BY <3>1, <3>2
  <2>3. HandOver'
    <3>. SUFFICES ASSUME NEW r \in Stems, NEW q \in Stems, r # q, dir[r].ok, pathNames'[q] = dir[r].name
                  PROVE  \/ Before(fsEvents, q, r)
                         \/ Reading(q) /\ Pend(fsEvents, r)
                         \/ q \in broken' /\ Settling(r)
      BY <1>1, <1>6 DEF HandOver
    <3>0. dir[r] # NoFile
      BY <1>0, FileFacts
    <3>1. q # h
      BY <1>0a, <1>4, <2>1, <2>1a, <3>0 DEF Twins
    <3>2. pathNames'[q] = pathNames[q] /\ (q \in broken' <=> q \in broken)
      BY <2>1, <3>1
    <3>. QED
      BY <1>0a, <3>2 DEF HandOver
  <2>. QED
    BY <1>7, <1>8, <2>2, <2>3 DEF Following
<1>. QED
  BY <1>9, <1>10

\* A DELETE forgets the file it moved away, which is still missing.
LEMMA DeleteForgetsFollows ==
  ASSUME SType, Following, NEW c \in Clients, DeleteForgets(c)
  PROVE  Following'
<1>0. dir \in [Stems -> Files] /\ pathNames \in [Stems -> Stems \cup {NoName}]
      /\ broken \subseteq Stems /\ client \in [Clients -> {NoRequest} \cup Requests]
  BY DEF SType
<1>0a. ~Twins(dir) /\ LastSays(fsEvents, dir) /\ ReadLatest /\ Credited /\ OwnReload /\ ReadOrder /\ HandOver
  BY DEF Following
<1>1. /\ client[c].at = "forget" /\ Forget(client[c].path) /\ client' = [client EXCEPT ![c] = NoRequest]
      /\ UNCHANGED <<dir, fsEvents, reload>>
  BY DEF DeleteForgets
<1>2. PICK h \in Stems : h = client[c].path
  BY <1>1, ClientAt
<1>3. dir[h] = NoFile
  BY <1>0a, <1>1, <1>2 DEF OwnReload
<1>4. /\ pathNames'[h] = NoName /\ \A q \in Stems \ {h} : pathNames'[q] = pathNames[q]
      /\ broken' = broken \ {h} /\ \A n \in Stems : n # pathNames[h] => registry'[n] = registry[n]
  BY <1>0, <1>1, <1>2 DEF Forget
<1>6. \A r : (Reading(r)' <=> Reading(r)) /\ (Settling(r)' <=> Settling(r))
  BY <1>1 DEF Reading, Settling
<1>7. ~Twins(dir') /\ LastSays(fsEvents', dir') /\ ReadLatest' /\ ReadOrder'
  BY <1>0a, <1>1, <1>6 DEF ReadLatest, ReadOrder
<1>8. OwnReload'
  <2>1. client'[c].at = "idle" /\ \A b \in Clients : b # c => client'[b] = client[b]
    BY <1>0, <1>1, RequestFacts
  <2>. QED
    BY <1>0a, <1>1, <2>1 DEF OwnReload
<1>9. Credited'
  <2>. SUFFICES ASSUME NEW r \in Stems, ~Settling(r)
                PROVE  /\ dir[r].ok => pathNames'[r] = dir[r].name /\ registry'[dir[r].name] = dir[r].ver
                       /\ dir[r] = NoFile => pathNames'[r] = NoName
                       /\ dir[r] # NoFile /\ ~dir[r].ok => r \in broken'
    BY <1>1, <1>6 DEF Credited
  <2>1. CASE r = h
    BY <1>3, <1>4, <2>1, FileFacts
  <2>2. CASE r # h
    <3>1. pathNames'[r] = pathNames[r] /\ (r \in broken' <=> r \in broken)
      BY <1>4, <2>2
    <3>2. ASSUME dir[r].ok PROVE registry'[dir[r].name] = registry[dir[r].name]
      <4>1. dir[r].name \in Stems
        BY <1>0, <3>2, FileFacts
      <4>2. dir[r].name # pathNames[h]
        BY <1>0a, <2>2, <3>2, BeforePend DEF HandOver, Settling
      <4>. QED
        BY <1>4, <4>1, <4>2
    <3>. QED
      BY <1>0a, <3>1, <3>2 DEF Credited
  <2>. QED
    BY <2>1, <2>2
<1>10. HandOver'
  <2>. SUFFICES ASSUME NEW r \in Stems, NEW q \in Stems, r # q, dir[r].ok, pathNames'[q] = dir[r].name
                PROVE  \/ Before(fsEvents, q, r)
                       \/ Reading(q) /\ Pend(fsEvents, r)
                       \/ q \in broken' /\ Settling(r)
    BY <1>1, <1>6 DEF HandOver
  <2>0. dir[r].name \in Stems
    BY <1>0, FileFacts
  <2>1. q # h
    BY <1>4, <2>0, SourceAssumption
  <2>2. pathNames'[q] = pathNames[q] /\ (q \in broken' <=> q \in broken)
    BY <1>4, <2>1
  <2>. QED
    BY <1>0a, <2>2 DEF HandOver
<1>. QED
  BY <1>7, <1>8, <1>9, <1>10 DEF Following

\* A request that only copies or reads leaves files, events and registry alone.
LEMMA RequestFollows ==
  ASSUME SType, Following, NEW c \in Clients,
         \/ \E n \in Stems : PutCopies(c, n)
         \/ PutReads(c)
  PROVE  Following'
<1>0. client \in [Clients -> {NoRequest} \cup Requests] /\ reload \in [Threads -> {Rest} \cup ReadResults]
      /\ c \in Threads /\ "watch" \in Threads /\ c # "watch"
  BY SourceAssumption DEF SType, Threads
<1>0a. ~Twins(dir) /\ LastSays(fsEvents, dir) /\ ReadLatest /\ Credited /\ OwnReload /\ ReadOrder /\ HandOver
  BY DEF Following
<1>1. UNCHANGED <<dir, registry, pathNames, broken, fsEvents>> /\ \A t \in Threads : t # c => reload'[t] = reload[t]
  BY <1>0 DEF PutCopies, PutReads, ReadFile
<1>2. \A b \in Clients : b # c => client'[b] = client[b] /\ reload'[b] = reload[b]
  BY <1>0, <1>1 DEF PutCopies, PutReads, Threads
<1>3. \A r : (Reading(r)' <=> Reading(r)) /\ (Settling(r)' <=> Settling(r))
  BY <1>0, <1>1 DEF Reading, Settling
<1>4. ~Twins(dir') /\ LastSays(fsEvents', dir') /\ ReadLatest' /\ ReadOrder' /\ Credited' /\ HandOver'
  <2>1. reload'["watch"] = reload["watch"]
    BY <1>0, <1>1
  <2>2. ReadLatest' /\ ReadOrder'
    BY <1>0a, <1>1, <1>3, <2>1 DEF ReadLatest, ReadOrder
  <2>3. Credited'
    BY <1>0a, <1>1, <1>3 DEF Credited
  <2>4. HandOver'
    BY <1>0a, <1>1, <1>3 DEF HandOver
  <2>. QED
    BY <1>0a, <1>1, <2>2, <2>3, <2>4
<1>5. /\ client'[c].at = "swap" => reload'[c] = [path |-> client'[c].path, seen |-> dir[client'[c].path]]
      /\ client'[c].at # "forget"
  <2>1. ASSUME NEW n \in Stems, PutCopies(c, n) PROVE client'[c].at = "write"
    BY <1>0, <2>1 DEF PutCopies
  <2>2. CASE PutReads(c)
    <3>1. /\ client[c].at = "read" /\ client' = [client EXCEPT ![c].at = "swap"]
          /\ reload' = [reload EXCEPT ![c] = [path |-> client[c].path, seen |-> dir[client[c].path]]]
      BY <2>2 DEF PutReads, ReadFile
    <3>2. client[c] \in Requests
      BY <3>1, ClientAt
    <3>3. client'[c] = [client[c] EXCEPT !.at = "swap"]
      BY <1>0, <3>1
    <3>4. client'[c].at = "swap" /\ client'[c].path = client[c].path
      BY <3>2, <3>3 DEF Requests
    <3>5. reload'[c] = [path |-> client[c].path, seen |-> dir[client[c].path]]
      BY <1>0, <3>1
    <3>. QED
      BY <3>4, <3>5
  <2>. QED
    BY <2>1, <2>2
<1>6. OwnReload'
  BY <1>0a, <1>1, <1>2, <1>5 DEF OwnReload
<1>. QED
  BY <1>4, <1>6 DEF Following

\* The files and the registry stay in step, one case per action.
LEMMA FollowStep == SType /\ Follow /\ [SourceNext]_srcVars => Follow'
<1>. SUFFICES ASSUME SType, Follow, [SourceNext]_srcVars, Clean' PROVE Following'
  BY DEF Follow
<1>0. Clean
  BY RegistrySteps DEF Clean
<1>0a. Following
  BY <1>0 DEF Follow
<1>0b. /\ dir \in [Stems -> Files] /\ versions \in Nat /\ client \in [Clients -> {NoRequest} \cup Requests]
       /\ NoFile \in Files
  BY DEF SType, Files
<1>0c. "moved" \notin oddities' /\ "twin" \notin oddities' /\ "stale" \notin oddities'
  BY DEF Clean
<1>1. ASSUME NEW p \in Stems, NEW n \in Stems, NEW ok \in BOOLEAN, EditorSaves(p, n, ok) PROVE Following'
  <2>1. PICK f \in Files : f = [name |-> n, ver |-> versions + 1, ok |-> ok] /\ f # NoFile
    BY <1>0b, FileFacts
  <2>2. /\ dir' = [dir EXCEPT ![p] = f] /\ fsEvents' = Append(fsEvents, <<"changed", p>>)
        /\ UNCHANGED <<registry, pathNames, broken, reload, client>> /\ oddities' = Noted(dir', p)
    BY <1>1, <2>1 DEF EditorSaves
  <2>3. ~Twins(dir') /\ ~Swapping(p)
    BY <1>0c, <2>2 DEF Noted
  <2>4. Says(dir', p) = "changed"
    BY <1>0b, <2>1, <2>2 DEF Says
  <2>. QED
    BY <1>0a, <2>2, <2>3, <2>4, FileChanges
<1>2. ASSUME NEW p \in Stems, EditorRemoves(p) PROVE Following'
  <2>2. /\ dir' = [dir EXCEPT ![p] = NoFile] /\ fsEvents' = Append(fsEvents, <<"deleted", p>>)
        /\ UNCHANGED <<registry, pathNames, broken, reload, client>> /\ oddities' = Noted(dir', p)
    BY <1>2 DEF EditorRemoves
  <2>3. ~Twins(dir') /\ ~Swapping(p)
    BY <1>0c, <2>2 DEF Noted
  <2>4. Says(dir', p) = "deleted"
    BY <1>0b, <2>2 DEF Says
  <2>. QED
    BY <1>0a, <1>0b, <2>2, <2>3, <2>4, FileChanges
<1>3. ASSUME NEW p \in Stems, NEW q \in Stems, EditorMoves(p, q) PROVE FALSE
  BY <1>0c, <1>3 DEF EditorMoves
<1>4. CASE WatchTakes
  BY <1>0a, <1>4, WatchTakesFollows
<1>5. CASE WatchSwaps
  <2>1. ~CreditedTwice(broken)'
    BY <1>0c, <1>5 DEF WatchSwaps, NotedSwap
  <2>. QED
    BY <1>0a, <1>5, <2>1, WatchSwapsFollows
<1>6. ASSUME NEW c \in Clients, NEW n \in Stems, PutCopies(c, n) PROVE Following'
  BY <1>0a, <1>6, RequestFollows
<1>7. ASSUME NEW c \in Clients, PutWrites(c) PROVE Following'
  <2>0. client[c].at = "write" /\ client[c] \in Requests
    BY <1>7, ClientAt DEF PutWrites
  <2>1. PICK p \in Stems, n \in Stems : p = client[c].path /\ n = client[c].name
    BY <2>0, ClientAt
  <2>1a. PICK f \in Files : f = [name |-> n, ver |-> versions + 1, ok |-> TRUE] /\ f # NoFile
    BY <1>0b, FileFacts
  <2>2. /\ dir' = [dir EXCEPT ![p] = f] /\ fsEvents' = Append(fsEvents, <<"changed", p>>)
        /\ UNCHANGED <<registry, pathNames, broken, reload>> /\ client' = [client EXCEPT ![c].at = "read"]
    BY <1>7, <2>1, <2>1a DEF PutWrites
  <2>3. ~Twins(dir') /\ ~Swapping(p)
    BY <1>0c, <1>7, <2>1 DEF PutWrites
  <2>4. Says(dir', p) = "changed"
    BY <1>0b, <2>1a, <2>2 DEF Says
  <2>5. [client[c] EXCEPT !.at = "read"].at = "read"
    BY <2>0 DEF Requests
  <2>6. \A b \in Clients : client'[b].at \in {"swap", "forget"} => client'[b] = client[b]
    BY <1>0b, <2>2, <2>5
  <2>. QED
    BY <1>0a, <2>2, <2>3, <2>4, <2>6, FileChanges
<1>8. ASSUME NEW c \in Clients, PutReads(c) PROVE Following'
  BY <1>0a, <1>8, RequestFollows
<1>9. ASSUME NEW c \in Clients, PutSwaps(c) PROVE Following'
  BY <1>0a, <1>9, PutSwapsFollows
<1>10. ASSUME NEW c \in Clients, NEW n \in Stems, DeleteMoves(c, n) PROVE Following'
  <2>1. PICK p \in Stems : /\ client' = [client EXCEPT ![c] = [at |-> "forget", name |-> n, path |-> p]]
                           /\ dir' = [dir EXCEPT ![p] = NoFile] /\ fsEvents' = Append(fsEvents, <<"deleted", p>>)
                           /\ oddities' = Noted(dir', p)
    BY <1>10 DEF DeleteMoves, PathFor
  <2>2. UNCHANGED <<registry, pathNames, broken, reload>>
    BY <1>10 DEF DeleteMoves
  <2>3. ~Twins(dir') /\ ~Swapping(p)
    BY <1>0c, <2>1 DEF Noted
  <2>4. Says(dir', p) = "deleted"
    BY <1>0b, <2>1 DEF Says
  <2>5. client'[c].path = p /\ client'[c].at = "forget" /\ \A b \in Clients : b # c => client'[b] = client[b]
    BY <1>0b, <2>1
  <2>6. /\ \A b \in Clients : client'[b].at = "swap" => client'[b] = client[b]
        /\ \A b \in Clients : client'[b].at = "forget" => client'[b] = client[b] \/ client'[b].path = p
    BY <2>5
  <2>. QED
    BY <1>0a, <1>0b, <2>1, <2>2, <2>3, <2>4, <2>6, FileChanges
<1>11. ASSUME NEW c \in Clients, DeleteForgets(c) PROVE Following'
  BY <1>0a, <1>11, DeleteForgetsFollows
<1>12. CASE UNCHANGED srcVars
  BY <1>0a, <1>12 DEF srcVars, Following, ReadLatest, Credited, OwnReload, ReadOrder, HandOver, Settling, Reading
<1>13. CASE \E c \in Clients : PutWrites(c) \/ PutReads(c) \/ PutSwaps(c) \/ DeleteForgets(c)
  BY <1>7, <1>8, <1>9, <1>11, <1>13
<1>14. CASE \E p \in Stems : EditorRemoves(p) \/ (\E q \in Stems : EditorMoves(p, q))
                      \/ (\E n \in Stems, ok \in BOOLEAN : EditorSaves(p, n, ok))
  BY <1>1, <1>2, <1>3, <1>14
<1>15. CASE \E c \in Clients, n \in Stems : PutCopies(c, n) \/ DeleteMoves(c, n)
  BY <1>6, <1>10, <1>15
<1>. QED
  BY <1>4, <1>5, <1>12, <1>13, <1>14, <1>15 DEF SourceNext, Catch

SrcInv == SType /\ Backed /\ Apart /\ Kept /\ Follow

\* The inductive invariant holds in the beginning.
LEMMA SrcInvInit == SourceInit => SrcInv
<1>. SUFFICES ASSUME SourceInit PROVE SrcInv
  OBVIOUS
<1>0. SType
  BY STypeInit
<1>1. /\ dir = [p \in Stems |-> NoFile] /\ registry = [n \in Stems |-> 0]
      /\ pathNames = [p \in Stems |-> NoName] /\ broken = {} /\ fsEvents = <<>>
      /\ reload = [t \in Threads |-> Rest] /\ client = [c \in Clients |-> NoRequest] /\ versions = 0
  BY DEF SourceInit
<1>2. \A c \in Clients : client[c].at = "idle"
  BY <1>1, RequestFacts
<1>3. Backed /\ Apart
  BY <1>1 DEF Backed, Apart, CreditedTwice
<1>4. Kept
  BY <1>1, <1>2 DEF Kept, NothingOverwrittenUnsaved, Saved
<1>5. \A p : ~Reading(p)
  BY <1>1 DEF Reading, Threads
<1>6. \A p : ~Pend(fsEvents, p)
  BY <1>1 DEF Pend
<1>7. ~Twins(dir) /\ ReadLatest /\ ReadOrder
  BY <1>1, <1>5 DEF Twins, ReadLatest, ReadOrder
<1>8. LastSays(fsEvents, dir)
  BY <1>1 DEF LastSays
<1>9. \A p \in Stems : dir[p] = NoFile /\ ~dir[p].ok /\ pathNames[p] = NoName
  BY <1>1, FileFacts
<1>10. Credited /\ HandOver
  BY <1>9 DEF Credited, HandOver
<1>11. OwnReload
  BY <1>2 DEF OwnReload
<1>. QED
  BY <1>0, <1>3, <1>4, <1>7, <1>8, <1>10, <1>11 DEF SrcInv, Follow, Following

\* Every step keeps the invariant.
LEMMA SrcInvStep == SrcInv /\ [SourceNext]_srcVars => SrcInv'
  BY STypeStep, BackedStep, ApartStep, KeptStep, FollowStep DEF SrcInv

\* When everything has been taken up the registry is what load_all gives.
LEMMA CurrentFollows == SrcInv => CaughtUpMeansCurrent
<1>. SUFFICES ASSUME SrcInv, Quiet, oddities \cap {"moved", "twin", "stale"} = {}, broken = {}, NEW n \in Stems
              PROVE  registry[n] = LoadAll(n)
  BY DEF CaughtUpMeansCurrent
<1>0. SType /\ Backed /\ Credited
  BY DEF SrcInv, Follow, Following, Clean
<1>1. \A p \in Stems : ~Settling(p)
  BY DEF Quiet, Settling, Reading, Pend, Threads
<1>2. \A p \in Stems : /\ dir[p].ok => pathNames[p] = dir[p].name /\ registry[dir[p].name] = dir[p].ver
                       /\ ~dir[p].ok => pathNames[p] = NoName
  BY <1>0, <1>1 DEF Credited
<1>3. Len(FileOrder) \in Nat /\ DOMAIN FileOrder = 1..Len(FileOrder) /\ \A k \in DOMAIN FileOrder : FileOrder[k] \in Stems
  BY SourceAssumption DEF Stems, ToSet
<1>4. \A p \in Stems : \E k \in DOMAIN FileOrder : FileOrder[k] = p
  BY DEF Stems, ToSet
<1>. DEFINE of == {k \in DOMAIN FileOrder : dir[FileOrder[k]].ok /\ dir[FileOrder[k]].name = n}
<1>5. CASE of = {}
  <2>1. LoadAll(n) = 0
    BY <1>5 DEF LoadAll
  <2>2. \A p \in Stems : ~(dir[p].ok /\ dir[p].name = n)
    BY <1>4, <1>5
  <2>3. \A p \in Stems : pathNames[p] # n
    BY <1>2, <2>2, SourceAssumption
  <2>. QED
    BY <1>0, <2>1, <2>3 DEF Backed
<1>6. CASE of # {}
  <2>1. of \subseteq 1..Len(FileOrder)
    BY <1>3
  <2>2. Max(of) \in of
    BY <1>3, <1>6, <2>1, MaxFacts
  <2>3. PICK p \in Stems : p = FileOrder[Max(of)] /\ dir[p].ok /\ dir[p].name = n
    BY <1>3, <2>2
  <2>4. LoadAll(n) = dir[p].ver
    BY <1>6, <2>3 DEF LoadAll
  <2>. QED
    BY <1>2, <2>3, <2>4
<1>. QED
  BY <1>5, <1>6

\* Over every interleaving of the operator's editor, the watcher thread and any number of
\* PUT and DELETE requests, and for every set of files: once the watcher has caught up the
\* registry is what load_all would give, a broken file keeps its previous definition live,
\* and no version is overwritten unsaved, with the exceptions RegistryFollowsFiles names.
THEOREM RegistryFollows == SourceSpec => []RegistryFollowsFiles
<1>1. SourceSpec => []SrcInv
  BY SrcInvInit, SrcInvStep, PTL DEF SourceSpec
<1>2. SrcInv => BrokenKeepsPrevious
  BY DEF SrcInv, SType, Apart, BrokenKeepsPrevious
<1>3. SrcInv => NothingOverwrittenUnsaved
  BY DEF SrcInv, Kept
<1>4. SrcInv => RegistryFollowsFiles
  BY <1>2, <1>3, CurrentFollows DEF RegistryFollowsFiles
<1>. QED
  BY <1>1, <1>4, PTL
-----------------------------------------------------------------------------
(* The match: match_text gives the first enabled definition that claims    *)
(* the text, or none when there is none.                                   *)

Claims(ds, k, l, bom, fields) == ds[k].enabled /\ Detect(ds[k], l, bom, fields)

\* The match is the first claim, or there is no claim.
LEMMA MatchFacts ==
  ASSUME NEW ds, IsCatalogue(ds), NEW l, NEW bom, NEW fields
  PROVE  \/ /\ MatchText(l, bom, fields, ds) = NoDefinition
            /\ \A k \in DOMAIN ds : ~Claims(ds, k, l, bom, fields)
         \/ \E k \in DOMAIN ds :
               /\ MatchText(l, bom, fields, ds) = ds[k] /\ ds[k] # NoDefinition
               /\ Claims(ds, k, l, bom, fields)
               /\ \A j \in DOMAIN ds : Claims(ds, j, l, bom, fields) => k <= j
<1>. DEFINE hits == {k \in DOMAIN ds : ds[k].enabled /\ Detect(ds[k], l, bom, fields)}
<1>0. hits \subseteq Nat
  BY DEF IsCatalogue
<1>1. CASE hits = {}
  BY <1>1 DEF MatchText, Claims
<1>2. CASE hits # {}
  <2>1. Min(hits) \in hits /\ \A j \in hits : Min(hits) <= j
    BY <1>0, <1>2, MinFacts
  <2>2. PICK k \in DOMAIN ds : k = Min(hits)
    BY <2>1
  <2>3. MatchText(l, bom, fields, ds) = ds[k]
    BY <1>2, <2>2 DEF MatchText
  <2>4. ds[k].name # "none"
    BY DEF IsCatalogue
  <2>4a. NoDefinition.name = "none"
    BY DEF NoDefinition
  <2>5. ds[k] # NoDefinition
    BY <2>4, <2>4a
  <2>6. Claims(ds, k, l, bom, fields)
    BY <2>1, <2>2 DEF Claims
  <2>7. \A j \in DOMAIN ds : Claims(ds, j, l, bom, fields) => k <= j
    BY <2>1, <2>2 DEF Claims
  <2>. QED
    BY <2>3, <2>5, <2>6, <2>7
<1>. QED
  BY <1>1, <1>2

\* The validate stage finds the policy of the definition by its name.
LEMMA OnFailureFacts ==
  ASSUME NEW ds, IsCatalogue(ds), NEW k \in DOMAIN ds
  PROVE  OnFailure(ds[k].name, ds) = ds[k].on_failure
<1>. DEFINE of == {j \in DOMAIN ds : ds[j].name = ds[k].name}
<1>1. of = {k}
  BY DEF IsCatalogue
<1>2. of \subseteq Nat /\ of # {}
  BY <1>1 DEF IsCatalogue
<1>3. Min(of) \in of
  BY <1>2, MinFacts
<1>4. Min(of) = k
  BY <1>1, <1>3
<1>. QED
  BY <1>2, <1>4 DEF OnFailure
-----------------------------------------------------------------------------
(* The stages.  An event's way is a function of its line, the definition   *)
(* that was chosen for it and what validation made of that; with no reload *)
(* under way the registry is still the one it was matched against.         *)

SniffRead(l) == IF SniffRaises(l) THEN Unclassified ELSE SniffPass(l)
Outcome == Normalized(line, parsed, chosen)
Passes == out.kind = "template" \/ Valid(chosen, Extract(line, chosen.engine)) \/ OnFailure(out.by, catalogue) = "warn"
Settled ==
  \/ out = Outcome /\ out.kind # "letter" /\ deadLetters = 0 /\ (reloads = 0 => Passes)
  \/ out = Outcome /\ out.kind = "letter" /\ deadLetters = 1
  \/ /\ out = Letter("validation") /\ deadLetters = 1 /\ Outcome.kind = "record"
     /\ ~Valid(chosen, Extract(line, chosen.engine))
     /\ reloads = 0 => OnFailure(Outcome.by, catalogue) # "warn"

NInv ==
  /\ stage \in {"parse", "normalize", "validate", "done"}
  /\ line \in Lines /\ reloads \in Nat /\ (reloads = 0 => catalogue \in Catalogues)
  /\ stage \in {"parse", "normalize"} => deadLetters = 0
  /\ stage # "parse" => parsed = SniffRead(line)
  /\ stage \in {"validate", "done"} /\ reloads = 0 => chosen = MatchText(line, line.bom, parsed.fields, catalogue)
  /\ stage = "validate" => out = Outcome /\ out.kind # "letter" /\ deadLetters = 0
  /\ stage = "done" => Settled

\* The kinds of what the normalize stage makes of an event.
LEMMA OutcomeFacts ==
  ASSUME NEW l, NEW p, NEW d
  PROVE  \/ d = NoDefinition /\ Normalized(l, p, d) = [kind |-> "template", by |-> "none", time |-> InferTime(p, l)]
         \/ d # NoDefinition /\ ~Reads(d, l) /\ Normalized(l, p, d) = [kind |-> "letter", by |-> "parse", time |-> "none"]
         \/ /\ d # NoDefinition /\ Reads(d, l) /\ ~Maps(d, Extract(l, d.engine))
            /\ Normalized(l, p, d) = [kind |-> "letter", by |-> "mapping", time |-> "none"]
         \/ /\ d # NoDefinition /\ Reads(d, l) /\ Maps(d, Extract(l, d.engine))
            /\ Normalized(l, p, d) = [kind |-> "record", by |-> d.name, time |-> "event"]
  BY DEF Normalized, TemplateOnly, Letter, Record

\* The stages' invariant holds in the beginning.
LEMMA NInvInit == NormInit => NInv
  BY DEF NormInit, NInv

\* Every stage and every reload keeps it.
LEMMA NInvStep == NInv /\ [NormNext]_normVars => NInv'
<1>. SUFFICES ASSUME NInv, [NormNext]_normVars PROVE NInv'
  OBVIOUS
<1>1. CASE ParseStep
  BY <1>1 DEF ParseStep, NInv, SniffRead
<1>2. CASE NormalizeStep
  <2>. DEFINE d == MatchText(line, line.bom, parsed.fields, catalogue)
              o == Normalized(line, parsed, d)
  <2>1. /\ stage = "normalize" /\ out' = o /\ chosen' = d
        /\ stage' = IF o.kind = "letter" THEN "done" ELSE "validate"
        /\ deadLetters' = IF o.kind = "letter" THEN deadLetters + 1 ELSE deadLetters
        /\ UNCHANGED <<line, catalogue, parsed, reloads>>
    BY <1>2 DEF NormalizeStep
  <2>2. deadLetters = 0 /\ parsed = SniffRead(line)
    BY <2>1 DEF NInv
  <2>3. Outcome' = o
    BY <2>1 DEF Outcome
  <2>4. chosen' = MatchText(line, line.bom, parsed.fields, catalogue)'
    BY <2>1
  <2>. HIDE DEF d, o
  <2>5. CASE o.kind = "letter"
    <3>1. Settled'
      BY <2>1, <2>2, <2>3, <2>5 DEF Settled
    <3>. QED
      BY <2>1, <2>2, <2>4, <2>5, <3>1 DEF NInv, SniffRead
  <2>6. CASE o.kind # "letter"
    BY <2>1, <2>2, <2>3, <2>4, <2>6 DEF NInv, SniffRead
  <2>. QED
    BY <2>5, <2>6
<1>3. CASE ValidateStep
  <2>1. /\ stage = "validate" /\ stage' = "done"
        /\ UNCHANGED <<line, catalogue, parsed, chosen, reloads>>
    BY <1>3 DEF ValidateStep
  <2>2. out = Outcome /\ out.kind # "letter" /\ deadLetters = 0
    BY <2>1 DEF NInv
  <2>3. Outcome' = Outcome
    BY <2>1 DEF Outcome
  <2>4. Settled'
    <3>1. CASE Passes
      <4>1. UNCHANGED <<out, deadLetters>>
        BY <1>3, <3>1 DEF ValidateStep, Passes
      <4>2. Passes'
        BY <2>1, <3>1, <4>1 DEF Passes
      <4>. QED
        BY <2>2, <2>3, <4>1, <4>2 DEF Settled
    <3>2. CASE ~Passes
      <4>1. out' = Letter("validation") /\ deadLetters' = deadLetters + 1
        BY <1>3, <3>2 DEF ValidateStep, Passes
      <4>2. Outcome.kind = "record"
        BY <2>2, <3>2, OutcomeFacts DEF Outcome, Passes
      <4>3. ~Valid(chosen, Extract(line, chosen.engine))' /\ (OnFailure(Outcome.by, catalogue) # "warn")'
        BY <2>1, <2>2, <2>3, <3>2 DEF Passes
      <4>. QED
        BY <2>2, <2>3, <4>1, <4>2, <4>3 DEF Settled
    <3>. QED
      BY <3>1, <3>2
  <2>. QED
    BY <2>1, <2>4 DEF NInv, SniffRead
<1>4. CASE Reload
  <2>1. /\ stage \in {"normalize", "validate"} /\ reloads' = reloads + 1
        /\ UNCHANGED <<line, stage, parsed, out, deadLetters, chosen>>
    BY <1>4 DEF Reload
  <2>2. Outcome' = Outcome
    BY <2>1 DEF Outcome
  <2>3. reloads' # 0 /\ reloads' \in Nat
    BY <2>1 DEF NInv
  <2>. QED
    BY <2>1, <2>2, <2>3 DEF NInv, SniffRead
<1>5. CASE UNCHANGED normVars
  BY <1>5 DEF normVars, NInv, SniffRead, Settled, Passes, Outcome
<1>. QED
  BY <1>1, <1>2, <1>3, <1>4, <1>5 DEF NormNext

\* What the invariant says of an event no reload disturbed.
LEMMA UndisturbedFacts ==
  ASSUME NInv, Undisturbed
  PROVE  /\ IsCatalogue(catalogue) /\ line.bom \in BOOLEAN /\ Settled
         /\ parsed.fields = SniffFields(line)
         /\ chosen = MatchText(line, line.bom, SniffFields(line), catalogue)
<1>1. parsed = SniffRead(line) /\ chosen = MatchText(line, line.bom, parsed.fields, catalogue) /\ Settled
  BY DEF NInv, Undisturbed, Done
<1>2. parsed.fields = SniffFields(line)
  BY <1>1 DEF SniffRead, SniffFields, Unclassified
<1>3. IsCatalogue(catalogue) /\ line.bom \in BOOLEAN
  BY NormAssumption DEF NInv, Undisturbed
<1>. QED
  BY <1>1, <1>2, <1>3

\* The definition that was chosen is one of the registry's, the first to claim the line.
LEMMA ChosenFacts ==
  ASSUME NInv, Undisturbed, chosen # NoDefinition
  PROVE  \E k \in DOMAIN catalogue :
            /\ chosen = catalogue[k] /\ Claims(catalogue, k, line, line.bom, SniffFields(line))
            /\ \A j \in DOMAIN catalogue : Claims(catalogue, j, line, line.bom, SniffFields(line)) => k <= j
  BY UndisturbedFacts, MatchFacts

\* What it says of a finished event is what the stages owe.
LEMMA AccountedFollows == NInv => EventsAccounted
<1>. SUFFICES ASSUME NInv PROVE EventsAccounted
  OBVIOUS
<1>0. \/ /\ chosen = NoDefinition
         /\ Outcome = [kind |-> "template", by |-> "none", time |-> InferTime(parsed, line)]
      \/ chosen # NoDefinition /\ Outcome.kind \in {"letter", "record"} /\ Outcome.by \in {"parse", "mapping", chosen.name}
         /\ (Outcome.kind = "letter" => Outcome.by \in {"parse", "mapping"})
         /\ (Outcome.kind = "record" => Outcome.by = chosen.name)
  BY OutcomeFacts DEF Outcome
<1>1. RecordOrLetter
  <2>. SUFFICES ASSUME Done PROVE RecordOrLetter
    BY DEF RecordOrLetter
  <2>1. Settled
    BY DEF NInv, Done
  <2>. QED
    BY <1>0, <2>1 DEF Settled, RecordOrLetter, Letter
<1>2. WarnNeverDrops
  <2>. SUFFICES ASSUME Done, out = Letter("validation"), reloads = 0
                PROVE  chosen.on_failure = "dead_letter"
    BY DEF WarnNeverDrops, NInv
  <2>0. Undisturbed
    BY DEF Undisturbed
  <2>1. Settled /\ IsCatalogue(catalogue)
    BY <2>0, UndisturbedFacts
  <2>2. Outcome # out
    BY <1>0 DEF Letter
  <2>3. Outcome.kind = "record" /\ OnFailure(Outcome.by, catalogue) # "warn"
    BY <2>1, <2>2 DEF Settled
  <2>4. chosen # NoDefinition /\ Outcome.by = chosen.name
    BY <1>0, <2>3
  <2>5. PICK k \in DOMAIN catalogue : chosen = catalogue[k]
    BY <2>0, <2>4, ChosenFacts
  <2>6. OnFailure(chosen.name, catalogue) = chosen.on_failure
    BY <2>1, <2>5, OnFailureFacts
  <2>. QED
    BY <2>1, <2>3, <2>4, <2>5, <2>6 DEF IsCatalogue
<1>3. ClaimedByFirst
  <2>. SUFFICES ASSUME Undisturbed, chosen # NoDefinition PROVE ClaimedByFirst
    BY DEF ClaimedByFirst
  <2>1. PICK k \in DOMAIN catalogue :
            /\ chosen = catalogue[k] /\ Claims(catalogue, k, line, line.bom, SniffFields(line))
            /\ \A j \in DOMAIN catalogue : Claims(catalogue, j, line, line.bom, SniffFields(line)) => k <= j
    BY ChosenFacts
  <2>2. chosen.enabled
    BY <2>1 DEF Claims
  <2>3. \E n \in Nat : DOMAIN catalogue = 1..n
    BY UndisturbedFacts DEF IsCatalogue
  <2>4. \A j \in DOMAIN catalogue : Claims(catalogue, j, line, line.bom, SniffFields(line)) => k \in 1..j
    BY <2>1, <2>3
  <2>. QED
    BY <2>1, <2>2, <2>4 DEF ClaimedByFirst, Claims
<1>4. UnmatchedKeepsTime
  <2>. SUFFICES ASSUME Done, out.kind = "template", line.stamp = "good", Outer(line) = "syslog", ~Malformed(line)
                PROVE  out.time = "event"
    BY DEF UnmatchedKeepsTime
  <2>1. Settled /\ parsed = SniffRead(line)
    BY DEF NInv, Done
  <2>2. out = Outcome
    BY <2>1 DEF Settled, Letter
  <2>3. out.time = InferTime(parsed, line)
    BY <1>0, <2>2
  <2>4. parsed.envelope
    BY <2>1 DEF SniffRead, SniffPass, Malformed
  <2>. QED
    BY <2>3, <2>4 DEF InferTime
<1>. QED
  BY <1>1, <1>2, <1>3, <1>4 DEF EventsAccounted

\* The pipeline's stages, over every reload between them: an event ends as a record or as
\* exactly one dead letter, a definition that says "warn" loses none to validation, the
\* first definition that claims a line gets it, an unmatched syslog line keeps its time.
THEOREM StagesAccount == NormSpec => []EventsAccounted
<1>1. NormSpec => []NInv
  BY NInvInit, NInvStep, PTL DEF NormSpec
<1>. QED
  BY <1>1, AccountedFollows, PTL

\* And what the tools compute for the same line and registry.
LEMMA ToolsFollow == NInv => ToolsAgree
<1>. SUFFICES ASSUME NInv, Undisturbed PROVE ToolsAgree
  BY DEF ToolsAgree, RoundtripAgrees, GreenMeansNormalized, TestAgrees, InspectAgrees
<1>0. /\ IsCatalogue(catalogue) /\ line.bom \in BOOLEAN /\ Settled
      /\ chosen = MatchText(line, line.bom, SniffFields(line), catalogue)
  BY UndisturbedFacts
<1>1. \/ chosen = NoDefinition /\ Outcome = [kind |-> "template", by |-> "none", time |-> InferTime(parsed, line)]
      \/ chosen # NoDefinition /\ ~Reads(chosen, line) /\ Outcome = [kind |-> "letter", by |-> "parse", time |-> "none"]
      \/ /\ chosen # NoDefinition /\ Reads(chosen, line) /\ ~Maps(chosen, Extract(line, chosen.engine))
         /\ Outcome = [kind |-> "letter", by |-> "mapping", time |-> "none"]
      \/ /\ chosen # NoDefinition /\ Reads(chosen, line) /\ Maps(chosen, Extract(line, chosen.engine))
         /\ Outcome = [kind |-> "record", by |-> chosen.name, time |-> "event"]
  BY OutcomeFacts DEF Outcome
<1>2. \/ out = Outcome
      \/ /\ out = [kind |-> "letter", by |-> "validation", time |-> "none"] /\ Outcome.kind = "record"
         /\ ~Valid(chosen, Extract(line, chosen.engine))
  BY <1>0 DEF Settled, Letter
<1>3. RoundtripAgrees
  <2>. SUFFICES ASSUME ~Malformed(line) PROVE RoundtripAgrees
    BY DEF RoundtripAgrees
  <2>. DEFINE r == Roundtrip(line, catalogue)
  <2>1. /\ r.unmatched <=> (chosen = NoDefinition)
        /\ r.stable <=> (chosen = NoDefinition \/ Reads(chosen, line))
    BY <1>0 DEF Roundtrip, Malformed
  <2>2. r.normalized <=> (chosen # NoDefinition /\ Reads(chosen, line) /\ Maps(chosen, Extract(line, chosen.engine)))
    BY <1>0 DEF Roundtrip, Malformed
  <2>3. r.dead <=> (chosen # NoDefinition /\ Reads(chosen, line) /\ ~Maps(chosen, Extract(line, chosen.engine)))
    BY <1>0 DEF Roundtrip, Malformed
  <2>. HIDE DEF r
  <2>4. /\ r.unmatched <=> out.kind = "template"
        /\ ~r.stable <=> out = Letter("parse")
    BY <1>1, <1>2, <2>1 DEF Letter
  <2>5. r.normalized <=> out.kind = "record" \/ out = Letter("validation")
    BY <1>1, <1>2, <2>2 DEF Letter
  <2>6. r.dead <=> out = Letter("mapping")
    BY <1>1, <1>2, <2>3 DEF Letter
  <2>. QED
    BY <2>4, <2>5, <2>6 DEF RoundtripAgrees, r
<1>4. GreenMeansNormalized
  <2>. SUFFICES ASSUME NEW k \in DOMAIN catalogue, CheckSource(catalogue[k], line, catalogue)
                PROVE  out = Record(catalogue[k])
    BY DEF GreenMeansNormalized
  <2>1. chosen # NoDefinition /\ chosen.name = catalogue[k].name
    BY <1>0 DEF CheckSource
  <2>2. chosen = catalogue[k]
    BY <1>0, <2>1, ChosenFacts DEF IsCatalogue
  <2>3. Reads(chosen, line) /\ Maps(chosen, Extract(line, chosen.engine)) /\ Valid(chosen, Extract(line, chosen.engine))
    BY <2>2 DEF CheckSource
  <2>. QED
    BY <1>1, <1>2, <2>1, <2>2, <2>3 DEF Record
<1>5. TestAgrees
  <2>. SUFFICES ASSUME NEW k \in DOMAIN catalogue
                PROVE  /\ TestSample(catalogue[k], line) = "valid" /\ chosen = catalogue[k] => out = Record(catalogue[k])
                       /\ out = Record(catalogue[k]) /\ catalogue[k].detect \subseteq {"contains", "starts_with", "field_count"}
                            => TestSample(catalogue[k], line) \in {"valid", "invalid"}
    BY DEF TestAgrees
  <2>0. catalogue[k] # NoDefinition
    BY <1>0 DEF IsCatalogue, NoDefinition
  <2>1. ASSUME TestSample(catalogue[k], line) = "valid", chosen = catalogue[k]
        PROVE  out = Record(catalogue[k])
    <3>1. Reads(chosen, line) /\ Maps(chosen, Extract(line, chosen.engine)) /\ Valid(chosen, Extract(line, chosen.engine))
      BY <2>1 DEF TestSample
    <3>. QED
      BY <1>1, <1>2, <2>0, <2>1, <3>1 DEF Record
  <2>2. ASSUME out = Record(catalogue[k]), catalogue[k].detect \subseteq {"contains", "starts_with", "field_count"}
        PROVE  TestSample(catalogue[k], line) \in {"valid", "invalid"}
    <3>1. /\ chosen # NoDefinition /\ Reads(chosen, line) /\ Maps(chosen, Extract(line, chosen.engine))
          /\ chosen.name = catalogue[k].name
      BY <1>1, <1>2, <2>2 DEF Record
    <3>2. PICK j \in DOMAIN catalogue : chosen = catalogue[j] /\ Claims(catalogue, j, line, line.bom, SniffFields(line))
      BY <3>1, ChosenFacts
    <3>3. j = k
      BY <1>0, <3>1, <3>2 DEF IsCatalogue
    <3>4. \A a \in catalogue[k].detect : Atom(a, line, line.bom, SniffFields(line)) = Atom(a, line, line.bom, NoFields)
      BY <2>2 DEF Atom
    <3>5. Detect(catalogue[k], line, line.bom, NoFields)
      BY <3>2, <3>3, <3>4 DEF Claims, Detect
    <3>. QED
      BY <3>1, <3>2, <3>3, <3>5 DEF TestSample
  <2>. QED
    BY <2>1, <2>2
<1>6. InspectAgrees
  <2>. SUFFICES ASSUME ~line.bom, chosen # NoDefinition => Reads(chosen, line) PROVE InspectAgrees
    BY DEF InspectAgrees
  <2>0. line.bom = FALSE
    BY <1>0
  <2>1. chosen = MatchText(line, FALSE, SniffFields(line), catalogue)
    BY <1>0, <2>0
  <2>. DEFINE i == Inspect(line, catalogue)
  <2>2. CASE chosen = NoDefinition
    <3>1. i.match = "none"
      BY <2>1, <2>2 DEF Inspect
    <3>. QED
      BY <2>2, <3>1 DEF InspectAgrees, NoDefinition
  <2>3. CASE chosen # NoDefinition
    <3>1. i.match = chosen.name /\ i.normalized = Maps(chosen, Extract(line, chosen.engine))
      BY <2>1, <2>3 DEF Inspect
    <3>. HIDE DEF i
    <3>2. i.normalized <=> out # Letter("mapping")
      BY <1>1, <1>2, <2>3, <3>1 DEF Letter
    <3>. QED
      BY <3>1, <3>2 DEF InspectAgrees, i
  <2>. QED
    BY <2>2, <2>3
<1>. QED
  BY <1>3, <1>4, <1>5, <1>6 DEF ToolsAgree

\* inspect, sources verify, verify roundtrip and the test endpoint say of every line what
\* the pipeline's stages do with it, but for the exceptions ToolsAgree names.
THEOREM ToolsMatchStages == NormSpec => []ToolsAgree
<1>1. NormSpec => []NInv
  BY NInvInit, NInvStep, PTL DEF NormSpec
<1>. QED
  BY <1>1, ToolsFollow, PTL
=============================================================================
