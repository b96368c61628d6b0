------------------------------ MODULE Templates ------------------------------
(***************************************************************************)
(* Template mining.  Every process that normalizes events (the service, a   *)
(* replay, a reprocess) keeps one Drain3 tree per source and one catalogue  *)
(* in memory, and rewrites the shared files from memory.                    *)
(***************************************************************************)
EXTENDS Naturals, Sequences, FiniteSets, SequencesExt

CONSTANTS Miners,      \* the processes
          TplSources,  \* the source ids
          Shapes,      \* the shapes of their lines
          SafeName,    \* source id -> the file of its tree (_safe_source_name)
          RingCap,     \* _MAX_RECENT_TIMESTAMPS
          MaxMined,    \* lines mined
          MaxLives     \* processes started

\* Every source has a file for its tree, and a ring holds a time at least.
ASSUME TplAssumption ==
  /\ TplSources \subseteq DOMAIN SafeName
  /\ RingCap \in Nat \ {0} /\ MaxMined \in Nat /\ MaxLives \in Nat

VARIABLES treeFile,  \* file name -> its shapes; a template's id is its position
          catFile,   \* templates.json: (source, id) -> record
          miner,     \* process -> its memory
          mined,     \* what was recorded, in order: <<source, shape>>
          lives, overlapped
tplVars == <<treeFile, catFile, miner, mined, lives, overlapped>>

Down == [up |-> FALSE]
Catalogue == [x \in {} |-> 0]
With(f, k, v) == [x \in DOMAIN f \cup {k} |-> IF x = k THEN v ELSE f[x]]
NothingMined == [at |-> "idle"]

\* A process starts: the catalogue is read at once, a tree on the first line of its source.
StartMiner(p) ==
  /\ ~miner[p].up /\ lives < MaxLives /\ lives' = lives + 1
  /\ overlapped' = (overlapped \/ \E q \in Miners : miner[q].up)
  /\ miner' = [miner EXCEPT ![p] = [up |-> TRUE, trees |-> Catalogue, cat |-> catFile, line |-> NothingMined]]
  /\ UNCHANGED <<treeFile, catFile, mined>>

TreeOf(p, s) == IF s \in DOMAIN miner[p].trees THEN miner[p].trees[s] ELSE treeFile[SafeName[s]]

\* TemplateMiner.mine: a shape the tree does not know is a new cluster, and the tree
\* is snapshotted before mine returns.
Mine(p, s, shape) ==
  /\ miner[p].up /\ miner[p].line = NothingMined /\ Len(mined) < MaxMined
  /\ LET old == TreeOf(p, s)
         tree == IF shape \in Range(old) THEN old ELSE Append(old, shape)
         id == CHOOSE i \in DOMAIN tree : tree[i] = shape
     IN /\ treeFile' = IF tree = old THEN treeFile ELSE [treeFile EXCEPT ![SafeName[s]] = tree]
        /\ miner' = [miner EXCEPT ![p].trees = With(@, s, tree),
                                  ![p].line = [at |-> "mined", source |-> s, id |-> id, shape |-> shape]]
  /\ UNCHANGED <<catFile, mined, lives, overlapped>>

\* TemplateStore.record: the row, its ring of times, and the whole catalogue saved.
Ring(times, now) ==
  LET all == Append(times, now)
  IN IF Len(all) > RingCap THEN SubSeq(all, Len(all) - RingCap + 1, Len(all)) ELSE all
Row(cat, key, shape, now) ==
  IF key \in DOMAIN cat
  THEN [shape |-> shape, count |-> cat[key].count + 1, recent |-> Ring(cat[key].recent, now)]
  ELSE [shape |-> shape, count |-> 1, recent |-> <<now>>]
RecordSavesNew(p) ==
  /\ miner[p].up /\ miner[p].line # NothingMined
  /\ LET l == miner[p].line
         key == <<l.source, l.id>>
         cat == With(miner[p].cat, key, Row(miner[p].cat, key, l.shape, Len(mined) + 1))
     IN /\ miner' = [miner EXCEPT ![p].cat = cat, ![p].line = NothingMined]
        /\ catFile' = IF key \in DOMAIN miner[p].cat THEN catFile ELSE cat
        /\ mined' = Append(mined, <<l.source, l.shape>>)
  /\ UNCHANGED <<treeFile, lives, overlapped>>
Record(p) ==
  /\ miner[p].up /\ miner[p].line # NothingMined
  /\ LET l == miner[p].line
         key == <<l.source, l.id>>
         cat == With(miner[p].cat, key, Row(miner[p].cat, key, l.shape, Len(mined) + 1))
     IN /\ miner' = [miner EXCEPT ![p].cat = cat, ![p].line = NothingMined]
        /\ catFile' = cat
        /\ mined' = Append(mined, <<l.source, l.shape>>)
  /\ UNCHANGED <<treeFile, lives, overlapped>>

\* It stops or is killed; the files are what it saved.
StopMiner(p) == miner[p].up /\ miner' = [miner EXCEPT ![p] = Down] /\ UNCHANGED <<treeFile, catFile, mined, lives, overlapped>>

TplInit == /\ treeFile = [f \in {SafeName[s] : s \in TplSources} |-> <<>>] /\ catFile = Catalogue
           /\ miner = [p \in Miners |-> Down] /\ mined = <<>> /\ lives = 0 /\ overlapped = FALSE
TplNext == \E p \in Miners : \/ StartMiner(p) \/ Record(p) \/ StopMiner(p)
                             \/ \E s \in TplSources, shape \in Shapes : Mine(p, s, shape)
TplSpec == TplInit /\ [][TplNext]_tplVars

\* ---- properties ------------------------------------------------------------
Occurrences(s, shape) == {i \in DOMAIN mined : mined[i] = <<s, shape>>}
OwnFiles == \A s, t \in TplSources : SafeName[s] = SafeName[t] => s = t
Rows(s, shape) == {k \in DOMAIN catFile : k[1] = s /\ catFile[k].shape = shape}
Total(s, shape) == LET keys == Rows(s, shape) IN IF keys = {} THEN 0 ELSE catFile[CHOOSE k \in keys : TRUE].count

\* While processes do not overlap and no two sources share a tree's file, kills and
\* restarts included, the catalogue has one row per shape and counts every line.
CatalogueCounts ==
  ~overlapped /\ OwnFiles =>
    \A s \in TplSources, shape \in Shapes :
      Cardinality(Rows(s, shape)) <= 1 /\ Total(s, shape) = Cardinality(Occurrences(s, shape))

\* ... and a row's ring holds the times of the latest lines of its shape: what a
\* window observes is what happened in it, up to the ring's size.
RingKeepsLatest ==
  ~overlapped /\ OwnFiles => \A k \in DOMAIN catFile :
    LET times == Occurrences(k[1], catFile[k].shape)
    IN Range(catFile[k].recent) = {t \in times : Cardinality({u \in times : u > t}) < RingCap}

\* An id once in the catalogue is never given to another shape, as long as no two
\* sources share a tree's file and processes do not overlap.
IdsKeepTheirShape ==
  [][~overlapped' /\ OwnFiles => \A k \in DOMAIN catFile :
       k \in DOMAIN catFile' /\ catFile'[k].shape = catFile[k].shape]_tplVars

\* The catalogue follows the lines over kills and restarts: counts, times and ids.
CatalogueFollowsLines == [](CatalogueCounts /\ RingKeepsLatest) /\ IdsKeepTheirShape
=============================================================================
