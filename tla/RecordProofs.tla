----------------------------- MODULE RecordProofs -----------------------------
(***************************************************************************)
(* What becomes of one record: the mapping of parsed fields to OCSF        *)
(* attributes is faithful for every definition and every parsed event      *)
(* (Mapping), and the chain of enrichers and the indicator store keep      *)
(* their promises for every record and every history of the indicator      *)
(* directory (Enrichment), and what is stored is read back right, page by  *)
(* page and column by column (EventQuery).                                 *)
(***************************************************************************)
EXTENDS Mapping, Enrichment, EventQuery, FiniteSetTheorems, SequenceTheorems, TLAPS

(***************************************************************************)
(* Mapping.  MapInv says where every leaf of the record comes from, that   *)
(* what a mapping set stays as it was set until a later path in its way    *)
(* replaces it, and that the source fields consumed are those the mappings *)
(* so far used.                                                            *)
(***************************************************************************)
Mappings == definition.fields
Made(k) == MapOne(Mappings[k])
Fails(k) == Raises(Mappings[k])
Keys(k) == ToSet(Used(Mappings[k]))
Leaf(p, v) == [path |-> p, value |-> v]
LeavesAt(rec, p) == {l \in rec : l.path = p}
MapTypeOK ==
  /\ definition \in Definitions /\ next \in 1..(Len(Mappings) + 1)
  /\ mapAt \in {"fields", "mapped", "final", "failed"}
  /\ mapAt \in {"mapped", "final"} => next = Len(Mappings) + 1
  /\ \A l \in leaves : l.path \in Path /\ l = Leaf(l.path, l.value)
\* Where a leaf of the record before the trace comes from.
SetAtFirst(l) == l.value = <<"const">> \/ l.path[1] \in {"class_uid", "category_uid", "activity_id", "type_uid"}
FromMapping(l, k) == Mappings[k].path = l.path /\ l.value = Made(k)
Origins(n) == \A l \in leaves : SetAtFirst(l) \/ \E k \in 1..n : FromMapping(l, k)
NoneRaised(n) == \A k \in 1..n : ~Fails(k)
MadeSoFar ==
  /\ mapAt = "fields" => Origins(next - 1)
  /\ mapAt # "failed" => NoneRaised(next - 1)
  /\ mapAt = "failed" => \/ next > 1 /\ Origins(next - 2)
                         \/ NoneRaised(next - 1)
\* What a mapping set is there, as it set it, unless it was replaced.
MappedStays ==
  mapAt # "failed" => \A k \in 1..(next - 1) :
    Made(k) # Nothing /\ ~Replaced(k) => LeavesAt(leaves, Mappings[k].path) = {Leaf(Mappings[k].path, Made(k))}
ConsumedIsUsed ==
  \A key : key \in consumed <=> key \in ActivityUses(definition) \/ \E k \in 1..(next - 1) : key \in Keys(k)
Finished ==
  /\ mapAt \in {"mapped", "final"} =>
       /\ leftovers = Leftovers(definition.unmapped)
       /\ \A t \in Trace : LeavesAt(leaves, t) = {Leaf(t, <<"trace">>)}
  /\ mapAt = "final" => \/ ValueAt(leaves, <<"activity_id">>) = Nothing
                        \/ ValueAt(leaves, <<"type_uid">>) = ValueAt(leaves, <<"activity_id">>)
MapInv == MapTypeOK /\ MadeSoFar /\ MappedStays /\ ConsumedIsUsed /\ Finished

\* ---- paths ---------------------------------------------------------------------
LEMMA PathFacts ==
  ASSUME NEW p \in Path
  PROVE  p \in Seq(PathNames) /\ Len(p) \in Nat /\ Len(p) >= 1 /\ DOMAIN p = 1..Len(p)
BY DEF Path

LEMMA RelatedSelf ==
  ASSUME NEW p \in Path
  PROVE  Related(p, p)
<1>1. Len(p) <= Len(p)
  BY PathFacts
<1> QED BY <1>1 DEF Related, IsPrefix

LEMMA PrefixHead ==
  ASSUME NEW p \in Path, NEW q \in Path, IsPrefix(p, q)
  PROVE  p[1] = q[1]
<1>1. /\ p \in Seq(PathNames) /\ Len(p) \in Nat /\ Len(p) >= 1
      /\ q \in Seq(PathNames) /\ Len(q) \in Nat /\ Len(q) >= 1
  BY PathFacts
<1>2. Len(p) <= Len(q) /\ SubSeq(p, 1, Len(p)) = SubSeq(q, 1, Len(p))
  BY DEF IsPrefix
<1>3. ASSUME NEW s \in Seq(PathNames), NEW n \in Nat, n >= 1, n <= Len(s) PROVE SubSeq(s, 1, n)[1] = s[1]
  BY <1>3
<1>4. SubSeq(p, 1, Len(p))[1] = p[1] /\ SubSeq(q, 1, Len(p))[1] = q[1]
  BY <1>1, <1>2, <1>3
<1> QED BY <1>2, <1>4

\* Paths in each other's way begin alike.
LEMMA RelatedHead ==
  ASSUME NEW p \in Path, NEW q \in Path, Related(p, q)
  PROVE  p[1] = q[1]
BY PrefixHead DEF Related

LEMMA OwnPaths ==
  /\ \A x \in OwnNames : <<x>> \in Path /\ <<x>>[1] = x
  /\ \A x, y \in OwnNames : <<x, y>> \in Path /\ <<x, y>>[1] = x /\ <<x, y>>[2] = y /\ Len(<<x, y>>) = 2
BY MapAssumption DEF Path

LEMMA TraceFacts ==
  /\ \A t \in Trace : t \in Path /\ t[1] = "metadata"
  /\ \A t, u \in Trace : t # u => ~Related(t, u)
<1>1. {"metadata", "uid", "log_hash", "version"} \subseteq OwnNames
  BY DEF OwnNames
<1>2. \A t \in Trace : \E y \in {"uid", "log_hash", "version"} : t = <<"metadata", y>>
  BY DEF Trace
<1>3. ASSUME NEW x \in OwnNames, NEW y \in OwnNames, NEW z \in OwnNames, IsPrefix(<<x, y>>, <<x, z>>)
      PROVE  y = z
  <2> DEFINE p == <<x, y>>
             q == <<x, z>>
  <2>1. p \in Path /\ q \in Path /\ Len(p) = 2 /\ Len(q) = 2 /\ p[2] = y /\ q[2] = z
    BY OwnPaths
  <2>2. SubSeq(p, 1, Len(p)) = SubSeq(q, 1, Len(p))
    BY <1>3 DEF IsPrefix
  <2>3. SubSeq(p, 1, 2) = SubSeq(q, 1, 2) /\ p \in Seq(PathNames) /\ q \in Seq(PathNames)
    BY <2>1, <2>2, PathFacts
  <2> HIDE DEF p, q
  <2>4. ASSUME NEW s \in Seq(PathNames), Len(s) = 2 PROVE SubSeq(s, 1, 2)[2] = s[2]
    BY <2>4
  <2>5. SubSeq(p, 1, 2)[2] = p[2] /\ SubSeq(q, 1, 2)[2] = q[2]
    BY <2>1, <2>3, <2>4
  <2> QED BY <2>1, <2>3, <2>5
<1>4. \A t \in Trace : t \in Path /\ t[1] = "metadata"
  BY <1>1, <1>2, OwnPaths
<1>5. ASSUME NEW t \in Trace, NEW u \in Trace, t # u PROVE ~Related(t, u)
  <2>1. PICK y \in {"uid", "log_hash", "version"} : t = <<"metadata", y>>
    BY <1>2
  <2>2. PICK z \in {"uid", "log_hash", "version"} : u = <<"metadata", z>>
    BY <1>2
  <2>3. y # z
    BY <1>5, <2>1, <2>2
  <2>4. "metadata" \in OwnNames /\ y \in OwnNames /\ z \in OwnNames
    BY <1>1
  <2> QED BY <1>3, <2>1, <2>2, <2>3, <2>4 DEF Related
<1> QED BY <1>4, <1>5

\* ---- setting one attribute -------------------------------------------------------
Leaves(rec) == \A l \in rec : l.path \in Path /\ l = Leaf(l.path, l.value)

LEMMA SetNestedFacts ==
  ASSUME NEW rec, Leaves(rec), NEW p \in Path, NEW v
  PROVE  /\ Leaves(SetNested(rec, p, v))
         /\ LeavesAt(SetNested(rec, p, v), p) = {Leaf(p, v)}
         /\ \A q \in Path : ~Related(q, p) => LeavesAt(SetNested(rec, p, v), q) = LeavesAt(rec, q)
         /\ \A l \in SetNested(rec, p, v) : l \in rec \/ l = Leaf(p, v)
<1> DEFINE new == Leaf(p, v)
           out == SetNested(rec, p, v)
<1>1. new.path = p /\ new.value = v /\ new = Leaf(new.path, new.value)
  BY DEF Leaf
<1>2. out = {l \in rec : ~Related(l.path, p)} \cup {new}
  BY DEF SetNested, Leaf
<1>3. Related(p, p)
  BY RelatedSelf
<1> HIDE DEF new, out
<1>4. Leaves(out)
  BY <1>1, <1>2 DEF Leaves
<1>5. LeavesAt(out, p) = {new}
  BY <1>1, <1>2, <1>3 DEF LeavesAt
<1>6. ASSUME NEW q \in Path, ~Related(q, p) PROVE LeavesAt(out, q) = LeavesAt(rec, q)
  BY <1>1, <1>2, <1>3, <1>6 DEF LeavesAt
<1>7. \A l \in out : l \in rec \/ l = new
  BY <1>2
<1> QED BY <1>4, <1>5, <1>6, <1>7 DEF new, out

LEMMA ValueOfLeaf ==
  ASSUME NEW rec, NEW p, NEW v, LeavesAt(rec, p) = {Leaf(p, v)}
  PROVE  ValueAt(rec, p) = v
<1>1. {l \in rec : l.path = p} = {Leaf(p, v)}
  BY DEF LeavesAt
<1>2. Leaf(p, v).value = v
  BY DEF Leaf
<1>3. ASSUME NEW x PROVE (CHOOSE l \in {x} : TRUE) = x
  OBVIOUS
<1>4. ValueAt(rec, p) = (CHOOSE l \in {Leaf(p, v)} : TRUE).value
  BY <1>1 DEF ValueAt
<1> QED BY <1>2, <1>3, <1>4

LEMMA ValueFollowsLeaves ==
  ASSUME NEW rec, NEW other, NEW p, LeavesAt(rec, p) = LeavesAt(other, p)
  PROVE  ValueAt(rec, p) = ValueAt(other, p)
<1> DEFINE In(S) == IF S = {} THEN Nothing ELSE (CHOOSE l \in S : TRUE).value
<1>1. ValueAt(rec, p) = In(LeavesAt(rec, p)) /\ ValueAt(other, p) = In(LeavesAt(other, p))
  BY DEF ValueAt, LeavesAt
<1> HIDE DEF In
<1> QED BY <1>1

\* ---- the texts of a mapping --------------------------------------------------------
LEMMA UsedIsSequence ==
  ASSUME NEW m, m.from \in Seq(MapKeys)
  PROVE  \E n \in Nat : DOMAIN Used(m) = 1..n
<1> DEFINE at == {i \in DOMAIN m.from : Present(m.from[i])}
<1>1. IsFiniteSet(at)
  <2>1. DOMAIN m.from = 1..Len(m.from) /\ Len(m.from) \in Nat
    OBVIOUS
  <2>2. IsFiniteSet(1..Len(m.from))
    BY <2>1, FS_Interval
  <2>3. at \subseteq 1..Len(m.from)
    BY <2>1
  <2> QED BY <2>2, <2>3, FS_Subset
<1>2. Cardinality(at) \in Nat
  BY <1>1, FS_CardinalityType
<1> HIDE DEF at
<1>3. DOMAIN Sources(m) = 1..Cardinality(at)
  BY DEF Sources, InOrder, at
<1>4. DOMAIN <<Head(Sources(m))>> = 1..1 /\ 1 \in Nat
  OBVIOUS
<1> QED BY <1>2, <1>3, <1>4 DEF Used

\* Every text a mapping used is in the value it makes, when it has no table.
LEMMA UsedIsInValue ==
  ASSUME NEW m, m.from \in Seq(MapKeys), NEW key \in ToSet(Used(m)), m.map = {}
  PROVE  MapOne(m) # Nothing /\ fields[key] \in ToSet(MapOne(m))
<1>1. PICK n \in Nat : DOMAIN Used(m) = 1..n
  BY UsedIsSequence
<1> DEFINE texts == Resolved(m)
           S == {fields[Used(m)[k]] : k \in 1..n}
<1>2. DOMAIN texts = 1..n /\ \A k \in 1..n : texts[k] = fields[Used(m)[k]]
  BY <1>1 DEF Resolved
<1>3. texts \in Seq(S) /\ Len(texts) = n
  <2>1. texts = [k \in 1..n |-> fields[Used(m)[k]]]
    BY <1>1 DEF Resolved
  <2>2. texts \in [1..n -> S]
    BY <2>1
  <2> HIDE DEF texts, S
  <2>3. texts \in Seq(S)
    BY <2>2, SeqDef
  <2>4. Len(texts) \in Nat /\ DOMAIN texts = 1..Len(texts)
    BY <2>3, LenProperties
  <2>5. 1..Len(texts) = 1..n
    BY <2>4, <1>2
  <2>6. ASSUME NEW a \in Nat, NEW b \in Nat, 1..a = 1..b PROVE ~(a < b)
    <3>1. SUFFICES ASSUME a < b PROVE FALSE
      OBVIOUS
    <3>2. b \in 1..b /\ b \notin 1..a
      BY <3>1
    <3> QED BY <3>2, <2>6
  <2>7. ~(Len(texts) < n) /\ ~(n < Len(texts))
    BY <2>4, <2>5, <2>6
  <2>8. ASSUME NEW a \in Nat, NEW b \in Nat, ~(a < b), ~(b < a) PROVE a = b
    BY <2>8
  <2>9. Len(texts) = n
    BY <2>4, <2>7, <2>8
  <2> QED BY <2>3, <2>9
<1>4. PICK k \in 1..n : key = Used(m)[k]
  BY <1>1 DEF ToSet
<1>5. texts # <<>>
  BY <1>2, <1>4
<1>6. MapOne(m) = <<m.type>> \o texts
  BY <1>5 DEF MapOne, Translate
<1>7. fields[key] = texts[k]
  BY <1>2, <1>4
<1> HIDE DEF texts, S
<1> DEFINE T == S \cup {m.type}
<1>8. <<m.type>> \in Seq(T) /\ Len(<<m.type>>) = 1 /\ texts \in Seq(T)
  BY <1>3
<1> HIDE DEF T
<1>9. ASSUME NEW a \in Seq(T), NEW b \in Seq(T), Len(a) = 1, NEW i \in 1..Len(b)
      PROVE  1 + i \in DOMAIN (a \o b) /\ (a \o b)[1 + i] = b[i]
  <2>1. a \o b \in Seq(T) /\ Len(a \o b) = Len(a) + Len(b)
        /\ \A j \in 1..(Len(a) + Len(b)) : (a \o b)[j] = IF j <= Len(a) THEN a[j] ELSE b[j - Len(a)]
    BY ConcatProperties
  <2>2. Len(b) \in Nat /\ DOMAIN (a \o b) = 1..Len(a \o b)
    BY <2>1, LenProperties
  <2>3. 1 + i \in 1..(Len(a) + Len(b)) /\ ~(1 + i <= Len(a)) /\ (1 + i) - Len(a) = i
    BY <1>9, <2>2
  <2> QED BY <2>1, <2>2, <2>3
<1>10. 1 + k \in DOMAIN (<<m.type>> \o texts) /\ (<<m.type>> \o texts)[1 + k] = texts[k]
  BY <1>3, <1>8, <1>9
<1> DEFINE v == <<m.type>> \o texts
<1>11. 1 + k \in DOMAIN v /\ v[1 + k] = fields[key] /\ MapOne(m) = v
  BY <1>6, <1>7, <1>10
<1> HIDE DEF v
<1>12. v # <<>>
  BY <1>11
<1> QED BY <1>11, <1>12 DEF ToSet, Nothing

\* ---- the actions -------------------------------------------------------------------
LEMMA MappingTypes ==
  ASSUME definition \in Definitions
  PROVE  /\ Len(Mappings) \in Nat /\ DOMAIN Mappings = 1..Len(Mappings)
         /\ \A k \in 1..Len(Mappings) : Mappings[k].path \in Path /\ Mappings[k].from \in Seq(MapKeys)
BY MapAssumption DEF Mappings

LEMMA MapInitHolds == MapInit => MapInv
<1> SUFFICES ASSUME MapInit PROVE MapInv
  OBVIOUS
<1>1. definition \in Definitions /\ next = 1 /\ consumed = ActivityUses(definition) /\ mapAt = "fields"
  BY DEF MapInit
<1>2. Len(Mappings) \in Nat
  BY <1>1, MappingTypes
<1> DEFINE c == Constants(definition)
           r1 == SetNested(c, <<"class_uid">>, <<"int", "4001">>)
           r2 == SetNested(r1, <<"category_uid">>, <<"int", "4">>)
           a == Activity(definition)
           r3 == SetNested(r2, <<"activity_id">>, a)
           r4 == SetNested(r3, <<"type_uid">>, a)
<1>3. leaves = IF a = Nothing THEN r2 ELSE r4
  BY DEF MapInit
<1>4. \A x \in {"class_uid", "category_uid", "activity_id", "type_uid"} : <<x>> \in Path /\ <<x>>[1] = x
  <2>1. {"class_uid", "category_uid", "activity_id", "type_uid"} \subseteq OwnNames
    BY DEF OwnNames
  <2> QED
    BY <2>1, OwnPaths
<1>5. Leaves(c) /\ \A l \in c : SetAtFirst(l)
  <2>1. definition.constants \in Seq(Path)
    BY <1>1, MapAssumption
  <2>2. \A i \in DOMAIN definition.constants : definition.constants[i] \in Path
    BY <2>1
  <2> QED BY <2>2 DEF Constants, Leaves, Leaf, SetAtFirst
<1> HIDE DEF c, a
<1>6. ASSUME NEW rec, Leaves(rec), \A l \in rec : SetAtFirst(l),
             NEW x \in {"class_uid", "category_uid", "activity_id", "type_uid"}, NEW v
      PROVE  Leaves(SetNested(rec, <<x>>, v)) /\ \A l \in SetNested(rec, <<x>>, v) : SetAtFirst(l)
  <2>1. /\ Leaves(SetNested(rec, <<x>>, v))
        /\ \A l \in SetNested(rec, <<x>>, v) : l \in rec \/ l = Leaf(<<x>>, v)
    BY <1>4, <1>6, SetNestedFacts
  <2>2. SetAtFirst(Leaf(<<x>>, v))
    <3>1. Leaf(<<x>>, v).path = <<x>>
      BY DEF Leaf
    <3> QED BY <3>1, <1>4 DEF SetAtFirst
  <2> QED BY <1>6, <2>1, <2>2
<1>7. Leaves(r1) /\ \A l \in r1 : SetAtFirst(l)
  BY <1>5, <1>6
<1> HIDE DEF r1
<1>8. Leaves(r2) /\ \A l \in r2 : SetAtFirst(l)
  BY <1>6, <1>7
<1> HIDE DEF r2
<1>9. Leaves(r3) /\ \A l \in r3 : SetAtFirst(l)
  BY <1>6, <1>8
<1> HIDE DEF r3
<1>10. Leaves(r4) /\ \A l \in r4 : SetAtFirst(l)
  BY <1>6, <1>9
<1> HIDE DEF r4
<1>11. Leaves(leaves) /\ \A l \in leaves : SetAtFirst(l)
  BY <1>3, <1>8, <1>10
<1>12. MapTypeOK
  BY <1>1, <1>2, <1>11 DEF MapTypeOK, Leaves
<1>13. 1..(next - 1) = {}
  BY <1>1
<1>14. MadeSoFar
  BY <1>1, <1>11, <1>13 DEF MadeSoFar, Origins, NoneRaised
<1>15. MappedStays
  BY <1>13 DEF MappedStays
<1>16. ConsumedIsUsed
  BY <1>1, <1>13 DEF ConsumedIsUsed
<1>17. Finished
  BY <1>1 DEF Finished
<1> QED BY <1>12, <1>14, <1>15, <1>16, <1>17 DEF MapInv

\* The definition and the parsed fields stay, and what is made of them.
LEMMA MakingStays ==
  ASSUME UNCHANGED <<definition, fields>>
  PROVE  /\ Mappings' = Mappings /\ (\A k : Replaced(k)' <=> Replaced(k))
         /\ \A k : Made(k)' = Made(k) /\ (Fails(k)' <=> Fails(k)) /\ Keys(k)' = Keys(k)
         /\ ActivityUses(definition)' = ActivityUses(definition)
<1>1. Mappings' = Mappings /\ \A k : Replaced(k)' <=> Replaced(k)
  BY DEF Mappings, Replaced
<1>2. \A key : Present(key)' <=> Present(key)
  BY DEF Present
<1>3. \A m : Sources(m)' = Sources(m)
  BY <1>2 DEF Sources
<1>4. \A m : Used(m)' = Used(m)
  BY <1>3 DEF Used
<1>5. \A m : Resolved(m)' = Resolved(m)
  BY <1>4 DEF Resolved
<1>6. \A m : MapOne(m)' = MapOne(m)
  BY <1>5 DEF MapOne
<1>7. \A m : Raises(m)' <=> Raises(m)
  BY <1>5, <1>6 DEF Raises
<1>8. ActivityUses(definition)' = ActivityUses(definition)
  BY <1>2 DEF ActivityUses
<1>9. \A k : Made(k)' = Made(k)
  BY <1>1, <1>6 DEF Made
<1>10. \A k : Fails(k)' <=> Fails(k)
  BY <1>1, <1>7 DEF Fails
<1>11. \A k : Keys(k)' = Keys(k)
  BY <1>1, <1>4 DEF Keys
<1> QED BY <1>1, <1>8, <1>9, <1>10, <1>11

LEMMA MapFieldKeeps ==
  ASSUME MapInv, MapField
  PROVE  MapInv'
<1> DEFINE p == Mappings[next].path
           v == Made(next)
<1>1. /\ mapAt = "fields" /\ next <= Len(Mappings) /\ next' = next + 1
      /\ UNCHANGED <<definition, fields, leftovers>> /\ consumed' = consumed \cup Keys(next)
      /\ \/ Fails(next) /\ mapAt' = "failed" /\ leaves' = leaves
         \/ /\ ~Fails(next) /\ mapAt' = mapAt
            /\ leaves' = IF v = Nothing THEN leaves ELSE SetNested(leaves, p, v)
  BY DEF MapField, Mappings, Keys, Fails, Made
<1>2. MapTypeOK /\ MadeSoFar /\ MappedStays /\ ConsumedIsUsed
  BY DEF MapInv
<1>3. /\ definition \in Definitions /\ next \in 1..(Len(Mappings) + 1) /\ Leaves(leaves)
      /\ Len(Mappings) \in Nat /\ \A k \in 1..Len(Mappings) : Mappings[k].path \in Path
  BY <1>2, MappingTypes DEF MapTypeOK, Leaves
<1>4. /\ next \in 1..Len(Mappings) /\ p \in Path /\ next' \in 1..(Len(Mappings) + 1)
      /\ next' - 1 = next /\ next' - 2 = next - 1 /\ next' > 1
      /\ \A k \in 1..next : k \in 1..(next - 1) \/ k = next
      /\ 1..(next - 1) \subseteq 1..next /\ next \in 1..next
  BY <1>1, <1>3
<1>5. /\ Mappings' = Mappings /\ (\A k : Replaced(k)' <=> Replaced(k))
      /\ \A k : Made(k)' = Made(k) /\ (Fails(k)' <=> Fails(k)) /\ Keys(k)' = Keys(k)
      /\ ActivityUses(definition)' = ActivityUses(definition)
  BY <1>1, MakingStays
<1> HIDE DEF p, v
<1>6. /\ Leaves(SetNested(leaves, p, v))
      /\ LeavesAt(SetNested(leaves, p, v), p) = {Leaf(p, v)}
      /\ \A q \in Path : ~Related(q, p) => LeavesAt(SetNested(leaves, p, v), q) = LeavesAt(leaves, q)
      /\ \A l \in SetNested(leaves, p, v) : l \in leaves \/ l = Leaf(p, v)
  BY <1>3, <1>4, SetNestedFacts
<1>7. Leaves(leaves')
  BY <1>1, <1>3, <1>6
<1>8. MapTypeOK'
  BY <1>1, <1>3, <1>4, <1>5, <1>7 DEF MapTypeOK, Leaves
<1>9. ConsumedIsUsed'
  <2>1. \A key : key \in consumed' <=> key \in ActivityUses(definition) \/ \E k \in 1..next : key \in Keys(k)
    BY <1>1, <1>2, <1>4 DEF ConsumedIsUsed
  <2> QED BY <2>1, <1>4, <1>5 DEF ConsumedIsUsed
<1>10. Finished'
  BY <1>1 DEF Finished
<1>11. Origins(next - 1) /\ NoneRaised(next - 1)
  BY <1>1, <1>2 DEF MadeSoFar
<1>12. \A l, k : FromMapping(l, k)' <=> FromMapping(l, k)
  BY <1>5 DEF FromMapping
<1>13. CASE Fails(next) /\ mapAt' = "failed" /\ leaves' = leaves
  <2>1. \A l \in leaves' : SetAtFirst(l) \/ \E k \in 1..(next' - 2) : FromMapping(l, k)'
    BY <1>13, <1>11, <1>12, <1>4 DEF Origins
  <2>2. MadeSoFar'
    BY <2>1, <1>13, <1>4 DEF MadeSoFar, Origins, SetAtFirst
  <2>3. MappedStays'
    BY <1>13 DEF MappedStays
  <2> QED BY <2>2, <2>3, <1>8, <1>9, <1>10 DEF MapInv
<1>14. CASE ~Fails(next) /\ mapAt' = mapAt /\ leaves' = (IF v = Nothing THEN leaves ELSE SetNested(leaves, p, v))
  <2>1. ASSUME NEW l \in leaves' PROVE SetAtFirst(l) \/ \E k \in 1..next : FromMapping(l, k)
    <3>1. CASE l \in leaves
      BY <3>1, <1>11, <1>4 DEF Origins
    <3>2. CASE l = Leaf(p, v)
      <4>1. l.path = p /\ l.value = v
        BY <3>2 DEF Leaf
      <4>2. FromMapping(l, next)
        BY <4>1 DEF FromMapping, p, v
      <4> QED BY <4>2, <1>4
    <3> QED BY <3>1, <3>2, <1>6, <1>14
  <2>2. NoneRaised(next)
    BY <1>11, <1>14, <1>4 DEF NoneRaised
  <2>3. MadeSoFar'
    <3>1. \A k \in 1..(next' - 1) : ~Fails(k)'
      BY <2>2, <1>4, <1>5 DEF NoneRaised
    <3>2. \A l \in leaves' : SetAtFirst(l) \/ \E k \in 1..(next' - 1) : FromMapping(l, k)'
      BY <2>1, <1>4, <1>12
    <3> QED BY <3>1, <3>2, <1>1, <1>14 DEF MadeSoFar, Origins, NoneRaised, SetAtFirst
  <2>4. ASSUME NEW k \in 1..next, Made(k) # Nothing, ~Replaced(k)
        PROVE  LeavesAt(leaves', Mappings[k].path) = {Leaf(Mappings[k].path, Made(k))}
    <3>1. CASE k = next
      BY <3>1, <2>4, <1>6, <1>14 DEF p, v
    <3>2. CASE k \in 1..(next - 1)
      <4>1. LeavesAt(leaves, Mappings[k].path) = {Leaf(Mappings[k].path, Made(k))}
        BY <3>2, <2>4, <1>1, <1>2 DEF MappedStays
      <4>2. ~Related(Mappings[k].path, p)
        <5>1. next > k /\ next \in DOMAIN definition.fields
          BY <3>2, <1>3, <1>4, MappingTypes DEF Mappings
        <5> QED BY <5>1, <2>4 DEF Replaced, Mappings, p
      <4>3. Mappings[k].path \in Path
        BY <1>3, <1>4, <3>2
      <4>4. LeavesAt(leaves', Mappings[k].path) = LeavesAt(leaves, Mappings[k].path)
        BY <4>2, <4>3, <1>6, <1>14
      <4> QED BY <4>1, <4>4
    <3> QED BY <3>1, <3>2, <1>4
  <2>5. MappedStays'
    BY <2>4, <1>4, <1>5 DEF MappedStays, LeavesAt, Leaf
  <2> QED BY <2>3, <2>5, <1>8, <1>9, <1>10 DEF MapInv
<1> QED BY <1>1, <1>13, <1>14

LEMMA AddTraceFacts ==
  ASSUME Leaves(leaves)
  PROVE  /\ Leaves(AddTrace(leaves))
         /\ \A t \in Trace : LeavesAt(AddTrace(leaves), t) = {Leaf(t, <<"trace">>)}
         /\ \A q \in Path : q[1] # "metadata" => LeavesAt(AddTrace(leaves), q) = LeavesAt(leaves, q)
<1> DEFINE t1 == <<"metadata", "uid">>
           t2 == <<"metadata", "log_hash">>
           t3 == <<"metadata", "version">>
           w == <<"trace">>
           r1 == SetNested(leaves, t1, w)
           r2 == SetNested(r1, t2, w)
           r3 == SetNested(r2, t3, w)
<1>1. t1 \in Trace /\ t2 \in Trace /\ t3 \in Trace /\ \A t \in Trace : t \in {t1, t2, t3}
  BY DEF Trace
<1>2. AddTrace(leaves) = r3
  BY DEF AddTrace
<1>3. t1 # t2 /\ t1 # t3 /\ t2 # t3
  <2>1. t1[2] = "uid" /\ t2[2] = "log_hash" /\ t3[2] = "version"
    OBVIOUS
  <2> QED BY <2>1
<1> HIDE DEF t1, t2, t3, w
<1>4. /\ t1 \in Path /\ t2 \in Path /\ t3 \in Path
      /\ ~Related(t1, t2) /\ ~Related(t1, t3) /\ ~Related(t2, t3)
  BY <1>1, <1>3, TraceFacts
<1>5. \A q \in Path : q[1] # "metadata" => ~Related(q, t1) /\ ~Related(q, t2) /\ ~Related(q, t3)
  BY <1>1, <1>4, TraceFacts, RelatedHead
<1>6. /\ Leaves(r1) /\ LeavesAt(r1, t1) = {Leaf(t1, w)}
      /\ \A q \in Path : ~Related(q, t1) => LeavesAt(r1, q) = LeavesAt(leaves, q)
  BY <1>4, SetNestedFacts
<1> HIDE DEF r1
<1>7. /\ Leaves(r2) /\ LeavesAt(r2, t2) = {Leaf(t2, w)}
      /\ \A q \in Path : ~Related(q, t2) => LeavesAt(r2, q) = LeavesAt(r1, q)
  BY <1>4, <1>6, SetNestedFacts
<1> HIDE DEF r2
<1>8. /\ Leaves(r3) /\ LeavesAt(r3, t3) = {Leaf(t3, w)}
      /\ \A q \in Path : ~Related(q, t3) => LeavesAt(r3, q) = LeavesAt(r2, q)
  BY <1>4, <1>7, SetNestedFacts
<1> HIDE DEF r3
<1>9. LeavesAt(r3, t1) = {Leaf(t1, w)} /\ LeavesAt(r3, t2) = {Leaf(t2, w)}
  BY <1>4, <1>6, <1>7, <1>8
<1>10. \A t \in Trace : LeavesAt(r3, t) = {Leaf(t, w)}
  BY <1>1, <1>8, <1>9
<1>11. \A q \in Path : q[1] # "metadata" => LeavesAt(r3, q) = LeavesAt(leaves, q)
  BY <1>5, <1>6, <1>7, <1>8
<1> QED BY <1>2, <1>8, <1>10, <1>11 DEF w

LEMMA AttachKeeps ==
  ASSUME MapInv, Attach
  PROVE  MapInv'
<1> DEFINE rec == AddTrace(leaves)
<1>1. /\ mapAt = "fields" /\ next > Len(Mappings) /\ mapAt' = "mapped"
      /\ UNCHANGED <<definition, fields, next, consumed>> /\ leftovers' = Leftovers(definition.unmapped)
      /\ leaves' = {l \in rec : definition.unmapped = "drop" \/ l.path[1] # "unmapped"}
  BY DEF Attach, Mappings
<1>2. MapTypeOK /\ MadeSoFar /\ MappedStays /\ ConsumedIsUsed
  BY DEF MapInv
<1>3. /\ definition \in Definitions /\ next \in 1..(Len(Mappings) + 1) /\ Leaves(leaves)
      /\ Len(Mappings) \in Nat /\ \A k \in 1..Len(Mappings) : Mappings[k].path \in Path
  BY <1>2, MappingTypes DEF MapTypeOK, Leaves
<1>4. next = Len(Mappings) + 1 /\ next - 1 = Len(Mappings)
  BY <1>1, <1>3
<1>5. /\ Mappings' = Mappings /\ (\A k : Replaced(k)' <=> Replaced(k))
      /\ \A k : Made(k)' = Made(k) /\ (Fails(k)' <=> Fails(k)) /\ Keys(k)' = Keys(k)
      /\ ActivityUses(definition)' = ActivityUses(definition)
  BY <1>1, MakingStays
<1>6. /\ Leaves(rec) /\ \A t \in Trace : LeavesAt(rec, t) = {Leaf(t, <<"trace">>)}
      /\ \A q \in Path : q[1] # "metadata" => LeavesAt(rec, q) = LeavesAt(leaves, q)
  BY <1>3, AddTraceFacts
<1> HIDE DEF rec
<1>7. \A q \in Path : q[1] # "unmapped" => LeavesAt(leaves', q) = LeavesAt(rec, q)
  BY <1>1 DEF LeavesAt
<1>8. Leaves(leaves')
  BY <1>1, <1>6 DEF Leaves
<1>9. MapTypeOK'
  BY <1>1, <1>3, <1>4, <1>5, <1>8 DEF MapTypeOK, Leaves
<1>10. MadeSoFar'
  <2>1. \A k \in 1..(next - 1) : ~Fails(k)
    BY <1>1, <1>2 DEF MadeSoFar, NoneRaised
  <2> QED BY <2>1, <1>1, <1>5 DEF MadeSoFar, NoneRaised
<1>11. MappedStays'
  <2>1. ASSUME NEW k \in 1..(next - 1), Made(k) # Nothing, ~Replaced(k)
        PROVE  LeavesAt(leaves', Mappings[k].path) = {Leaf(Mappings[k].path, Made(k))}
    <3>1. LeavesAt(leaves, Mappings[k].path) = {Leaf(Mappings[k].path, Made(k))}
      BY <2>1, <1>1, <1>2 DEF MappedStays
    <3>2. Mappings[k].path[1] \notin {"metadata", "unmapped"}
      BY <2>1 DEF Replaced, Mappings
    <3>3. Mappings[k].path \in Path
      BY <1>3, <1>4
    <3> QED BY <3>1, <3>2, <3>3, <1>6, <1>7
  <2> QED BY <2>1, <1>1, <1>5 DEF MappedStays, LeavesAt, Leaf
<1>12. ConsumedIsUsed'
  BY <1>1, <1>2, <1>5 DEF ConsumedIsUsed
<1>13. Finished'
  <2>1. \A t \in Trace : LeavesAt(leaves', t) = {Leaf(t, <<"trace">>)}
    BY <1>6, <1>7, TraceFacts
  <2>2. (Leftovers(definition.unmapped))' = Leftovers(definition.unmapped)
    BY <1>1 DEF Leftovers
  <2> QED BY <2>1, <2>2, <1>1 DEF Finished, LeavesAt, Leaf, Trace
<1> QED BY <1>9, <1>10, <1>11, <1>12, <1>13 DEF MapInv

LEMMA FinalizeKeeps ==
  ASSUME MapInv, Finalize
  PROVE  MapInv'
<1> DEFINE a == ValueAt(leaves, <<"activity_id">>)
           type == <<"type_uid">>
           set == SetNested(leaves, type, a)
<1>1. /\ mapAt = "mapped" /\ UNCHANGED <<definition, fields, next, consumed, leftovers>>
      /\ \/ mapAt' = "failed" /\ leaves' = leaves
         \/ mapAt' = "final" /\ leaves' = (IF a = Nothing THEN leaves ELSE set)
  BY DEF Finalize, Derived
<1>2. MapTypeOK /\ MadeSoFar /\ MappedStays /\ ConsumedIsUsed /\ Finished
  BY DEF MapInv
<1>3. /\ definition \in Definitions /\ next = Len(Mappings) + 1 /\ Leaves(leaves)
      /\ Len(Mappings) \in Nat /\ \A k \in 1..Len(Mappings) : Mappings[k].path \in Path
  BY <1>1, <1>2, MappingTypes DEF MapTypeOK, Leaves
<1>4. next - 1 = Len(Mappings)
  BY <1>3
<1>5. /\ Mappings' = Mappings /\ (\A k : Replaced(k)' <=> Replaced(k))
      /\ \A k : Made(k)' = Made(k) /\ (Fails(k)' <=> Fails(k)) /\ Keys(k)' = Keys(k)
      /\ ActivityUses(definition)' = ActivityUses(definition)
  BY <1>1, MakingStays
<1>6. type \in Path /\ type[1] = "type_uid" /\ <<"activity_id">> \in Path /\ <<"activity_id">>[1] = "activity_id"
  BY OwnPaths DEF OwnNames
<1> HIDE DEF a, type
<1>7. /\ Leaves(set) /\ LeavesAt(set, type) = {Leaf(type, a)}
      /\ \A q \in Path : ~Related(q, type) => LeavesAt(set, q) = LeavesAt(leaves, q)
  BY <1>3, <1>6, SetNestedFacts
<1> HIDE DEF set
<1>8. \A q \in Path : q[1] # "type_uid" => LeavesAt(leaves', q) = LeavesAt(leaves, q)
  <2>1. \A q \in Path : q[1] # "type_uid" => ~Related(q, type)
    BY <1>6, RelatedHead
  <2> QED BY <2>1, <1>1, <1>7
<1>9. Leaves(leaves')
  BY <1>1, <1>3, <1>7
<1>10. MapTypeOK'
  BY <1>1, <1>3, <1>5, <1>9 DEF MapTypeOK, Leaves
<1>11. NoneRaised(next - 1)
  BY <1>1, <1>2 DEF MadeSoFar
<1>12. MadeSoFar'
  BY <1>1, <1>5, <1>11 DEF MadeSoFar, NoneRaised
<1>13. MappedStays'
  <2>1. ASSUME NEW k \in 1..(next - 1), Made(k) # Nothing, ~Replaced(k)
        PROVE  LeavesAt(leaves', Mappings[k].path) = {Leaf(Mappings[k].path, Made(k))}
    <3>1. LeavesAt(leaves, Mappings[k].path) = {Leaf(Mappings[k].path, Made(k))}
      BY <2>1, <1>1, <1>2 DEF MappedStays
    <3>2. Mappings[k].path[1] # "type_uid"
      BY <2>1 DEF Replaced, Mappings
    <3>3. Mappings[k].path \in Path
      BY <1>3, <1>4
    <3> QED BY <3>1, <3>2, <3>3, <1>8
  <2> QED BY <2>1, <1>1, <1>5 DEF MappedStays, LeavesAt, Leaf
<1>14. ConsumedIsUsed'
  BY <1>1, <1>2, <1>5 DEF ConsumedIsUsed
<1>15. Finished'
  <2>1. \A t \in Trace : LeavesAt(leaves, t) = {Leaf(t, <<"trace">>)}
    BY <1>1, <1>2 DEF Finished
  <2>2. \A t \in Trace : LeavesAt(leaves', t) = {Leaf(t, <<"trace">>)}
    BY <2>1, <1>8, TraceFacts
  <2>3. (Leftovers(definition.unmapped))' = Leftovers(definition.unmapped)
    BY <1>1 DEF Leftovers
  <2>4. leftovers = Leftovers(definition.unmapped)
    BY <1>1, <1>2 DEF Finished
  <2>5. ValueAt(leaves', <<"activity_id">>) = a
    <3>1. LeavesAt(leaves', <<"activity_id">>) = LeavesAt(leaves, <<"activity_id">>)
      BY <1>6, <1>8
    <3> QED BY <3>1, ValueFollowsLeaves DEF a
  <2>6. mapAt' = "final" => a = Nothing \/ ValueAt(leaves', <<"type_uid">>) = a
    <3>1. ValueAt(set, type) = a
      BY <1>7, ValueOfLeaf
    <3> QED BY <3>1, <1>1 DEF type
  <2>7. (mapAt \in {"mapped", "final"} =>
           /\ leftovers = Leftovers(definition.unmapped)
           /\ \A t \in Trace : LeavesAt(leaves, t) = {Leaf(t, <<"trace">>)})'
    BY <2>2, <2>3, <2>4, <1>1 DEF LeavesAt, Leaf, Trace
  <2>8. (mapAt = "final" => \/ ValueAt(leaves, <<"activity_id">>) = Nothing
                            \/ ValueAt(leaves, <<"type_uid">>) = ValueAt(leaves, <<"activity_id">>))'
    <3>1. (ValueAt(leaves, <<"activity_id">>))' = ValueAt(leaves', <<"activity_id">>)
          /\ (ValueAt(leaves, <<"type_uid">>))' = ValueAt(leaves', <<"type_uid">>)
      BY DEF ValueAt
    <3> QED BY <3>1, <2>5, <2>6 DEF Nothing
  <2> QED BY <2>7, <2>8 DEF Finished
<1> QED BY <1>10, <1>12, <1>13, <1>14, <1>15 DEF MapInv

LEMMA MapStepHolds == MapInv /\ [MapNext]_mapVars => MapInv'
<1> SUFFICES ASSUME MapInv, [MapNext]_mapVars PROVE MapInv'
  OBVIOUS
<1>1. CASE MapNext
  BY <1>1, MapFieldKeeps, AttachKeeps, FinalizeKeeps DEF MapNext
<1>2. CASE UNCHANGED mapVars
  <2>1. UNCHANGED <<definition, fields, next, leaves, consumed, leftovers, mapAt>>
    BY <1>2 DEF mapVars
  <2>2. /\ Mappings' = Mappings /\ (\A k : Replaced(k)' <=> Replaced(k))
        /\ \A k : Made(k)' = Made(k) /\ (Fails(k)' <=> Fails(k)) /\ Keys(k)' = Keys(k)
        /\ ActivityUses(definition)' = ActivityUses(definition)
    BY <2>1, MakingStays
  <2>3. MapTypeOK'
    BY <2>1, <2>2 DEF MapInv, MapTypeOK, Leaf
  <2>4. MadeSoFar'
    BY <2>1, <2>2 DEF MapInv, MadeSoFar, Origins, NoneRaised, FromMapping, SetAtFirst
  <2>5. MappedStays'
    BY <2>1, <2>2 DEF MapInv, MappedStays, LeavesAt, Leaf
  <2>6. ConsumedIsUsed'
    BY <2>1, <2>2 DEF MapInv, ConsumedIsUsed
  <2>7. Finished'
    BY <2>1 DEF MapInv, Finished, LeavesAt, Leaf, Trace, ValueAt, Leftovers, Nothing
  <2> QED BY <2>3, <2>4, <2>5, <2>6, <2>7 DEF MapInv
<1> QED BY <1>1, <1>2

\* ---- what follows ------------------------------------------------------------------
LEMMA NothingIsLost == MapInv => LostOnlyByTable
<1> SUFFICES ASSUME MapInv, Final, definition.unmapped = "keep_all", NEW key \in MapKeys, fields[key] # NoText,
                    key \notin leftovers, key # definition.activity
             PROVE  \E k \in Owner(key) :
                      \/ definition.fields[k].map # {} \/ Replaced(k)
                      \/ \E l \in leaves : l.path = definition.fields[k].path /\ fields[key] \in ToSet(l.value)
  BY DEF LostOnlyByTable
<1>1. mapAt = "final" /\ definition \in Definitions /\ next - 1 = Len(Mappings)
  <2>1. mapAt = "final" /\ definition \in Definitions /\ next = Len(Mappings) + 1
    BY DEF MapInv, MapTypeOK, Final
  <2>2. Len(Mappings) \in Nat
    BY <2>1, MappingTypes
  <2> QED BY <2>1, <2>2
<1>2. key \in consumed
  BY <1>1 DEF MapInv, Finished, Leftovers
<1>3. key \notin ActivityUses(definition)
  BY DEF ActivityUses
<1>4. PICK k \in 1..(next - 1) : key \in Keys(k)
  BY <1>2, <1>3 DEF MapInv, ConsumedIsUsed
<1>5. k \in Owner(key)
  BY <1>1, <1>4, MappingTypes DEF Owner, Keys, Mappings
<1>6. CASE Mappings[k].map = {} /\ ~Replaced(k)
  <2>1. Mappings[k].from \in Seq(MapKeys)
    BY <1>1, MappingTypes
  <2>2. key \in ToSet(Used(Mappings[k]))
    BY <1>4 DEF Keys
  <2>3. MapOne(Mappings[k]) # Nothing /\ fields[key] \in ToSet(MapOne(Mappings[k]))
    BY <2>1, <2>2, <1>6, UsedIsInValue
  <2>4. LeavesAt(leaves, Mappings[k].path) = {Leaf(Mappings[k].path, Made(k))}
    BY <2>3, <1>1, <1>6 DEF MapInv, MappedStays, Made
  <2> DEFINE l == Leaf(Mappings[k].path, Made(k))
  <2>5. l.path = Mappings[k].path /\ l.value = MapOne(Mappings[k])
    BY DEF Leaf, Made
  <2>6. l \in leaves
    BY <2>4 DEF LeavesAt
  <2> HIDE DEF l
  <2> QED BY <2>3, <2>5, <2>6, <1>5 DEF Mappings
<1> QED BY <1>5, <1>6 DEF Mappings

LEMMA TraceIsKept == MapInv => TraceKept
<1> SUFFICES ASSUME MapInv, mapAt \in {"mapped", "final"}, NEW t \in Trace PROVE ValueAt(leaves, t) = <<"trace">>
  BY DEF TraceKept
<1>1. LeavesAt(leaves, t) = {Leaf(t, <<"trace">>)}
  BY DEF MapInv, Finished
<1> QED BY <1>1, ValueOfLeaf

LEMMA RequiredStay == MapInv => RequiredIsThere
<1> SUFFICES ASSUME MapInv, Final, NEW k \in DOMAIN definition.fields, definition.fields[k].required, ~Replaced(k)
             PROVE  ValueAt(leaves, definition.fields[k].path) # Nothing
  BY DEF RequiredIsThere
<1>1. mapAt = "final" /\ definition \in Definitions /\ next - 1 = Len(Mappings)
  <2>1. mapAt = "final" /\ definition \in Definitions /\ next = Len(Mappings) + 1
    BY DEF MapInv, MapTypeOK, Final
  <2>2. Len(Mappings) \in Nat
    BY <2>1, MappingTypes
  <2> QED BY <2>1, <2>2
<1>2. k \in 1..(next - 1)
  BY <1>1, MappingTypes DEF Mappings
<1>3. ~Raises(Mappings[k])
  BY <1>1, <1>2 DEF MapInv, MadeSoFar, NoneRaised, Fails
<1>4. Made(k) # Nothing
  BY <1>3 DEF Raises, Made, Mappings
<1>5. LeavesAt(leaves, Mappings[k].path) = {Leaf(Mappings[k].path, Made(k))}
  BY <1>1, <1>2, <1>4 DEF MapInv, MappedStays
<1>6. ValueAt(leaves, Mappings[k].path) = Made(k)
  BY <1>5, ValueOfLeaf
<1> QED BY <1>4, <1>6 DEF Mappings

LEMMA TypeFollows == MapInv => TypeFollowsActivity
<1> SUFFICES ASSUME MapInv, Final PROVE TypeFollowsActivity
  BY DEF TypeFollowsActivity
<1>1. \/ ValueAt(leaves, <<"activity_id">>) = Nothing
      \/ ValueAt(leaves, <<"type_uid">>) = ValueAt(leaves, <<"activity_id">>)
  BY DEF MapInv, Finished, Final
<1>2. ValueAt(leaves, <<"activity_id">>) = Nothing \/ <<"type_uid">> \notin Problems(leaves)
  <2>1. <<"type_uid">> \notin Scalars /\ <<"type_uid">> \notin Objects /\ <<"type_uid">> # <<"time">>
    <3>1. <<"type_uid">>[1] = "type_uid" /\ \A a \in Scalars \cup Objects \cup {<<"time">>} : a[1] # "type_uid"
      BY DEF Scalars, Objects
    <3> QED BY <3>1
  <2> QED BY <2>1, <1>1 DEF Problems
<1>3. Problems(leaves) = {} => Scalars \cup Objects \subseteq Populated(leaves)
  BY DEF Problems, Populated, Attributes
<1> QED BY <1>2, <1>3 DEF TypeFollowsActivity

LEMMA FailedIsPrefix == MapInv => PartialIsPrefix
<1> SUFFICES ASSUME MapInv, mapAt = "failed", next > 1, Raises(definition.fields[next - 1]), NEW l \in leaves
             PROVE  \/ l.value = <<"const">> \/ l.path[1] \in {"class_uid", "category_uid", "activity_id", "type_uid"}
                    \/ \E k \in 1..next - 2 : definition.fields[k].path = l.path /\ l.value = MapOne(definition.fields[k])
  BY DEF PartialIsPrefix
<1>1. Fails(next - 1) /\ next - 1 \in 1..(next - 1)
  <2>1. definition \in Definitions /\ next \in 1..(Len(Mappings) + 1)
    BY DEF MapInv, MapTypeOK
  <2>2. Len(Mappings) \in Nat
    BY <2>1, MappingTypes
  <2> QED BY <2>1, <2>2 DEF Fails, Mappings
<1>2. Origins(next - 2)
  BY <1>1 DEF MapInv, MadeSoFar, NoneRaised
<1> QED BY <1>2 DEF Origins, SetAtFirst, FromMapping, Mappings, Made

\* Whatever the definition maps, the record and its leftovers hold what was parsed, with its trace.
THEOREM RecordsAreFaithful == MapSpec => []RecordIsFaithful
<1>1. MapInv => RecordIsFaithful
  BY NothingIsLost, TraceIsKept, RequiredStay, TypeFollows, FailedIsPrefix DEF RecordIsFaithful
<1> QED BY <1>1, MapInitHolds, MapStepHolds, PTL DEF MapSpec

(***************************************************************************)
(* Enrichment.  EnrInv counts the workers that calls given up on still     *)
(* hold, ties what was merged to the record it was asked about, and ties   *)
(* the indicator store to the directory by the last notification waiting   *)
(* for each file.                                                          *)
(***************************************************************************)
Calls == Len(Chain)
\* Only this event's abandoned calls, and those that were there before it, hold workers.
HeldCounted == /\ held \in Nat /\ heldBefore \in Nat /\ enrAt \in 1..(Calls + 2)
               /\ held <= heldBefore + (enrAt - 1)

\* The record until its promotion, and what the enrichers answered about it.
Record0 == [src : Endpoint, dst : Endpoint, direction : STRING \cup {"inbound", "outbound"}, mapped : STRING,
            port : STRING, ioc : STRING, location : SUBSET Roles, classed : BOOLEAN]
AnswersFit ==
  /\ enrRecord \in Record0 /\ merged = [x \in Enrichers |-> merged[x]]
  /\ merged["geoip"] \subseteq Located(enrRecord)
  /\ merged["network_context"] \subseteq {InferDirection(enrRecord)}
  /\ "attack_tagger" \in answered /\ enrRecord.mapped = "outbound" => "by_direction" \in merged["attack_tagger"]
  /\ enrAt <= Calls + 1 => enrRecord.direction = enrRecord.mapped /\ enrRecord.location = {}
  /\ DirectionFits
  /\ enrRecord.mapped # NotYet => enrRecord.direction = enrRecord.mapped

Queued(p) == {k \in DOMAIN iocEvents : iocEvents[k].path = p}
LastFor(k, p) == k \in Queued(p) /\ \A j \in Queued(p) : j <= k
Explained(p) ==
  \/ iocFiles[p] = "good" /\ iocLoaded[p] = iocVersion[p]
  \/ iocFiles[p] = "bad"
  \/ iocFiles[p] = "gone" /\ (iocLoaded[p] = 0 \/ p \in iocMoved)
StoreTypeOK ==
  /\ iocFiles \in [IocPaths -> {"good", "bad", "gone"}]
  /\ iocLoaded \in [IocPaths -> Nat] /\ iocVersion \in [IocPaths -> Nat \ {0}]
  /\ iocEvents \in Seq([kind : {"changed", "deleted"}, path : IocPaths])
  /\ iocChanges \in Nat
\* What no notification is waiting for is explained; the last one waiting for a path says
\* "deleted" if the file is gone without having been moved, and only if it is gone.
StoreFollows ==
  watching => \A p \in IocPaths :
    /\ Queued(p) = {} => Explained(p)
    /\ \A k \in DOMAIN iocEvents : LastFor(k, p) =>
         /\ iocFiles[p] = "gone" /\ p \notin iocMoved => iocEvents[k].kind = "deleted"
         /\ iocEvents[k].kind = "deleted" => iocFiles[p] = "gone"

EnrInv == HeldCounted /\ AnswersFit /\ StarvedOnlyByEarlierCalls /\ StoreTypeOK /\ StoreFollows

\* There are four enrichers, and the pool has a worker for each that is switched on.
LEMMA EnoughWorkers == Calls \in Nat /\ Calls <= Workers
<1>1. Chain \in [1..Calls -> Enrichers] /\ Calls \in Nat
  BY EnrAssumption DEF Calls
<1>2. IsFiniteSet(Enrichers) /\ Cardinality(Enrichers) <= 4
  <2>1. ASSUME NEW S, NEW n \in Nat, NEW x, IsFiniteSet(S), Cardinality(S) <= n
        PROVE  IsFiniteSet(S \cup {x}) /\ Cardinality(S \cup {x}) <= n + 1
    <3>1. Cardinality(S) \in Nat
      BY <2>1, FS_CardinalityType
    <3>2. /\ IsFiniteSet(S \cup {x})
          /\ Cardinality(S \cup {x}) = IF x \in S THEN Cardinality(S) ELSE Cardinality(S) + 1
      BY <2>1, FS_AddElement
    <3> QED BY <2>1, <3>1, <3>2
  <2>3. IsFiniteSet({"geoip"}) /\ Cardinality({"geoip"}) <= 1
    BY FS_Singleton
  <2>4. IsFiniteSet({"geoip"} \cup {"threat_intel"}) /\ Cardinality({"geoip"} \cup {"threat_intel"}) <= 2
    BY <2>1, <2>3, 1 + 1 = 2
  <2> DEFINE A == {"geoip"} \cup {"threat_intel"}
  <2>5. IsFiniteSet(A) /\ Cardinality(A) <= 2
    BY <2>4
  <2> HIDE DEF A
  <2> DEFINE B == A \cup {"attack_tagger"}
  <2>6. IsFiniteSet(B) /\ Cardinality(B) <= 3
    BY <2>1, <2>5, 2 + 1 = 3
  <2> HIDE DEF B
  <2>7. IsFiniteSet(B \cup {"network_context"}) /\ Cardinality(B \cup {"network_context"}) <= 4
    BY <2>1, <2>6, 3 + 1 = 4
  <2>8. B \cup {"network_context"} = Enrichers
    BY DEF A, B, Enrichers
  <2> QED BY <2>7, <2>8
<1>3. IsFiniteSet(1..Calls) /\ Cardinality(1..Calls) = Calls
  BY <1>1, FS_Interval
<1>4. Chain \in Injection(1..Calls, Enrichers)
  BY <1>1, EnrAssumption DEF Injection, IsInjective
<1>5. Cardinality(1..Calls) <= Cardinality(Enrichers)
  BY <1>2, <1>3, <1>4, FS_Injection DEF ExistsInjection
<1>6. Calls <= 4
  BY <1>1, <1>2, <1>3, <1>5, FS_CardinalityType
<1> QED BY <1>1, <1>6 DEF Workers, Calls

LEMMA EnrStart == ASSUME EnrInit PROVE EnrInv
<1>1. HeldCounted /\ StarvedOnlyByEarlierCalls
  BY EnoughWorkers DEF EnrInit, HeldCounted, StarvedOnlyByEarlierCalls
<1>2. AnswersFit
  <2>1. /\ enrRecord \in Record0 /\ enrRecord.direction = enrRecord.mapped /\ enrRecord.location = {}
    BY EnrAssumption DEF EnrInit, Record0
  <2>2. merged = [x \in Enrichers |-> merged[x]] /\ \A e \in Enrichers : merged[e] = {}
    BY DEF EnrInit
  <2>3. answered = {} /\ enrAt = 1 /\ enrAt # Len(Chain) + 2
    BY EnoughWorkers DEF EnrInit, Calls
  <2> QED BY <2>1, <2>2, <2>3 DEF AnswersFit, DirectionFits, Enrichers
<1>3. StoreTypeOK
  BY DEF EnrInit, StoreTypeOK
<1>4. StoreFollows
  BY DEF EnrInit, StoreFollows, Queued, Explained
<1> QED BY <1>1, <1>2, <1>3, <1>4 DEF EnrInv

\* The steps of the chain do not touch the store, nor the store's the chain.
LEMMA StoreUntouched == ASSUME EnrInv, UNCHANGED storeVars PROVE StoreTypeOK' /\ StoreFollows'
BY DEF EnrInv, StoreTypeOK, StoreFollows, storeVars, Queued, LastFor, Explained
LEMMA ChainUntouched ==
  ASSUME EnrInv, UNCHANGED chainVars PROVE HeldCounted' /\ AnswersFit' /\ StarvedOnlyByEarlierCalls'
BY DEF EnrInv, HeldCounted, AnswersFit, DirectionFits, StarvedOnlyByEarlierCalls, chainVars, Located, InferDirection

\* What an enricher answers about a record the mapper left.
LEMMA AnswerFits ==
  ASSUME NEW e \in Enrichers, enrRecord \in Record0, enrRecord.direction = enrRecord.mapped
  PROVE  /\ e = "geoip" => Answer(e, enrRecord) \subseteq Located(enrRecord)
         /\ e = "network_context" => Answer(e, enrRecord) \subseteq {InferDirection(enrRecord)}
         /\ e = "attack_tagger" /\ enrRecord.mapped = "outbound" => "by_direction" \in Answer(e, enrRecord)
<1>1. CASE e = "geoip"
  BY <1>1 DEF Answer, Located, Roles
<1>2. CASE e = "network_context"
  <2>1. Answer(e, enrRecord) = {NetworkContext(enrRecord)} \ {NotYet}
    BY <1>2 DEF Answer
  <2>3. NetworkContext(enrRecord) \in {InferDirection(enrRecord), NotYet}
    BY DEF NetworkContext
  <2> QED BY <1>2, <2>1, <2>3
<1>3. CASE e = "threat_intel"
  BY <1>3
<1>4. CASE e = "attack_tagger"
  <2>1. Answer(e, enrRecord) = Tags(enrRecord)
    BY <1>4 DEF Answer
  <2>3. enrRecord.mapped = "outbound" => "by_direction" \in Tags(enrRecord)
    BY DEF Tags, RecordView
  <2> QED BY <1>4, <2>1, <2>3
<1> QED BY <1>1, <1>2, <1>3, <1>4 DEF Enrichers

LEMMA RunOneKeeps == ASSUME EnrInv, RunOne PROVE EnrInv'
<1>1. /\ enrAt \in 1..Calls /\ enrAt' = enrAt + 1 /\ enrRecord' = enrRecord /\ heldBefore' = heldBefore
      /\ Chain[enrAt] \in Enrichers /\ UNCHANGED storeVars
  BY EnrAssumption DEF RunOne, Calls
<1>2. /\ held \in Nat /\ heldBefore \in Nat /\ held <= heldBefore + (enrAt - 1) /\ Calls \in Nat /\ Calls <= Workers
  BY EnoughWorkers DEF EnrInv, HeldCounted
<1> DEFINE e == Chain[enrAt]
<1>3. \/ /\ merged' = [merged EXCEPT ![e] = Answer(e, enrRecord)]
         /\ answered' = answered \cup {e} /\ UNCHANGED <<skipped, held>>
      \/ UNCHANGED <<merged, answered, skipped, held>>
      \/ held' = held + 1 /\ UNCHANGED <<merged, answered, skipped>>
      \/ held >= Workers /\ skipped' = skipped \cup {e} /\ UNCHANGED <<merged, answered, held>>
  BY DEF RunOne
<1>4. HeldCounted'
  BY <1>1, <1>2, <1>3 DEF HeldCounted
<1>5. StarvedOnlyByEarlierCalls'
  <2>1. held >= Workers => heldBefore > 0
    BY <1>1, <1>2, EnoughWorkers DEF Workers, Calls
  <2> QED BY <1>1, <1>3, <2>1 DEF EnrInv, StarvedOnlyByEarlierCalls
<1>6. AnswersFit'
  <2>0. enrAt <= Calls + 1
    BY <1>1, <1>2
  <2>1. /\ enrRecord \in Record0 /\ merged = [x \in Enrichers |-> merged[x]]
        /\ enrRecord.direction = enrRecord.mapped /\ enrRecord.location = {}
        /\ merged["geoip"] \subseteq Located(enrRecord)
        /\ merged["network_context"] \subseteq {InferDirection(enrRecord)}
        /\ "attack_tagger" \in answered /\ enrRecord.mapped = "outbound" => "by_direction" \in merged["attack_tagger"]
    BY <2>0 DEF EnrInv, AnswersFit
  <2>2. /\ Located(enrRecord)' = Located(enrRecord) /\ InferDirection(enrRecord)' = InferDirection(enrRecord)
    BY <1>1 DEF Located, InferDirection
  <2>3. DirectionFits'
    <3>1. enrAt' # Len(Chain) + 2
      BY <1>1, <1>2 DEF Calls
    <3> QED BY <3>1 DEF DirectionFits
  <2>4. CASE merged' = merged /\ answered' = answered
    BY <1>1, <2>1, <2>2, <2>3, <2>4 DEF AnswersFit
  <2>5. CASE merged' = [merged EXCEPT ![e] = Answer(e, enrRecord)] /\ answered' = answered \cup {e}
    <3> HIDE DEF e
    <3>1. e \in Enrichers
      BY <1>1 DEF e
    <3>2. /\ e = "geoip" => Answer(e, enrRecord) \subseteq Located(enrRecord)
          /\ e = "network_context" => Answer(e, enrRecord) \subseteq {InferDirection(enrRecord)}
          /\ e = "attack_tagger" /\ enrRecord.mapped = "outbound" => "by_direction" \in Answer(e, enrRecord)
      BY <2>1, <3>1, AnswerFits
    <3>3. \A x \in Enrichers : merged'[x] = IF x = e THEN Answer(e, enrRecord) ELSE merged[x]
      BY <2>1, <2>5, <3>1
    <3>4. /\ merged' = [x \in Enrichers |-> merged'[x]]
      BY <2>1, <2>5, <3>1, <3>2
    <3>5. merged'["geoip"] \subseteq Located(enrRecord) /\ merged'["network_context"] \subseteq {InferDirection(enrRecord)}
      BY <2>1, <3>2, <3>3 DEF Enrichers
    <3>6. "attack_tagger" \in answered' /\ enrRecord.mapped = "outbound" => "by_direction" \in merged'["attack_tagger"]
      BY <2>1, <2>5, <3>2, <3>3 DEF Enrichers
    <3> QED BY <1>1, <2>1, <2>2, <2>3, <3>4, <3>5, <3>6 DEF AnswersFit
  <2> QED BY <1>3, <2>4, <2>5
<1> QED BY <1>1, <1>4, <1>5, <1>6, StoreUntouched DEF EnrInv

LEMMA PromoteKeeps == ASSUME EnrInv, Promote PROVE EnrInv'
<1>1. /\ enrAt = Calls + 1 /\ enrAt' = Calls + 2 /\ Calls \in Nat
      /\ enrRecord' = [enrRecord EXCEPT !.direction = PromoteDirection(enrRecord), !.location = PromoteGeo(enrRecord)]
      /\ UNCHANGED <<merged, answered, skipped, heldBefore, held, enriched, storeVars>>
  BY EnoughWorkers DEF Promote, Calls
<1>2. HeldCounted' /\ StarvedOnlyByEarlierCalls'
  BY <1>1 DEF EnrInv, HeldCounted, StarvedOnlyByEarlierCalls
<1>3. AnswersFit'
  <2>1. /\ enrRecord \in Record0 /\ merged = [x \in Enrichers |-> merged[x]]
        /\ enrRecord.direction = enrRecord.mapped /\ enrRecord.location = {}
        /\ merged["geoip"] \subseteq Located(enrRecord)
        /\ merged["network_context"] \subseteq {InferDirection(enrRecord)}
        /\ "attack_tagger" \in answered /\ enrRecord.mapped = "outbound" => "by_direction" \in merged["attack_tagger"]
    BY <1>1 DEF EnrInv, AnswersFit
  <2>2. PromoteGeo(enrRecord) \subseteq Located(enrRecord) /\ Located(enrRecord) \subseteq Roles
    BY <2>1 DEF PromoteGeo, Located
  <2>3. \/ PromoteDirection(enrRecord) = enrRecord.direction
        \/ /\ enrRecord.mapped = NotYet /\ PromoteDirection(enrRecord) \in {"inbound", "outbound"}
           /\ PromoteDirection(enrRecord) = InferDirection(enrRecord)
    <3>1. CASE enrRecord.direction # NotYet \/ Promotable = {}
      BY <3>1 DEF PromoteDirection
    <3>2. CASE enrRecord.direction = NotYet /\ Promotable # {}
      <4>1. PromoteDirection(enrRecord) \in Promotable
        BY <3>2 DEF PromoteDirection
      <4> QED BY <2>1, <3>2, <4>1 DEF Promotable
    <3> QED BY <3>1, <3>2
  <2>4. /\ enrRecord'.src = enrRecord.src /\ enrRecord'.dst = enrRecord.dst /\ enrRecord'.mapped = enrRecord.mapped
        /\ enrRecord'.direction = PromoteDirection(enrRecord) /\ enrRecord'.location = PromoteGeo(enrRecord)
        /\ enrRecord' \in Record0
    <3>1. PromoteDirection(enrRecord) \in STRING \cup {"inbound", "outbound"}
      BY <2>1, <2>3 DEF Record0
    <3>2. PromoteGeo(enrRecord) \in SUBSET Roles
      BY <2>2
    <3> QED BY <1>1, <2>1, <3>1, <3>2 DEF Record0
  <2>5. Located(enrRecord)' = Located(enrRecord) /\ InferDirection(enrRecord)' = InferDirection(enrRecord)
    <3>1. \A r \in Roles : enrRecord'[r] = enrRecord[r]
      BY <2>4 DEF Roles
    <3> QED BY <2>4, <3>1 DEF Located, InferDirection
  <2>6. "src" \in PromoteGeo(enrRecord) => InferDirection(enrRecord) # "outbound"
    <3>1. "src" \in PromoteGeo(enrRecord) => enrRecord.src.kind = "public"
      BY <2>2 DEF Located
    <3> QED BY <3>1 DEF InferDirection, Scope, NotYet
  <2>7. DirectionFits' /\ (enrRecord.mapped # NotYet => enrRecord.direction = enrRecord.mapped)'
    BY <2>1, <2>3, <2>4, <2>6 DEF DirectionFits, NotYet
  <2>8. ~(enrAt' <= Calls + 1)
    BY <1>1
  <2> QED BY <1>1, <2>1, <2>4, <2>5, <2>7, <2>8 DEF AnswersFit
<1> QED BY <1>1, <1>2, <1>3, StoreUntouched DEF EnrInv

LEMMA PassThroughKeeps == ASSUME EnrInv, PassThrough PROVE EnrInv'
<1>1. /\ enrAt = 1 /\ enrAt' = Calls + 2 /\ Calls \in Nat
      /\ UNCHANGED <<enrRecord, merged, answered, skipped, heldBefore, held, enriched, storeVars>>
  BY EnoughWorkers DEF PassThrough, Calls
<1>2. HeldCounted' /\ StarvedOnlyByEarlierCalls'
  BY <1>1 DEF EnrInv, HeldCounted, StarvedOnlyByEarlierCalls
<1>3. AnswersFit'
  <2>1. enrRecord.direction = enrRecord.mapped /\ enrRecord.location = {}
    BY <1>1 DEF EnrInv, AnswersFit
  <2>2. ~(enrAt' <= Calls + 1)
    BY <1>1
  <2>3. DirectionFits'
    BY <1>1, <2>1 DEF DirectionFits, NotYet
  <2> QED BY <1>1, <2>1, <2>2, <2>3 DEF EnrInv, AnswersFit, Located, InferDirection
<1> QED BY <1>1, <1>2, <1>3, StoreUntouched DEF EnrInv

LEMMA NextRecordKeeps == ASSUME EnrInv, NextRecord PROVE EnrInv'
<1>1. /\ enrAt' = 1 /\ Calls \in Nat /\ enrRecord' \in EnrRecords /\ merged' = [e \in DOMAIN merged |-> {}]
      /\ answered' = {} /\ skipped' = {} /\ heldBefore' = held /\ held' = held /\ UNCHANGED storeVars
  BY EnoughWorkers DEF NextRecord
<1>2. HeldCounted' /\ StarvedOnlyByEarlierCalls'
  BY <1>1 DEF EnrInv, HeldCounted, StarvedOnlyByEarlierCalls
<1>3. AnswersFit'
  <2>1. enrRecord' \in Record0 /\ enrRecord'.direction = enrRecord'.mapped /\ enrRecord'.location = {}
    BY <1>1, EnrAssumption DEF Record0
  <2>2. DOMAIN merged = Enrichers
    BY DEF EnrInv, AnswersFit
  <2>3. merged' = [x \in Enrichers |-> merged'[x]] /\ \A x \in Enrichers : merged'[x] = {}
    BY <1>1, <2>2
  <2>4. enrAt' # Len(Chain) + 2
    BY <1>1 DEF Calls
  <2>5. DirectionFits'
    BY <2>4 DEF DirectionFits
  <2> QED BY <1>1, <2>1, <2>3, <2>5 DEF AnswersFit, Enrichers
<1> QED BY <1>1, <1>2, <1>3, StoreUntouched DEF EnrInv

LEMMA HungReturnsKeeps == ASSUME EnrInv, HungReturns PROVE EnrInv'
<1>1. HeldCounted' /\ StarvedOnlyByEarlierCalls'
  BY DEF EnrInv, HungReturns, HeldCounted, StarvedOnlyByEarlierCalls
<1>2. AnswersFit'
  BY DEF EnrInv, HungReturns, AnswersFit, DirectionFits, Located, InferDirection
<1> QED BY <1>1, <1>2, StoreUntouched DEF EnrInv, HungReturns

LEMMA AppendIoc ==
  ASSUME NEW S, NEW q \in Seq(S), NEW x \in S
  PROVE  /\ Append(q, x) \in Seq(S) /\ Len(Append(q, x)) = Len(q) + 1 /\ Len(q) \in Nat
         /\ DOMAIN q = 1..Len(q) /\ DOMAIN Append(q, x) = 1..(Len(q) + 1)
         /\ \A k \in 1..Len(q) : Append(q, x)[k] = q[k]
         /\ Append(q, x)[Len(q) + 1] = x
OBVIOUS

\* A notification about q: it is the last one for q, and the others are as before.
LEMMA ToldFacts ==
  ASSUME EnrInv, watching, NEW q \in IocPaths, NEW kind \in {"changed", "deleted"},
         iocEvents' = Append(iocEvents, [kind |-> kind, path |-> q])
  PROVE  /\ iocEvents' \in Seq([kind : {"changed", "deleted"}, path : IocPaths])
         /\ Queued(q)' # {}
         /\ \A k : LastFor(k, q)' => iocEvents'[k].kind = kind
         /\ \A p \in IocPaths \ {q} : Queued(p)' = Queued(p)
         /\ \A p \in IocPaths \ {q} : \A k \in DOMAIN iocEvents' : LastFor(k, p)' =>
              k \in DOMAIN iocEvents /\ LastFor(k, p) /\ iocEvents'[k] = iocEvents[k]
<1> DEFINE n == [kind |-> kind, path |-> q]
           E == [kind : {"changed", "deleted"}, path : IocPaths]
<1>1. n \in E /\ iocEvents \in Seq(E)
  BY DEF EnrInv, StoreTypeOK
<1>2. /\ iocEvents' \in Seq(E) /\ Len(iocEvents) \in Nat /\ DOMAIN iocEvents = 1..Len(iocEvents)
      /\ DOMAIN iocEvents' = 1..(Len(iocEvents) + 1)
      /\ \A k \in 1..Len(iocEvents) : iocEvents'[k] = iocEvents[k]
      /\ iocEvents'[Len(iocEvents) + 1] = n
  BY <1>1, AppendIoc
<1>3. Len(iocEvents) + 1 \in Queued(q)'
  BY <1>2 DEF Queued
<1>4. \A k : LastFor(k, q)' => k = Len(iocEvents) + 1
  BY <1>2, <1>3 DEF LastFor, Queued
<1>5. \A p \in IocPaths \ {q} : Queued(p)' = Queued(p)
  <2>1. SUFFICES ASSUME NEW p \in IocPaths \ {q}, NEW k PROVE k \in Queued(p)' <=> k \in Queued(p)
    OBVIOUS
  <2>2. CASE k \in 1..Len(iocEvents)
    BY <1>2, <2>2 DEF Queued
  <2>3. CASE k = Len(iocEvents) + 1
    BY <1>2, <2>3 DEF Queued
  <2> QED BY <1>2, <2>2, <2>3 DEF Queued
<1>6. \A p \in IocPaths \ {q} : \A k \in DOMAIN iocEvents' : LastFor(k, p)' =>
              k \in DOMAIN iocEvents /\ LastFor(k, p) /\ iocEvents'[k] = iocEvents[k]
  BY <1>2, <1>5 DEF LastFor, Queued
<1> QED BY <1>2, <1>3, <1>4, <1>5, <1>6

LEMMA ChangeFileKeeps == ASSUME EnrInv, NEW p \in IocPaths, ChangeFile(p) PROVE EnrInv'
<1>0. /\ UNCHANGED <<chainVars, iocLoaded, watching>> /\ iocChanges' = iocChanges + 1
      /\ StoreTypeOK /\ StoreFollows
  BY DEF ChangeFile, EnrInv
<1> DEFINE E == [kind : {"changed", "deleted"}, path : IocPaths]
<1>1. ASSUME NEW q \in IocPaths, NEW kind \in {"changed", "deleted"}, Told([kind |-> kind, path |-> q])
      PROVE  iocEvents' \in Seq(E)
  <2>1. [kind |-> kind, path |-> q] \in E
    OBVIOUS
  <2> QED BY <1>0, <1>1, <2>1, AppendIoc DEF Told, StoreTypeOK
<1>2. CASE \E text \in {"good", "bad"} :
          /\ iocFiles' = [iocFiles EXCEPT ![p] = text] /\ iocVersion' = [iocVersion EXCEPT ![p] = iocChanges + 2]
          /\ Told([kind |-> "changed", path |-> p]) /\ UNCHANGED iocMoved
  <2>1. PICK text \in {"good", "bad"} :
          /\ iocFiles' = [iocFiles EXCEPT ![p] = text] /\ iocVersion' = [iocVersion EXCEPT ![p] = iocChanges + 2]
          /\ Told([kind |-> "changed", path |-> p]) /\ UNCHANGED iocMoved
    BY <1>2
  <2>e. iocEvents' \in Seq(E)
    BY <1>1, <2>1
  <2>2. StoreTypeOK'
    BY <1>0, <2>1, <2>e DEF StoreTypeOK
  <2>3. ASSUME watching, NEW x \in IocPaths
        PROVE  /\ Queued(x)' = {} => Explained(x)'
               /\ \A k \in DOMAIN iocEvents' : LastFor(k, x)' =>
                    /\ iocFiles'[x] = "gone" /\ x \notin iocMoved' => iocEvents'[k].kind = "deleted"
                    /\ iocEvents'[k].kind = "deleted" => iocFiles'[x] = "gone"
    <3>1. iocEvents' = Append(iocEvents, [kind |-> "changed", path |-> p])
      BY <2>1, <2>3 DEF Told
    <3>2. CASE x = p
      BY <1>0, <2>1, <2>3, <3>1, <3>2, ToldFacts DEF StoreTypeOK
    <3>3. CASE x # p
      <4>1. iocFiles'[x] = iocFiles[x] /\ iocVersion'[x] = iocVersion[x] /\ iocLoaded' = iocLoaded
        BY <1>0, <2>1, <3>3 DEF StoreTypeOK
      <4>2. /\ Queued(x)' = Queued(x)
            /\ \A k \in DOMAIN iocEvents' : LastFor(k, x)' =>
                 k \in DOMAIN iocEvents /\ LastFor(k, x) /\ iocEvents'[k] = iocEvents[k]
        BY <2>3, <3>1, <3>3, ToldFacts
      <4> QED BY <1>0, <2>1, <2>3, <4>1, <4>2 DEF StoreFollows, Explained
    <3> QED BY <3>2, <3>3
  <2> QED BY <1>0, <2>2, <2>3, ChainUntouched DEF EnrInv, StoreFollows
<1>3. CASE /\ iocFiles[p] # "gone" /\ iocFiles' = [iocFiles EXCEPT ![p] = "gone"]
           /\ Told([kind |-> "deleted", path |-> p]) /\ UNCHANGED <<iocVersion, iocMoved>>
  <2>e. iocEvents' \in Seq(E)
    BY <1>1, <1>3
  <2>2. StoreTypeOK'
    BY <1>0, <1>3, <2>e DEF StoreTypeOK
  <2>3. ASSUME watching, NEW x \in IocPaths
        PROVE  /\ Queued(x)' = {} => Explained(x)'
               /\ \A k \in DOMAIN iocEvents' : LastFor(k, x)' =>
                    /\ iocFiles'[x] = "gone" /\ x \notin iocMoved' => iocEvents'[k].kind = "deleted"
                    /\ iocEvents'[k].kind = "deleted" => iocFiles'[x] = "gone"
    <3>1. iocEvents' = Append(iocEvents, [kind |-> "deleted", path |-> p])
      BY <1>3, <2>3 DEF Told
    <3>2. CASE x = p
      BY <1>0, <1>3, <2>3, <3>1, <3>2, ToldFacts DEF StoreTypeOK
    <3>3. CASE x # p
      <4>1. iocFiles'[x] = iocFiles[x] /\ iocVersion'[x] = iocVersion[x] /\ iocLoaded' = iocLoaded
        BY <1>0, <1>3, <3>3 DEF StoreTypeOK
      <4>2. /\ Queued(x)' = Queued(x)
            /\ \A k \in DOMAIN iocEvents' : LastFor(k, x)' =>
                 k \in DOMAIN iocEvents /\ LastFor(k, x) /\ iocEvents'[k] = iocEvents[k]
        BY <2>3, <3>1, <3>3, ToldFacts
      <4> QED BY <1>0, <1>3, <2>3, <4>1, <4>2 DEF StoreFollows, Explained
    <3> QED BY <3>2, <3>3
  <2> QED BY <1>0, <2>2, <2>3, ChainUntouched DEF EnrInv, StoreFollows
<1>4. CASE \E q \in IocPaths \ {p} :
          /\ iocFiles[p] # "gone" /\ iocFiles' = [iocFiles EXCEPT ![p] = "gone", ![q] = iocFiles[p]]
          /\ iocVersion' = [iocVersion EXCEPT ![q] = iocVersion[p]]
          /\ Told([kind |-> "changed", path |-> q]) /\ iocMoved' = iocMoved \cup {p}
  <2>1. PICK q \in IocPaths \ {p} :
          /\ iocFiles[p] # "gone" /\ iocFiles' = [iocFiles EXCEPT ![p] = "gone", ![q] = iocFiles[p]]
          /\ iocVersion' = [iocVersion EXCEPT ![q] = iocVersion[p]]
          /\ Told([kind |-> "changed", path |-> q]) /\ iocMoved' = iocMoved \cup {p}
    BY <1>4
  <2>e. iocEvents' \in Seq(E)
    BY <1>1, <2>1
  <2>f. iocFiles' \in [IocPaths -> {"good", "bad", "gone"}]
    BY <1>0, <2>1 DEF StoreTypeOK
  <2>v. iocVersion' \in [IocPaths -> Nat \ {0}]
    BY <1>0, <2>1 DEF StoreTypeOK
  <2>2. StoreTypeOK'
    BY <1>0, <2>e, <2>f, <2>v DEF StoreTypeOK
  <2>3. ASSUME watching, NEW x \in IocPaths
        PROVE  /\ Queued(x)' = {} => Explained(x)'
               /\ \A k \in DOMAIN iocEvents' : LastFor(k, x)' =>
                    /\ iocFiles'[x] = "gone" /\ x \notin iocMoved' => iocEvents'[k].kind = "deleted"
                    /\ iocEvents'[k].kind = "deleted" => iocFiles'[x] = "gone"
    <3>1. iocEvents' = Append(iocEvents, [kind |-> "changed", path |-> q])
      BY <2>1, <2>3 DEF Told
    <3>2. CASE x = q
      BY <1>0, <2>1, <2>3, <3>1, <3>2, ToldFacts DEF StoreTypeOK
    <3>3. CASE x # q
      <4>1. /\ x # p => iocFiles'[x] = iocFiles[x]
            /\ x = p => iocFiles'[x] = "gone" /\ x \in iocMoved'
            /\ iocVersion'[x] = iocVersion[x] /\ iocLoaded' = iocLoaded /\ iocMoved \subseteq iocMoved'
        BY <1>0, <2>1, <3>3 DEF StoreTypeOK
      <4>2. /\ Queued(x)' = Queued(x)
            /\ \A k \in DOMAIN iocEvents' : LastFor(k, x)' =>
                 k \in DOMAIN iocEvents /\ LastFor(k, x) /\ iocEvents'[k] = iocEvents[k]
        BY <2>3, <3>1, <3>3, ToldFacts
      <4> QED BY <1>0, <2>3, <4>1, <4>2 DEF StoreFollows, Explained
    <3> QED BY <3>2, <3>3
  <2> QED BY <1>0, <2>2, <2>3, ChainUntouched DEF EnrInv, StoreFollows
<1> QED BY <1>2, <1>3, <1>4 DEF ChangeFile

LEMMA HandleIocKeeps ==
  ASSUME EnrInv, HandleIoc
  PROVE  /\ EnrInv'
         /\ \A p \in IocPaths : iocLoaded[p] > 0 /\ iocLoaded'[p] = 0 =>
              Head(iocEvents).kind = "deleted" /\ Head(iocEvents).path = p
<1> DEFINE E == [kind : {"changed", "deleted"}, path : IocPaths]
           e == Head(iocEvents)
<1>0. StoreTypeOK /\ StoreFollows /\ UNCHANGED <<chainVars, iocFiles, iocVersion, iocMoved, watching, iocChanges>>
  BY DEF EnrInv, HandleIoc
<1>1. /\ iocEvents \in Seq(E) /\ iocEvents' \in Seq(E) /\ e = iocEvents[1]
      /\ Len(iocEvents) \in Nat /\ Len(iocEvents) >= 1
      /\ DOMAIN iocEvents = 1..Len(iocEvents) /\ DOMAIN iocEvents' = 1..(Len(iocEvents) - 1)
      /\ \A k \in 1..(Len(iocEvents) - 1) : iocEvents'[k] = iocEvents[k + 1]
  <2>1. iocEvents \in Seq(E) /\ iocEvents # <<>> /\ iocEvents' = Tail(iocEvents)
    BY <1>0 DEF HandleIoc, StoreTypeOK
  <2> QED BY <2>1
<1>2. e \in E
  <2>1. 1 \in 1..Len(iocEvents)
    BY <1>1
  <2>2. ASSUME NEW S, NEW s \in Seq(S), NEW i \in 1..Len(s) PROVE s[i] \in S
    OBVIOUS
  <2> HIDE DEF E
  <2> QED BY <2>1, <2>2, <1>1
<1>3. iocLoaded' = [iocLoaded EXCEPT ![e.path] = IF e.kind = "deleted" THEN 0 ELSE Reread(e.path)]
  BY DEF HandleIoc
<1> HIDE DEF e
<1>4. e.path \in IocPaths /\ e.kind \in {"changed", "deleted"}
  BY <1>2
<1>5. \A p \in IocPaths : /\ p = e.path => iocLoaded'[p] = IF e.kind = "deleted" THEN 0 ELSE Reread(p)
                          /\ p # e.path => iocLoaded'[p] = iocLoaded[p]
  BY <1>0, <1>3, <1>4 DEF StoreTypeOK
<1>6. \A p \in IocPaths : Reread(p) = (IF iocFiles[p] = "good" THEN iocVersion[p] ELSE iocLoaded[p]) /\ Reread(p) \in Nat
  BY <1>0 DEF Reread, StoreTypeOK
<1>7. StoreTypeOK'
  <2>1. iocLoaded' \in [IocPaths -> Nat]
    BY <1>0, <1>3, <1>4, <1>6 DEF StoreTypeOK
  <2> QED BY <1>0, <1>1, <2>1 DEF StoreTypeOK
<1>8. ASSUME NEW p \in IocPaths, NEW k \in DOMAIN iocEvents', LastFor(k, p)'
      PROVE  k + 1 \in DOMAIN iocEvents /\ LastFor(k + 1, p) /\ iocEvents'[k] = iocEvents[k + 1]
  <2>1. k \in 1..(Len(iocEvents) - 1) /\ iocEvents'[k].path = p /\ \A j \in Queued(p)' : j <= k
    BY <1>1, <1>8 DEF LastFor, Queued
  <2>2. k + 1 \in DOMAIN iocEvents /\ iocEvents'[k] = iocEvents[k + 1]
    BY <1>1, <2>1
  <2>3. ASSUME NEW j \in Queued(p) PROVE j <= k + 1
    <3>1. j \in 1..Len(iocEvents) /\ iocEvents[j].path = p
      BY <1>1 DEF Queued
    <3>2. CASE j = 1
      BY <2>1, <3>2
    <3>3. CASE j # 1
      <4>1. j - 1 \in 1..(Len(iocEvents) - 1) /\ iocEvents'[j - 1] = iocEvents[(j - 1) + 1] /\ (j - 1) + 1 = j
        BY <1>1, <3>1, <3>3
      <4>2. j - 1 \in Queued(p)'
        BY <1>1, <3>1, <4>1 DEF Queued
      <4> QED BY <2>1, <3>1, <4>2
    <3> QED BY <3>2, <3>3
  <2> QED BY <2>1, <2>2, <2>3 DEF LastFor, Queued
<1>9. ASSUME watching, NEW p \in IocPaths, Queued(p)' = {}
      PROVE  Explained(p)'
  <2>1. \A j \in Queued(p) : j = 1
    <3>1. SUFFICES ASSUME NEW j \in Queued(p), j # 1 PROVE FALSE
      OBVIOUS
    <3>2. j - 1 \in 1..(Len(iocEvents) - 1) /\ iocEvents'[j - 1] = iocEvents[(j - 1) + 1] /\ (j - 1) + 1 = j
      BY <1>1, <3>1 DEF Queued
    <3>3. j - 1 \in Queued(p)'
      BY <1>1, <3>1, <3>2 DEF Queued
    <3> QED BY <1>9, <3>3
  <2>2. CASE p = e.path
    <3>1. LastFor(1, p) /\ 1 \in DOMAIN iocEvents /\ iocEvents[1] = e
      BY <1>1, <2>1, <2>2 DEF LastFor, Queued
    <3>2. /\ iocFiles[p] = "gone" /\ p \notin iocMoved => e.kind = "deleted"
          /\ e.kind = "deleted" => iocFiles[p] = "gone"
      BY <1>0, <1>9, <3>1 DEF StoreFollows
    <3>3. iocFiles[p] \in {"good", "bad", "gone"}
      BY <1>0 DEF StoreTypeOK
    <3> QED BY <1>0, <1>5, <1>6, <2>2, <3>2, <3>3 DEF Explained
  <2>3. CASE p # e.path
    <3>1. Queued(p) = {}
      BY <1>1, <2>1, <2>3 DEF Queued
    <3> QED BY <1>0, <1>5, <1>9, <2>3, <3>1 DEF StoreFollows, Explained
  <2> QED BY <2>2, <2>3
<1>10. StoreFollows'
  <2>1. ASSUME watching, NEW p \in IocPaths, NEW k \in DOMAIN iocEvents', LastFor(k, p)'
        PROVE  /\ iocFiles'[p] = "gone" /\ p \notin iocMoved' => iocEvents'[k].kind = "deleted"
               /\ iocEvents'[k].kind = "deleted" => iocFiles'[p] = "gone"
    BY <1>0, <1>8, <2>1 DEF StoreFollows
  <2> QED BY <1>0, <1>9, <2>1 DEF StoreFollows
<1>11. ASSUME NEW p \in IocPaths, iocLoaded[p] > 0, iocLoaded'[p] = 0
       PROVE  e.kind = "deleted" /\ e.path = p
  <2>1. iocVersion[p] \in Nat \ {0} /\ iocLoaded[p] \in Nat
    BY <1>0 DEF StoreTypeOK
  <2> QED BY <1>5, <1>6, <1>11, <2>1
<1> QED BY <1>0, <1>7, <1>10, <1>11, ChainUntouched DEF EnrInv, e

LEMMA EnrStep ==
  ASSUME EnrInv, [EnrNext]_enrVars
  PROVE  /\ EnrInv'
         /\ [\A p \in IocPaths : iocLoaded[p] > 0 /\ iocLoaded'[p] = 0 =>
               Head(iocEvents).kind = "deleted" /\ Head(iocEvents).path = p]_iocLoaded
<1>1. CASE RunOne
  BY <1>1, RunOneKeeps DEF RunOne, storeVars
<1>2. CASE PassThrough
  BY <1>2, PassThroughKeeps DEF PassThrough, storeVars
<1>3. CASE HungReturns
  BY <1>3, HungReturnsKeeps DEF HungReturns, storeVars
<1>4. CASE Promote
  BY <1>4, PromoteKeeps DEF Promote, storeVars
<1>5. CASE NextRecord
  BY <1>5, NextRecordKeeps DEF NextRecord, storeVars
<1>6. CASE HandleIoc
  BY <1>6, HandleIocKeeps
<1>7. CASE \E p \in IocPaths : ChangeFile(p)
  BY <1>7, ChangeFileKeeps DEF ChangeFile
<1>8. CASE UNCHANGED enrVars
  BY <1>8, ChainUntouched, StoreUntouched DEF enrVars, storeVars, EnrInv
<1> QED BY <1>1, <1>2, <1>3, <1>4, <1>5, <1>6, <1>7, <1>8 DEF EnrNext

LEMMA EnrInvHolds ==
  ASSUME EnrInv
  PROVE  StarvedOnlyByEarlierCalls /\ DirectionFits /\ TagsMissOnlyInferred /\ LoadedIsExplained
<1>1. StarvedOnlyByEarlierCalls /\ DirectionFits
  BY DEF EnrInv, AnswersFit
<1>2. TagsMissOnlyInferred
  BY DEF EnrInv, AnswersFit, TagsMissOnlyInferred
<1>3. LoadedIsExplained
  <2>1. SUFFICES ASSUME watching, iocEvents = <<>>, NEW p \in IocPaths PROVE Explained(p)
    BY DEF LoadedIsExplained, Explained
  <2>2. Queued(p) = {}
    BY <2>1 DEF Queued
  <2> QED BY <2>1, <2>2 DEF EnrInv, StoreFollows
<1> QED BY <1>1, <1>2, <1>3

\* The enrichment stage for every chain of enrichers, every set of records and any number of
\* indicator files: hung calls starve only later events, the direction fits, rules miss only
\* what was inferred, the watcher catches up, and only a deletion unloads indicators.
THEOREM EnrichmentIsSafe == EnrSpec => EnrichmentHolds
<1>1. EnrInit => EnrInv
  BY EnrStart
<1>2. EnrInv /\ [EnrNext]_enrVars => EnrInv'
  BY EnrStep
<1>3. EnrInv /\ [EnrNext]_enrVars =>
        [\A p \in IocPaths : iocLoaded[p] > 0 /\ iocLoaded'[p] = 0 =>
           Head(iocEvents).kind = "deleted" /\ Head(iocEvents).path = p]_iocLoaded
  BY EnrStep
<1>4. EnrInv => StarvedOnlyByEarlierCalls /\ DirectionFits /\ TagsMissOnlyInferred /\ LoadedIsExplained
  BY EnrInvHolds
<1> QED BY <1>1, <1>2, <1>3, <1>4, PTL DEF EnrSpec, EnrichmentHolds, OnlyDeletionUnloads

(***************************************************************************)
(* EventQuery.  EqInv relates a walk over pages to the table under it: a   *)
(* row that matched at the start was shown or has at least as many newer   *)
(* rows as the next offset, a row shown has fewer unless a newer one       *)
(* landed, and the totals agree while nothing lands.                       *)
(***************************************************************************)
\* Integer division by a positive number, as the bounds a bucket start needs.
LEMMA DivFacts ==
  ASSUME NEW t \in Nat, NEW i \in Nat \ {0}
  PROVE  /\ t \div i \in Nat /\ (t \div i) * i <= t /\ t < (t \div i) * i + i
         /\ (t \div i) * i \in Nat
<1>1. t = i * (t \div i) + (t % i) /\ 0 <= t % i /\ t % i < i /\ t \div i \in Int /\ t % i \in Int
  OBVIOUS
<1> DEFINE q == t \div i
<1> HIDE DEF q
<1>2. q \in Int /\ i * q <= t /\ t < i * q + i
  BY <1>1 DEF q
<1>3. q >= 0
  <2>1. ASSUME q <= -1 PROVE FALSE
    <3>1. i * q <= -i
      BY <1>2, <2>1
    <3> QED
      BY <1>2, <3>1
  <2> QED
    BY <1>2, <2>1
<1>4. i * q = q * i /\ q * i \in Nat
  BY <1>2, <1>3
<1> QED
  BY <1>2, <1>3, <1>4 DEF q

\* A window of whole intervals starts at a bucket no later than that of a row inside it.
LEMMA Aligned ==
  ASSUME NEW t \in Nat, NEW n \in Nat, NEW i \in Nat \ {0}, NEW w \in Nat, w % i = 0, t >= n - w
  PROVE  BucketStart(t, i) >= BucketStart(n, i) - w
<1> DEFINE a == t \div i
           b == n \div i
           k == w \div i
<1>1. a \in Nat /\ t < a * i + i
  BY DivFacts
<1>2. b \in Nat /\ b * i <= n
  BY DivFacts
<1>3. k \in Nat /\ w = k * i
  <2>1. w = i * (w \div i) + (w % i)
    OBVIOUS
  <2>2. k \in Nat
    BY DivFacts
  <2> HIDE DEF k
  <2>3. w = i * k
    BY <2>1 DEF k
  <2> QED
    BY <2>2, <2>3
<1> HIDE DEF a, b, k
<1>4. a >= b - k
  <2>1. ASSUME a <= b - k - 1 PROVE FALSE
    <3>1. a * i <= (b - k - 1) * i
      BY <1>1, <1>2, <1>3, <2>1
    <3>2. (b - k - 1) * i = b * i - k * i - i
      BY <1>2, <1>3
    <3>3. a * i \in Int /\ b * i \in Int /\ k * i \in Int
      BY <1>1, <1>2, <1>3
    <3> QED
      BY <1>1, <1>2, <1>3, <3>1, <3>2, <3>3
  <2> QED
    BY <1>1, <1>2, <1>3, <2>1
<1>5. a * i >= (b - k) * i
  BY <1>1, <1>2, <1>3, <1>4
<1>6. (b - k) * i = b * i - k * i
  BY <1>2, <1>3
<1> QED
  BY <1>3, <1>5, <1>6 DEF BucketStart, a, b

Newer(b, S, e) == {x \in S : TimeOf(b, x) > TimeOf(b, e)}
NewerThan(S, e) == {x \in S : x.time > e.time}

\* A set of naturals that is not empty has a least member.
LEMMA LeastNat ==
  ASSUME NEW T, T \subseteq Nat, T # {}
  PROVE  \E x \in T : \A y \in T : x <= y
<1>1. PICK x \in T : \A y \in T : ~(<<y, x>> \in OpToRel(<, Nat))
  BY NatLessThanWellFounded, WFMin
<1>2. \A y \in T : ~(y < x)
  BY <1>1 DEF OpToRel
<1> QED
  BY <1>2

\* A finite set of rows that is not empty has a newest one.
LEMMA NewestExists ==
  ASSUME NEW S, IsFiniteSet(S), S # {}, \A e \in S : e.time \in Nat
  PROVE  \E e \in S : \A x \in S : x.time <= e.time
<1> DEFINE T == {Cardinality(NewerThan(S, e)) : e \in S}
<1>1. \A e \in S : IsFiniteSet(NewerThan(S, e)) /\ Cardinality(NewerThan(S, e)) \in Nat
  <2>1. \A e \in S : NewerThan(S, e) \subseteq S
    BY DEF NewerThan
  <2> QED
    BY <2>1, FS_Subset, FS_CardinalityType
<1>2. T \subseteq Nat /\ T # {}
  BY <1>1
<1>3. PICK n \in T : \A y \in T : n <= y
  BY <1>2, LeastNat
<1>4. PICK e \in S : n = Cardinality(NewerThan(S, e))
  BY <1>3
<1>5. ASSUME NEW x \in S, x.time > e.time  PROVE FALSE
  <2>1. NewerThan(S, x) \subseteq NewerThan(S, e) /\ x \in NewerThan(S, e) /\ x \notin NewerThan(S, x)
    BY <1>5 DEF NewerThan
  <2>2. Cardinality(NewerThan(S, x)) <= n /\ Cardinality(NewerThan(S, x)) # n
    BY <1>1, <1>4, <2>1, FS_Subset
  <2>3. n <= Cardinality(NewerThan(S, x))
    BY <1>3
  <2> QED
    BY <1>1, <1>4, <2>2, <2>3
<1> QED
  BY <1>5

\* The lake's series holds a bucket for every row inside its window (SeriesCoversWindow).
LEMMA SeriesCovers ==
  ASSUME landed \subseteq QEvents, IsFiniteSet(landed)
  PROVE  SeriesCoversWindow
<1> SUFFICES ASSUME NEW s \in QSpans, s[2] % s[1] = 0, Timed(landed) # {}
             PROVE  LET newest == Newest(landed).time IN
                    /\ {e \in Timed(landed) : e.time >= newest - s[2]} \subseteq LakeSeries(landed, s[1], s[2])
                    /\ Timed(ChSeries(landed, s[1], s[2], newest)) \subseteq LakeSeries(landed, s[1], s[2])
  BY DEF SeriesCoversWindow
<1>1. s[1] \in Nat \ {0} /\ s[2] \in Nat
  BY EqAssumption
<1>2. \A e \in landed : e.time \in Nat
  BY EqAssumption
<1>3. IsFiniteSet(Timed(landed)) /\ Timed(landed) \subseteq landed
  BY FS_Subset DEF Timed
<1>4. \E e \in Timed(landed) : \A x \in Timed(landed) : x.time <= e.time
  BY <1>2, <1>3, NewestExists
<1>5. Newest(landed) \in Timed(landed)
  BY <1>4 DEF Newest
<1> DEFINE n == Newest(landed).time
<1>6. n \in Nat
  BY <1>2, <1>3, <1>5
<1> HIDE DEF n
<1>7. ASSUME NEW e \in Timed(landed), e.time >= n - s[2]
      PROVE  e \in LakeSeries(landed, s[1], s[2])
  <2>1. e.time \in Nat
    BY <1>2, <1>3
  <2>2. BucketStart(e.time, s[1]) >= BucketStart(n, s[1]) - s[2]
    BY <1>1, <1>6, <1>7, <2>1, Aligned
  <2> QED
    BY <2>2 DEF LakeSeries, n
<1>8. ASSUME NEW e \in Timed(ChSeries(landed, s[1], s[2], n))
      PROVE  e \in Timed(landed) /\ e.time >= n - s[2]
  BY DEF Timed, ChSeries, TimeOf
<1> QED
  BY <1>7, <1>8 DEF n

\* The lake and ClickHouse answer a filter alike.
LEMMA Agree == BackendsAgree
BY DEF BackendsAgree, Matches, LakeWhere, ChWhere, TimeOf

\* An order of the matching rows shows each of them, and only them.
LEMMA OrderShape ==
  ASSUME NEW b, NEW S, IsFiniteSet(S), NEW s \in Orders(b, S)
  PROVE  /\ s \in Seq(S) /\ Len(s) = Cardinality(S) /\ Cardinality(S) \in Nat
         /\ \A x \in S : \E k \in 1..Len(s) : s[k] = x
         /\ \A i, j \in 1..Len(s) : s[i] = s[j] => i = j
         /\ \A i, j \in 1..Len(s) : i < j => TimeOf(b, s[i]) >= TimeOf(b, s[j])
<1> DEFINE N == Cardinality(S)
<1>1. N \in Nat
  BY FS_CardinalityType
<1>2. /\ s \in [1..N -> S] /\ Range(s) = S
      /\ \A i, j \in DOMAIN s : i < j => TimeOf(b, s[i]) >= TimeOf(b, s[j])
  BY DEF Orders
<1>3. Cardinality(S) = N
  OBVIOUS
<1> HIDE DEF N
<1>4. s \in Seq(S) /\ Len(s) = N /\ DOMAIN s = 1..N
  BY <1>1, <1>2
<1>5. \A x \in S : \E k \in 1..N : s[k] = x
  BY <1>2 DEF Range
<1>6. \A i, j \in 1..N : s[i] = s[j] => i = j
  <2>1. s \in Surjection(1..N, S)
    BY <1>2, <1>5 DEF Surjection
  <2>2. IsFiniteSet(1..N) /\ Cardinality(1..N) = N
    BY <1>1, FS_Interval
  <2>3. s \in Injection(1..N, S)
    BY <1>3, <2>1, <2>2, FS_Surjection
  <2> QED
    BY <2>3 DEF Injection, IsInjective
<1> QED
  BY <1>1, <1>2, <1>3, <1>4, <1>5, <1>6

\* In an order of rows with different times, a row stands behind the rows newer than it.
LEMMA OrderRanks ==
  ASSUME NEW b, NEW S, IsFiniteSet(S), S \subseteq QEvents, NEW s \in Orders(b, S),
         \A x, y \in S : x # y => TimeOf(b, x) # TimeOf(b, y),
         NEW k \in 1..Len(s)
  PROVE  Cardinality(Newer(b, S, s[k])) = k - 1
<1> DEFINE N == Len(s)
<1>1. /\ s \in [1..N -> S] /\ N \in Nat
      /\ \A x \in S : \E j \in 1..N : s[j] = x
      /\ \A i, j \in 1..N : s[i] = s[j] => i = j
      /\ \A i, j \in 1..N : i < j => TimeOf(b, s[i]) >= TimeOf(b, s[j])
  BY OrderShape
<1>2. k \in 1..N /\ k \in Nat /\ k >= 1
  BY <1>1
<1> HIDE DEF N
<1> QED
  <2>1. \A e \in S : TimeOf(b, e) \in Nat
    BY EqAssumption DEF TimeOf
  <2>2. \A i \in 1..N : TimeOf(b, s[i]) \in Nat /\ s[i] \in S
    BY <1>1, <2>1
  <2>3. \A i \in 1..(k - 1) : s[i] \in Newer(b, S, s[k])
    <3> SUFFICES ASSUME NEW i \in 1..(k - 1)  PROVE s[i] \in Newer(b, S, s[k])
      OBVIOUS
    <3>1. i \in 1..N /\ i < k
      BY <1>1
    <3>2. TimeOf(b, s[i]) >= TimeOf(b, s[k])
      BY <1>1, <3>1
    <3>3. s[i] # s[k]
      BY <1>1, <3>1
    <3>4. TimeOf(b, s[i]) # TimeOf(b, s[k])
      BY <1>2, <2>2, <3>1, <3>3
    <3> QED
      BY <1>2, <2>2, <3>1, <3>2, <3>4 DEF Newer
  <2>4. ASSUME NEW x \in Newer(b, S, s[k])  PROVE \E i \in 1..(k - 1) : s[i] = x
    <3>1. PICK i \in 1..N : s[i] = x
      BY <1>1 DEF Newer
    <3>2. ~(k < i)
      BY <1>1, <2>2, <3>1 DEF Newer
    <3>3. i # k
      BY <2>2, <3>1 DEF Newer
    <3>4. i \in 1..(k - 1)
      BY <1>1, <3>1, <3>2, <3>3
    <3> QED
      BY <3>1, <3>4
  <2> DEFINE f == [i \in 1..(k - 1) |-> s[i]]
  <2>5. f \in Bijection(1..(k - 1), Newer(b, S, s[k]))
    <3>1. f \in [1..(k - 1) -> Newer(b, S, s[k])]
      BY <2>3
    <3>2. \A i, j \in 1..(k - 1) : f[i] = f[j] => i = j
      BY <1>1
    <3>3. \A x \in Newer(b, S, s[k]) : \E i \in 1..(k - 1) : f[i] = x
      BY <2>4
    <3> QED
      BY <3>1, <3>2, <3>3 DEF Bijection, Injection, Surjection, IsInjective
  <2> HIDE DEF f
  <2>6. ExistsBijection(1..(k - 1), Newer(b, S, s[k]))
    BY <2>5 DEF ExistsBijection
  <2>7. IsFiniteSet(1..(k - 1)) /\ Cardinality(1..(k - 1)) = k - 1
    <3>1. 1 \in Int /\ k - 1 \in Int /\ (1 > k - 1 => k - 1 = 0)
      BY <1>2
    <3>2. Cardinality(1..(k - 1)) = (IF 1 > k - 1 THEN 0 ELSE (k - 1) - 1 + 1) /\ IsFiniteSet(1..(k - 1))
      BY <3>1, FS_Interval
    <3> QED
      BY <1>2, <3>1, <3>2
  <2> QED
    BY <2>6, <2>7, FS_Bijection

\* No column is both a core column and a JSON one.
LEMMA ColumnsApart == CoreColumns \cap JsonKeys = {}
BY DEF CoreColumns, JsonKeys

Table(file) == [i \in DOMAIN file |-> SilverRow(file[i])]

\* A column is read back unless its cell is null, a JSON column as the dict it was.
LEMMA CellBack ==
  ASSUME NEW file, NEW i \in DOMAIN file, NEW p \in CoreColumns \cup DOMAIN file[i]
  PROVE  /\ p \in DOMAIN BuildTable(Table(file))[i]
         /\ p \in DOMAIN LakeRecords(file)[i] <=> BuildTable(Table(file))[i][p] # "none"
         /\ p \in DOMAIN LakeRecords(file)[i] =>
              LakeRecords(file)[i][p] = IF p \in JsonKeys THEN "dict" ELSE BuildTable(Table(file))[i][p]
<1>1. Table(file)[i] = SilverRow(file[i]) /\ DOMAIN Table(file) = DOMAIN file
  BY DEF Table
<1>2. DOMAIN SilverRow(file[i]) = CoreColumns \cup DOMAIN file[i]
  BY DEF SilverRow
<1>3. DOMAIN BuildTable(Table(file))[i] = CoreColumns \cup DOMAIN file[i]
  BY <1>1, <1>2 DEF BuildTable
<1>4. LakeRecords(file)[i] = Unflatten(BuildTable(Table(file))[i])
  BY DEF LakeRecords, Table
<1> QED
  BY <1>3, <1>4 DEF Unflatten

\* The core columns of every file carry their types.
LEMMA CoreTyped == CoreColumnsTyped
<1> SUFFICES ASSUME NEW i \in DOMAIN files, NEW c \in CoreColumns, c \in DOMAIN LakeRecords(files)[i]
             PROVE  LakeRecords(files)[i][c] \in {"int", "zero"}
  BY DEF CoreColumnsTyped
<1>1. Table(files)[i] = SilverRow(files[i]) /\ DOMAIN Table(files) = DOMAIN files
  BY DEF Table
<1>2. c \in DOMAIN SilverRow(files[i]) /\ SilverRow(files[i])[c] = CoreRow(files[i])[c]
  BY DEF SilverRow
<1>3. BuildTable(Table(files))[i][c] = CoreRow(files[i])[c]
  BY <1>1, <1>2 DEF BuildTable
<1>4. CoreRow(files[i])[c] \in {"int", "zero", "none"}
  BY DEF CoreRow, AsInt
<1>5. /\ BuildTable(Table(files))[i][c] # "none"
      /\ LakeRecords(files)[i][c] = IF c \in JsonKeys THEN "dict" ELSE BuildTable(Table(files))[i][c]
  BY CellBack
<1> QED
  BY <1>3, <1>4, <1>5, ColumnsApart

\* A stored record comes back with its fields.
LEMMA FieldsBack ==
  ASSUME files = <<>> \/ files \in RecordFiles
  PROVE  FieldsComeBack
<1> SUFFICES ASSUME NEW i \in DOMAIN files, NEW p \in DOMAIN files[i],
                    files[i][p] \notin {"empty", "none"}, p \notin CoreColumns,
                    p \notin DOMAIN LakeRecords(files)[i]
             PROVE  files[i][p] = "zero" /\ \E j \in DOMAIN files : Kind(At(files[j], p)) = "text" /\ At(files[j], p) # "none"
  BY DEF FieldsComeBack
<1> DEFINE t == Table(files)
           v == files[i][p]
<1>1. DOMAIN t = DOMAIN files /\ \A j \in DOMAIN files : t[j] = SilverRow(files[j])
  BY DEF Table
<1>2. \A j \in DOMAIN files : p \in DOMAIN t[j] <=> p \in DOMAIN files[j]
  <2>1. \A j \in DOMAIN files : DOMAIN SilverRow(files[j]) = CoreColumns \cup DOMAIN files[j]
    BY DEF SilverRow
  <2> QED BY <1>1, <2>1
<1>3. \A j \in DOMAIN files : p \in DOMAIN files[j] =>
        t[j][p] = IF p \in JsonKeys THEN JsonOrNone(files[j][p]) ELSE Flatten(files[j][p])
  BY <1>1 DEF SilverRow
<1>4. BuildTable(t)[i][p] = "none"
  BY CellBack
<1>5. BuildTable(t)[i][p] = IF Mixed(t, p) THEN JsonOrNone(t[i][p]) ELSE t[i][p]
  BY <1>1, <1>2 DEF BuildTable
<1>6. p \in JsonKeys => v = "dict"
  BY EqAssumption
<1>7. p \notin JsonKeys
  BY <1>3, <1>4, <1>5, <1>6 DEF JsonOrNone
<1>8. t[i][p] = Flatten(v)
  BY <1>3, <1>7
<1>9. Flatten(v) # "none" /\ (Flatten(v) \in {"zero", "empty"} => v = "zero")
  BY DEF Flatten, JsonOrNone
<1>10. Mixed(t, p) /\ v = "zero"
  BY <1>4, <1>5, <1>8, <1>9 DEF JsonOrNone
<1>11. PICK j \in DOMAIN files : At(t[j], p) # "none" /\ Kind(At(t[j], p)) = "text"
  BY <1>1, <1>10 DEF Mixed, Kind
<1>12. p \in DOMAIN files[j] /\ At(t[j], p) = Flatten(files[j][p]) /\ At(files[j], p) = files[j][p]
  BY <1>2, <1>3, <1>7, <1>11 DEF At
<1>13. Kind(files[j][p]) = "text" /\ files[j][p] # "none"
  BY <1>11, <1>12 DEF Kind, Flatten, JsonOrNone
<1> QED
  BY <1>10, <1>12, <1>13

\* A page starts where the one before it ends.
LEMMA OffsetFacts ==
  ASSUME NEW p \in Nat \ {0}
  PROVE  Offset(p) \in Nat /\ Offset(p + 1) = Offset(p) + PageSize /\ Offset(1) = 0
<1>1. PageSize \in Nat
  BY EqAssumption
<1>2. p - 1 \in Nat /\ (p + 1) - 1 = (p - 1) + 1
  OBVIOUS
<1> DEFINE q == p - 1
<1> HIDE DEF q
<1>3. q \in Nat /\ (q + 1) * PageSize = q * PageSize + PageSize /\ q * PageSize \in Nat
  BY <1>1, <1>2 DEF q
<1>4. 0 * PageSize = 0
  BY <1>1
<1> QED
  BY <1>2, <1>3, <1>4 DEF Offset, q

\* A page is the stretch of the order from its offset on.
LEMMA PageFacts ==
  ASSUME NEW S, NEW s \in Seq(S), NEW o \in Nat, o <= Len(s)
  PROVE  /\ Page(s, o) \in Seq(S)
         /\ Len(Page(s, o)) = IF Len(s) < o + PageSize THEN Len(s) - o ELSE PageSize
         /\ \A i \in 1..Len(Page(s, o)) : o + i \in 1..Len(s) /\ Page(s, o)[i] = s[o + i]
<1>1. PageSize \in Nat \ {0}
  BY EqAssumption
<1> DEFINE n == IF Len(s) < o + PageSize THEN Len(s) ELSE o + PageSize
<1>2. n \in Nat /\ o <= n /\ n <= Len(s) /\ Page(s, o) = SubSeq(s, o + 1, n)
  BY <1>1 DEF Page
<1>3. n - o = IF Len(s) < o + PageSize THEN Len(s) - o ELSE PageSize
  BY <1>1
<1> HIDE DEF n
<1>4. \A i \in (o + 1)..n : s[i] \in S
  BY <1>2
<1>5. /\ SubSeq(s, o + 1, n) \in Seq(S)
      /\ Len(SubSeq(s, o + 1, n)) = IF o + 1 <= n THEN n - (o + 1) + 1 ELSE 0
      /\ \A i \in 1..(n - (o + 1) + 1) : SubSeq(s, o + 1, n)[i] = s[o + 1 + i - 1]
  BY <1>2, <1>4, SubSeqProperties
<1>6. Len(SubSeq(s, o + 1, n)) = n - o
  BY <1>2, <1>5
<1>7. \A i \in 1..(n - o) : o + i \in 1..Len(s) /\ SubSeq(s, o + 1, n)[i] = s[o + i]
  BY <1>2, <1>5
<1> QED
  BY <1>2, <1>3, <1>5, <1>6, <1>7

WalkRecord == [at : {"count", "rows", "done"}, filter : QFilters, page : Nat \ {0}, total : Nat,
               seen : Seq(QEvents), start : SUBSET QEvents, during : SUBSET QEvents]
Apart(b, S) == \A x, y \in S : x # y => TimeOf(b, x) # TimeOf(b, y)
\* A row newer than the i-th one seen landed during the walk.
Pushed(b, w, i) == \E x \in w.during : TimeOf(b, x) > TimeOf(b, w.seen[i])
Shown(w, e) == \E i \in 1..Len(w.seen) : w.seen[i] = e
\* What matched at the start was shown or is still to come ...
Ahead(b, M, w) == \A e \in w.start : Shown(w, e) \/ Cardinality(Newer(b, M, e)) >= Offset(w.page)
\* ... what was shown is behind, unless it was pushed ...
Behind(b, M, w) == \A i \in 1..Len(w.seen) : Pushed(b, w, i) \/ Cardinality(Newer(b, M, w.seen[i])) < Offset(w.page)
\* ... and what was shown twice was pushed.
Once(b, w) == \A i, j \in 1..Len(w.seen) : i # j /\ w.seen[i] = w.seen[j] => Pushed(b, w, i)
Tallied(M, w) ==
  w.during = {} => /\ w.at \in {"count", "rows"} => Len(w.seen) = Offset(w.page)
                   /\ w.at = "rows" => w.total = Cardinality(M)
                   /\ w.at = "done" => w.total = Len(w.seen)
WalkOK(b, L, M, w) ==
  /\ w.start \subseteq M /\ \A i \in 1..Len(w.seen) : w.seen[i] \in M
  /\ w.at \in {"count", "rows"} => Offset(w.page) <= Cardinality(M)
  /\ Apart(b, L) => /\ w.at \in {"count", "rows"} => Ahead(b, M, w) /\ Behind(b, M, w)
                    /\ w.at = "done" => \A e \in w.start : Shown(w, e)
                    /\ Once(b, w)
  /\ Tallied(M, w)

\* The newer rows of a finite table are finitely many.
LEMMA NewerFinite ==
  ASSUME NEW b, NEW S, IsFiniteSet(S), NEW e
  PROVE  IsFiniteSet(Newer(b, S, e)) /\ Cardinality(Newer(b, S, e)) \in Nat
<1>1. Newer(b, S, e) \subseteq S
  BY DEF Newer
<1> QED
  BY <1>1, FS_Subset, FS_CardinalityType

\* A larger table has no fewer newer rows.
LEMMA NewerGrows ==
  ASSUME NEW b, NEW S, NEW T, IsFiniteSet(T), S \subseteq T, NEW e
  PROVE  /\ Cardinality(Newer(b, S, e)) \in Nat /\ Cardinality(Newer(b, T, e)) \in Nat
         /\ Cardinality(Newer(b, S, e)) <= Cardinality(Newer(b, T, e))
<1>1. Newer(b, S, e) \subseteq Newer(b, T, e)
  BY DEF Newer
<1>2. IsFiniteSet(Newer(b, T, e)) /\ Cardinality(Newer(b, T, e)) \in Nat
  BY NewerFinite
<1>3. IsFiniteSet(Newer(b, S, e)) /\ Cardinality(Newer(b, S, e)) <= Cardinality(Newer(b, T, e))
  BY <1>1, <1>2, FS_Subset
<1> QED
  BY <1>2, <1>3, FS_CardinalityType

\* A row lands: it can only push rows back.
LEMMA LandKeeps ==
  ASSUME NEW b, NEW L, NEW M, NEW w \in WalkRecord, WalkOK(b, L, M, w), L \subseteq QEvents, IsFiniteSet(M), M \subseteq L,
         NEW e \in QEvents, NEW N, N \in {M, M \cup {e}},
         NEW v \in WalkRecord, v = [w EXCEPT !.during = w.during \cup {e}]
  PROVE  WalkOK(b, L \cup {e}, N, v)
<1>1. /\ v.at = w.at /\ v.filter = w.filter /\ v.page = w.page /\ v.total = w.total /\ v.seen = w.seen
      /\ v.start = w.start /\ v.during = w.during \cup {e}
  BY DEF WalkRecord
<1>2. M \subseteq N /\ IsFiniteSet(N)
  BY FS_AddElement
<1>3. Offset(w.page) \in Nat
  BY OffsetFacts DEF WalkRecord
<1>4. Cardinality(M) <= Cardinality(N) /\ Cardinality(M) \in Nat /\ Cardinality(N) \in Nat
  BY <1>2, FS_Subset, FS_CardinalityType
<1>5. v.start \subseteq N /\ \A i \in 1..Len(v.seen) : v.seen[i] \in N
  BY <1>1, <1>2 DEF WalkOK
<1>6. v.at \in {"count", "rows"} => Offset(v.page) <= Cardinality(N)
  BY <1>1, <1>3, <1>4 DEF WalkOK
<1>7. Tallied(N, v)
  BY <1>1 DEF Tallied
<1>8. ASSUME Apart(b, L \cup {e})
      PROVE  /\ v.at \in {"count", "rows"} => Ahead(b, N, v) /\ Behind(b, N, v)
             /\ v.at = "done" => \A x \in v.start : Shown(v, x)
             /\ Once(b, v)
  <2>1. Apart(b, L)
    BY <1>8 DEF Apart
  <2>2. \A i \in 1..Len(w.seen) : Pushed(b, w, i) => Pushed(b, v, i)
    BY <1>1 DEF Pushed
  <2>3. Once(b, v)
    BY <1>1, <2>1, <2>2 DEF Once, WalkOK
  <2>4. v.at = "done" => \A x \in v.start : Shown(v, x)
    BY <1>1, <2>1 DEF WalkOK, Shown
  <2>5. ASSUME v.at \in {"count", "rows"}  PROVE Ahead(b, N, v)
    <3>1. ASSUME NEW x \in v.start, ~Shown(v, x)  PROVE Cardinality(Newer(b, N, x)) >= Offset(v.page)
      <4>1. Cardinality(Newer(b, M, x)) >= Offset(w.page)
        BY <1>1, <2>1, <2>5, <3>1 DEF WalkOK, Ahead, Shown
      <4>2. /\ Cardinality(Newer(b, M, x)) \in Nat /\ Cardinality(Newer(b, N, x)) \in Nat
            /\ Cardinality(Newer(b, M, x)) <= Cardinality(Newer(b, N, x))
        BY <1>2, NewerGrows
      <4> QED
        BY <1>1, <1>3, <4>1, <4>2
    <3> QED
      BY <3>1 DEF Ahead
  <2>6. ASSUME v.at \in {"count", "rows"}  PROVE Behind(b, N, v)
    <3>1. ASSUME NEW i \in 1..Len(v.seen), ~Pushed(b, v, i)
          PROVE  Cardinality(Newer(b, N, v.seen[i])) < Offset(v.page)
      <4>1. Cardinality(Newer(b, M, w.seen[i])) < Offset(w.page)
        BY <1>1, <2>1, <2>2, <2>5, <2>6, <3>1 DEF WalkOK, Behind
      <4>2. ~(TimeOf(b, e) > TimeOf(b, v.seen[i]))
        BY <1>1, <3>1 DEF Pushed
      <4>3. Newer(b, N, v.seen[i]) = Newer(b, M, v.seen[i])
        BY <4>2 DEF Newer
      <4> QED
        BY <1>1, <4>1, <4>3
    <3> QED
      BY <3>1 DEF Behind
  <2> QED
    BY <2>3, <2>4, <2>5, <2>6
<1> QED
  BY <1>5, <1>6, <1>7, <1>8 DEF WalkOK

\* The parts of a concatenation.
LEMMA ConcatFacts ==
  ASSUME NEW S, NEW s \in Seq(S), NEW t \in Seq(S)
  PROVE  /\ s \o t \in Seq(S) /\ Len(s \o t) = Len(s) + Len(t)
         /\ \A i \in 1..Len(s) : (s \o t)[i] = s[i]
         /\ \A i \in 1..Len(t) : (s \o t)[Len(s) + i] = t[i]
OBVIOUS

\* A sequence whose members lie in a set is a sequence over it.
LEMMA SeqWithin ==
  ASSUME NEW S, NEW T, NEW s \in Seq(S), \A i \in 1..Len(s) : s[i] \in T
  PROVE  s \in Seq(T)
OBVIOUS

\* The page at offset o of s is shown after the rows a.
ShowsPage(s, o, pg, a, c) == pg = Page(s, o) /\ c = a \o pg

\* What was shown before a page stays where it is; the page adds the rows at o + 1 and on.
PageEffect(M, s, o, pg, a, c) ==
  /\ c \in Seq(M) /\ Len(c) = Len(a) + Len(pg) /\ Len(pg) \in Nat
  /\ Len(pg) = IF Len(s) < o + PageSize THEN Len(s) - o ELSE PageSize
  /\ \A i \in 1..Len(a) : i \in 1..Len(c) /\ c[i] = a[i]
  /\ \A i \in 1..Len(c) : i \notin 1..Len(a) =>
       \E k \in 1..Len(s) : i = Len(a) - o + k /\ c[i] = s[k] /\ o < k /\ k <= o + PageSize
  /\ \A k \in 1..Len(s) : o < k /\ k <= o + Len(pg) => \E i \in 1..Len(c) : c[i] = s[k]

\* The effect of showing a page on what the walk has seen.
LEMMA PageShown ==
  ASSUME NEW M, NEW s \in Seq(M), NEW a \in Seq(M), NEW o \in Nat, o <= Len(s),
         NEW pg, NEW c, ShowsPage(s, o, pg, a, c)
  PROVE  PageEffect(M, s, o, pg, a, c)
<1>1. PageSize \in Nat \ {0} /\ Len(s) \in Nat /\ Len(a) \in Nat
  BY EqAssumption
<1>2. pg = Page(s, o) /\ c = a \o pg
  BY DEF ShowsPage
<1>3. /\ pg \in Seq(M)
      /\ Len(pg) = IF Len(s) < o + PageSize THEN Len(s) - o ELSE PageSize
      /\ \A i \in 1..Len(pg) : o + i \in 1..Len(s) /\ pg[i] = s[o + i]
  BY <1>2, PageFacts
<1>4. /\ c \in Seq(M) /\ Len(c) = Len(a) + Len(pg) /\ Len(pg) \in Nat
      /\ \A i \in 1..Len(a) : c[i] = a[i]
      /\ \A i \in 1..Len(pg) : c[Len(a) + i] = pg[i]
  <2>1. pg \in Seq(M)
    BY <1>3
  <2>2. /\ a \o pg \in Seq(M) /\ Len(a \o pg) = Len(a) + Len(pg)
        /\ \A i \in 1..Len(a) : (a \o pg)[i] = a[i]
        /\ \A i \in 1..Len(pg) : (a \o pg)[Len(a) + i] = pg[i]
    BY <2>1, ConcatFacts
  <2>3. Len(pg) \in Nat
    BY <1>3
  <2> QED
    BY <1>2, <2>2, <2>3
<1>5. Len(pg) <= PageSize
  BY <1>1, <1>3
<1> DEFINE n == Len(a)
           m == Len(pg)
<1>6. n \in Nat /\ m \in Nat /\ Len(c) = n + m /\ m <= PageSize
  BY <1>1, <1>4, <1>5
<1>7. \A i \in 1..m : o + i \in 1..Len(s) /\ c[n + i] = s[o + i]
  BY <1>3, <1>4
<1> HIDE DEF n, m
<1>8. ASSUME NEW i \in 1..Len(c), i \notin 1..n
      PROVE  \E k \in 1..Len(s) : i = n - o + k /\ c[i] = s[k] /\ o < k /\ k <= o + PageSize
  <2> DEFINE d == i - n
  <2>1. d \in 1..m /\ i = n + d
    BY <1>6, <1>8
  <2> HIDE DEF d
  <2>2. o + d \in 1..Len(s) /\ c[n + d] = s[o + d]
    BY <1>7, <2>1
  <2>3. i = n - o + (o + d) /\ o < o + d /\ o + d <= o + PageSize
    BY <1>1, <1>6, <2>1
  <2> QED
    BY <2>1, <2>2, <2>3
<1>9. ASSUME NEW k \in 1..Len(s), o < k, k <= o + m
      PROVE  \E i \in 1..Len(c) : c[i] = s[k]
  <2> DEFINE d == k - o
  <2>1. d \in 1..m /\ k = o + d
    BY <1>1, <1>6, <1>9
  <2> HIDE DEF d
  <2>2. c[n + d] = s[k] /\ n + d \in 1..Len(c)
    BY <1>6, <1>7, <2>1
  <2> QED
    BY <2>2
<1>10. \A i \in 1..n : i \in 1..Len(c)
  BY <1>6
<1> QED
  BY <1>3, <1>4, <1>8, <1>9, <1>10 DEF n, m, PageEffect

\* What PageRows makes of the walk w when it returns the page pg.
TakesPage(w, v, pg) ==
  /\ v.at = IF Len(pg) < PageSize THEN "done" ELSE "count"
  /\ v.page = w.page + 1 /\ v.seen = w.seen \o pg
  /\ v.total = w.total /\ v.start = w.start /\ v.during = w.during

\* A page is shown: it holds what comes next, and the walk ends at a short one.
LEMMA PageKeeps ==
  ASSUME NEW b, NEW L, NEW M, NEW w \in WalkRecord, WalkOK(b, L, M, w), L \subseteq QEvents, IsFiniteSet(M), M \subseteq L,
         w.at = "rows", NEW s \in Orders(b, M), NEW pg, pg = Page(s, Offset(w.page)), NEW v, TakesPage(w, v, pg)
  PROVE  WalkOK(b, L, M, v)
<1> DEFINE o == Offset(w.page)
           n == Len(w.seen)
<1>1. PageSize \in Nat \ {0} /\ o \in Nat /\ Offset(w.page + 1) = o + PageSize
  BY EqAssumption, OffsetFacts DEF WalkRecord
<1>2. /\ s \in Seq(M) /\ Len(s) = Cardinality(M) /\ Cardinality(M) \in Nat
      /\ \A x \in M : \E k \in 1..Len(s) : s[k] = x
      /\ \A i, j \in 1..Len(s) : s[i] = s[j] => i = j
  BY OrderShape
<1>3. o <= Len(s)
  BY <1>2 DEF WalkOK
<1>4. w.seen \in Seq(M)
  <2>1. w.seen \in Seq(QEvents) /\ \A i \in 1..Len(w.seen) : w.seen[i] \in M
    BY DEF WalkOK, WalkRecord
  <2> QED
    BY <2>1, SeqWithin
<1>5. /\ n \in Nat /\ o = Offset(w.page) /\ n = Len(w.seen)
      /\ ShowsPage(s, o, pg, w.seen, v.seen)
  BY <1>4 DEF TakesPage, ShowsPage
<1> HIDE DEF o, n
<1>6. /\ v.seen \in Seq(M) /\ Len(v.seen) = n + Len(pg) /\ Len(pg) \in Nat
      /\ Len(pg) = IF Len(s) < o + PageSize THEN Len(s) - o ELSE PageSize
      /\ \A i \in 1..n : i \in 1..Len(v.seen) /\ v.seen[i] = w.seen[i]
      /\ \A i \in 1..Len(v.seen) : i \notin 1..n =>
           \E k \in 1..Len(s) : i = n - o + k /\ v.seen[i] = s[k] /\ o < k /\ k <= o + PageSize
      /\ \A k \in 1..Len(s) : o < k /\ k <= o + Len(pg) => \E i \in 1..Len(v.seen) : v.seen[i] = s[k]
  <2>1. PageEffect(M, s, o, pg, w.seen, v.seen)
    BY <1>1, <1>2, <1>3, <1>4, <1>5, PageShown
  <2> QED
    BY <1>5, <2>1 DEF PageEffect
<1>7. /\ v.at = IF Len(pg) < PageSize THEN "done" ELSE "count"
      /\ v.page = w.page + 1 /\ v.total = w.total /\ v.start = w.start /\ v.during = w.during
  BY DEF TakesPage
<1>8. v.start \subseteq M /\ \A i \in 1..Len(v.seen) : v.seen[i] \in M
  <2>1. v.start \subseteq M
    BY <1>7 DEF WalkOK
  <2>2. \A i \in 1..Len(v.seen) : v.seen[i] \in M
    BY <1>6
  <2> QED
    BY <2>1, <2>2
<1>9. v.at \in {"count", "rows"} => Offset(v.page) <= Cardinality(M)
  BY <1>1, <1>2, <1>3, <1>6, <1>7
<1>10. Tallied(M, v)
  <2> SUFFICES ASSUME v.during = {}
               PROVE  /\ v.at = "count" => Len(v.seen) = Offset(v.page)
                      /\ v.at = "done" => v.total = Len(v.seen)
    BY <1>7 DEF Tallied
  <2>1. n = o /\ w.total = Cardinality(M)
    BY <1>5, <1>7 DEF WalkOK, Tallied
  <2> QED
    BY <1>1, <1>2, <1>3, <1>6, <1>7, <2>1
<1>11. ASSUME Apart(b, L)
       PROVE  /\ v.at \in {"count", "rows"} => Ahead(b, M, v) /\ Behind(b, M, v)
              /\ v.at = "done" => \A e \in v.start : Shown(v, e)
              /\ Once(b, v)
  <2>1. Ahead(b, M, w) /\ Behind(b, M, w) /\ Once(b, w)
    BY <1>11 DEF WalkOK
  <2>2. \A k \in 1..Len(s) : Cardinality(Newer(b, M, s[k])) = k - 1
    BY <1>11, OrderRanks DEF Apart
  <2>3. \A i \in 1..n : Pushed(b, w, i) <=> Pushed(b, v, i)
    BY <1>6, <1>7 DEF Pushed
  <2>4. ASSUME NEW e \in v.start, ~Shown(v, e)
        PROVE  Cardinality(Newer(b, M, e)) >= o + PageSize /\ ~(Len(pg) < PageSize)
    <3>1. ~Shown(w, e)
      <4>1. \A i \in 1..n : v.seen[i] # e
        BY <1>6, <2>4 DEF Shown
      <4> QED
        BY <1>6, <1>5, <4>1 DEF Shown
    <3>2. PICK k \in 1..Len(s) : s[k] = e
      BY <1>2, <1>7 DEF WalkOK
    <3>3. k - 1 >= o
      BY <1>5, <1>7, <2>1, <2>2, <3>1, <3>2 DEF Ahead
    <3>4. ~(o < k /\ k <= o + Len(pg))
      BY <1>6, <2>4, <3>2 DEF Shown
    <3>5. k \in Nat /\ k <= Len(s) /\ Len(s) \in Nat
      BY <1>2
    <3>6. k > o + Len(pg)
      BY <1>1, <1>6, <3>3, <3>4, <3>5
    <3>7. ~(Len(s) < o + PageSize) /\ Len(pg) = PageSize
      BY <1>1, <1>6, <3>5, <3>6
    <3>8. Cardinality(Newer(b, M, e)) = k - 1
      BY <2>2, <3>2
    <3> QED
      BY <1>1, <3>5, <3>6, <3>7, <3>8
  <2>5. Ahead(b, M, v)
    BY <1>1, <1>7, <2>4 DEF Ahead
  <2>6. v.at = "done" => \A e \in v.start : Shown(v, e)
    BY <1>7, <2>4
  <2>7. ASSUME NEW i \in 1..Len(v.seen)
        PROVE  Pushed(b, v, i) \/ Cardinality(Newer(b, M, v.seen[i])) < o + PageSize
    <3>1. CASE i \in 1..n
      <4>1. Pushed(b, w, i) \/ Cardinality(Newer(b, M, w.seen[i])) < o
        BY <1>5, <2>1, <3>1 DEF Behind
      <4>2. Cardinality(Newer(b, M, w.seen[i])) \in Nat
        BY NewerFinite
      <4>3. v.seen[i] = w.seen[i] /\ (Pushed(b, w, i) => Pushed(b, v, i))
        BY <1>6, <2>3, <3>1
      <4> QED
        BY <1>1, <4>1, <4>2, <4>3
    <3>2. CASE i \notin 1..n
      <4>1. PICK k \in 1..Len(s) : v.seen[i] = s[k] /\ k <= o + PageSize
        BY <1>6, <3>2
      <4>2. Cardinality(Newer(b, M, v.seen[i])) = k - 1
        BY <2>2, <4>1
      <4> QED
        BY <1>1, <1>2, <4>1, <4>2
    <3> QED
      BY <3>1, <3>2
  <2>8. Behind(b, M, v)
    BY <1>1, <1>7, <2>7 DEF Behind
  <2>9. Once(b, v)
    <3> SUFFICES ASSUME NEW i \in 1..Len(v.seen), NEW j \in 1..Len(v.seen), i # j, v.seen[i] = v.seen[j],
                        ~Pushed(b, v, i)
                 PROVE  FALSE
      BY DEF Once
    <3>1. ~Pushed(b, v, j)
      BY DEF Pushed
    <3> DEFINE rank == Cardinality(Newer(b, M, v.seen[i]))
    <3>2. ASSUME NEW x \in 1..Len(v.seen), x \in 1..n, ~Pushed(b, v, x)
          PROVE  Cardinality(Newer(b, M, v.seen[x])) < o
      BY <1>6, <1>5, <2>1, <2>3, <3>2 DEF Behind
    <3>3. ASSUME NEW x \in 1..Len(v.seen), x \notin 1..n
          PROVE  Cardinality(Newer(b, M, v.seen[x])) >= o
      <4>1. PICK k \in 1..Len(s) : v.seen[x] = s[k] /\ o < k
        BY <1>6, <3>3
      <4>2. Cardinality(Newer(b, M, v.seen[x])) = k - 1
        BY <2>2, <4>1
      <4> QED
        BY <1>1, <1>2, <4>1, <4>2
    <3>4. rank \in Nat
      BY NewerFinite
    <3>5. (i \in 1..n => rank < o) /\ (j \in 1..n => rank < o)
      BY <3>1, <3>2
    <3>6. (i \notin 1..n => rank >= o) /\ (j \notin 1..n => rank >= o)
      BY <3>3
    <3> HIDE DEF rank
    <3>7. i \in 1..n <=> j \in 1..n
      BY <1>1, <3>4, <3>5, <3>6
    <3>8. CASE i \in 1..n /\ j \in 1..n
      BY <1>6, <1>5, <2>1, <2>3, <3>8 DEF Once
    <3>9. CASE i \notin 1..n /\ j \notin 1..n
      <4>1. PICK k \in 1..Len(s) : i = n - o + k /\ v.seen[i] = s[k]
        BY <1>6, <3>9
      <4>2. PICK l \in 1..Len(s) : j = n - o + l /\ v.seen[j] = s[l]
        BY <1>6, <3>9
      <4>3. k = l
        BY <1>2, <4>1, <4>2
      <4> QED
        BY <4>1, <4>2, <4>3
    <3> QED
      BY <3>7, <3>8, <3>9
  <2> QED
    BY <2>5, <2>6, <2>8, <2>9
<1> QED
  BY <1>8, <1>9, <1>10, <1>11 DEF WalkOK

\* ---- the summary ----
SummaryRecord == [at : {"by_class", "by_action", "done"}, total : Nat, classes : Nat, actions : Nat, during : BOOLEAN]
\* The counts so far, in the order they were taken, and what a further one would be.
SummaryOK(L, s) ==
  /\ s.at = "by_class" => s.total <= Cardinality(L)
  /\ s.at = "by_action" => s.total <= s.classes /\ s.classes <= Cardinality(L)
  /\ s.at = "done" => s.total <= s.classes /\ s.classes <= s.actions
  /\ ~s.during => s.total = (IF s.at = "done" THEN s.actions ELSE Cardinality(L))

EqTypeOK ==
  /\ landed \subseteq QEvents /\ IsFiniteSet(landed)
  /\ walk = NoWalk \/ walk \in WalkRecord
  /\ summary = NoSummary \/ summary \in SummaryRecord
  /\ files = <<>> \/ files \in RecordFiles
Walked == Matches(backend, walk.filter, landed)
WalkHolds == walk # NoWalk => WalkOK(backend, landed, Walked, walk)
SummaryHolds == summary # NoSummary => SummaryOK(landed, summary)
EqInv == EqTypeOK /\ WalkHolds /\ SummaryHolds

\* What a filter matches is a finite part of the table, and grows with it by the new row at most.
LEMMA MatchesFacts ==
  ASSUME NEW b, NEW f, NEW L, IsFiniteSet(L)
  PROVE  /\ Matches(b, f, L) \subseteq L /\ IsFiniteSet(Matches(b, f, L)) /\ Cardinality(Matches(b, f, L)) \in Nat
         /\ \A e : Matches(b, f, L \cup {e}) \in {Matches(b, f, L), Matches(b, f, L) \cup {e}}
<1>1. Matches(b, f, L) \subseteq L
  BY DEF Matches
<1>2. \A e : Matches(b, f, L \cup {e}) \in {Matches(b, f, L), Matches(b, f, L) \cup {e}}
  <2>1. ASSUME NEW e, IF b = "lake" THEN LakeWhere(f, e) ELSE ChWhere(f, e)
        PROVE  Matches(b, f, L \cup {e}) = Matches(b, f, L) \cup {e}
    BY <2>1 DEF Matches
  <2>2. ASSUME NEW e, ~(IF b = "lake" THEN LakeWhere(f, e) ELSE ChWhere(f, e))
        PROVE  Matches(b, f, L \cup {e}) = Matches(b, f, L)
    BY <2>2 DEF Matches
  <2> QED
    BY <2>1, <2>2
<1> QED
  BY <1>1, <1>2, FS_Subset, FS_CardinalityType

\* EqInv survives a row landing.
LEMMA LandEventKeeps ==
  ASSUME EqInv, NEW e \in QEvents, LandEvent(e)
  PROVE  EqInv'
<1> USE DEF EqInv
<1>1. /\ e \notin landed /\ landed' = landed \cup {e} /\ UNCHANGED <<backend, walks, files>>
      /\ walk' = IF walk = NoWalk THEN walk ELSE [walk EXCEPT !.during = walk.during \cup {e}]
      /\ summary' = IF summary = NoSummary THEN summary ELSE [summary EXCEPT !.during = TRUE]
  BY DEF LandEvent
<1>2. landed' \subseteq QEvents /\ IsFiniteSet(landed')
  BY <1>1, FS_AddElement DEF EqTypeOK
<1>3. walk # NoWalk => walk \in WalkRecord /\ walk' \in WalkRecord /\ walk'.filter = walk.filter
  BY <1>1 DEF EqTypeOK, WalkRecord
<1>4. EqTypeOK'
  <2>1. summary' = NoSummary \/ summary' \in SummaryRecord
    BY <1>1 DEF EqTypeOK, SummaryRecord
  <2> QED
    BY <1>1, <1>2, <1>3, <2>1 DEF EqTypeOK
<1>5. WalkHolds'
  <2> SUFFICES ASSUME walk # NoWalk  PROVE WalkOK(backend, landed \cup {e}, Walked', walk')
    BY <1>1 DEF WalkHolds
  <2>1. walk \in WalkRecord /\ walk' \in WalkRecord /\ WalkOK(backend, landed, Walked, walk)
    BY <1>3 DEF WalkHolds
  <2>2. walk' = [walk EXCEPT !.during = walk.during \cup {e}]
    BY <1>1
  <2>3. Walked' \in {Walked, Walked \cup {e}} /\ Walked \subseteq landed /\ IsFiniteSet(Walked)
    BY <1>1, <1>3, MatchesFacts DEF Walked, EqTypeOK
  <2>4. landed \subseteq QEvents
    BY DEF EqTypeOK
  <2> QED
    BY <2>1, <2>2, <2>3, <2>4, LandKeeps
<1>6. SummaryHolds'
  <2> SUFFICES ASSUME summary # NoSummary  PROVE SummaryOK(landed', summary')
    BY <1>1 DEF SummaryHolds
  <2>1. summary \in SummaryRecord /\ SummaryOK(landed, summary)
    BY DEF EqTypeOK, SummaryHolds
  <2>2. /\ Cardinality(landed) \in Nat /\ Cardinality(landed') \in Nat
        /\ Cardinality(landed) <= Cardinality(landed')
    BY <1>1, <1>2, FS_Subset, FS_CardinalityType
  <2>3. /\ summary'.at = summary.at /\ summary'.total = summary.total /\ summary'.classes = summary.classes
        /\ summary'.actions = summary.actions /\ summary'.during = TRUE
    BY <1>1, <2>1 DEF SummaryRecord
  <2> QED
    BY <2>1, <2>2, <2>3 DEF SummaryOK, SummaryRecord
<1> QED
  BY <1>4, <1>5, <1>6

\* EqInv survives every step of a walk over pages.
LEMMA WalkStepKeeps ==
  ASSUME EqInv, (\E f \in QFilters : WalkBegins(f)) \/ CountRows \/ PageRows \/ QueryFails
  PROVE  EqInv'
<1> USE DEF EqInv
<1>1. UNCHANGED <<backend, landed, summary, files>>
  BY DEF WalkBegins, CountRows, PageRows, QueryFails
<1>2. SummaryHolds'
  BY <1>1 DEF SummaryHolds
<1>3. SUFFICES (walk' = NoWalk \/ walk' \in WalkRecord) /\ (walk' # NoWalk => WalkOK(backend, landed, Walked', walk'))
  BY <1>1, <1>2 DEF EqTypeOK, WalkHolds
<1>4. IsFiniteSet(landed) /\ landed \subseteq QEvents
  BY DEF EqTypeOK
<1>5. PageSize \in Nat \ {0} /\ Offset(1) = 0
  BY EqAssumption, OffsetFacts
<1>6. ASSUME NEW f \in QFilters, WalkBegins(f)
      PROVE  walk' \in WalkRecord /\ WalkOK(backend, landed, Walked', walk')
  <2> DEFINE M == Matches(backend, f, landed)
  <2>1. walk' = [at |-> "count", filter |-> f, page |-> 1, total |-> 0, seen |-> <<>>, start |-> M, during |-> {}]
    BY <1>6 DEF WalkBegins
  <2>2. M \subseteq QEvents /\ Cardinality(M) \in Nat
    BY <1>4, MatchesFacts
  <2> HIDE DEF M
  <2>3. walk' \in WalkRecord
    BY <2>1, <2>2 DEF WalkRecord
  <2>4. Walked' = M
    BY <1>1, <2>1 DEF Walked, M
  <2>5. Offset(walk'.page) = 0 /\ Len(walk'.seen) = 0 /\ walk'.start = M /\ walk'.at = "count"
    BY <1>5, <2>1
  <2>6. \A e \in M : Cardinality(Newer(backend, M, e)) >= 0
    BY <1>4, MatchesFacts, NewerFinite DEF M
  <2> QED
    BY <2>2, <2>3, <2>4, <2>5, <2>6 DEF WalkOK, Ahead, Behind, Once, Tallied
<1>7. ASSUME CountRows
      PROVE  walk' \in WalkRecord /\ WalkOK(backend, landed, Walked', walk')
  <2>1. walk \in WalkRecord /\ walk.at = "count" /\ walk # NoWalk
    BY <1>7 DEF CountRows, EqTypeOK, NoWalk
  <2>2. walk' = [walk EXCEPT !.at = "rows", !.total = Cardinality(Walked)]
    BY <1>7 DEF CountRows, Walked
  <2>3. Cardinality(Walked) \in Nat
    BY <1>4, MatchesFacts DEF Walked
  <2>4. /\ walk' \in WalkRecord /\ walk'.at = "rows" /\ walk'.total = Cardinality(Walked) /\ walk'.filter = walk.filter
        /\ walk'.page = walk.page /\ walk'.seen = walk.seen /\ walk'.start = walk.start /\ walk'.during = walk.during
    BY <2>1, <2>2, <2>3 DEF WalkRecord
  <2>5. Walked' = Walked
    BY <1>1, <2>4 DEF Walked
  <2>6. WalkOK(backend, landed, Walked, walk)
    BY <2>1 DEF WalkHolds
  <2> QED
    BY <2>1, <2>4, <2>5, <2>6 DEF WalkOK, Ahead, Behind, Once, Tallied, Shown, Pushed
<1>8. ASSUME PageRows
      PROVE  walk' \in WalkRecord /\ WalkOK(backend, landed, Walked', walk')
  <2>1. walk.at = "rows"
    BY <1>8 DEF PageRows
  <2>2. walk \in WalkRecord /\ walk.at = "rows" /\ walk # NoWalk
    BY <2>1 DEF EqTypeOK, NoWalk
  <2>3. WalkOK(backend, landed, Walked, walk) /\ IsFiniteSet(Walked) /\ Walked \subseteq landed
    BY <1>4, <2>2, MatchesFacts DEF WalkHolds, Walked
  <2>4. PICK s \in Orders(backend, Walked) :
          walk' = [walk EXCEPT !.seen = walk.seen \o Page(s, Offset(walk.page)), !.page = walk.page + 1,
                               !.at = IF Len(Page(s, Offset(walk.page))) < PageSize THEN "done" ELSE "count"]
    BY <1>8 DEF PageRows, Walked
  <2> DEFINE pg == Page(s, Offset(walk.page))
  <2>5. pg = Page(s, Offset(walk.page))
    OBVIOUS
  <2>6. pg \in Seq(Walked)
    <3>1. s \in Seq(Walked) /\ Len(s) = Cardinality(Walked)
      BY <2>3, OrderShape
    <3>2. Offset(walk.page) \in Nat /\ Offset(walk.page) <= Len(s)
      BY <2>2, <2>3, <3>1, OffsetFacts DEF WalkOK, WalkRecord
    <3> QED
      BY <3>1, <3>2, PageFacts
  <2> HIDE DEF pg
  <2>7. pg \in Seq(QEvents) /\ walk.seen \in Seq(QEvents)
    BY <1>4, <2>2, <2>3, <2>6 DEF WalkRecord
  <2>8. walk.seen \o pg \in Seq(QEvents)
    BY <2>7, ConcatFacts
  <2>9. walk' = [walk EXCEPT !.seen = walk.seen \o pg, !.page = walk.page + 1,
                             !.at = IF Len(pg) < PageSize THEN "done" ELSE "count"]
    BY <2>4 DEF pg
  <2>10. walk' \in WalkRecord /\ walk'.filter = walk.filter
    <3> DEFINE sn == walk.seen \o pg
               st == IF Len(pg) < PageSize THEN "done" ELSE "count"
               nx == walk.page + 1
    <3>1. sn \in Seq(QEvents)
      BY <2>8
    <3>2. st \in {"count", "rows", "done"}
      OBVIOUS
    <3>3. nx \in Nat \ {0}
      BY <2>2 DEF WalkRecord
    <3>4. walk' = [walk EXCEPT !.seen = sn, !.page = nx, !.at = st]
      BY <2>9
    <3> HIDE DEF sn, st, nx
    <3> QED
      BY <2>2, <3>1, <3>2, <3>3, <3>4 DEF WalkRecord
  <2>11. TakesPage(walk, walk', pg)
    BY <2>2, <2>9 DEF TakesPage, WalkRecord
  <2>12. Walked' = Walked
    BY <1>1, <2>10 DEF Walked
  <2>13. WalkOK(backend, landed, Walked, walk')
    BY <1>4, <2>2, <2>3, <2>5, <2>11, PageKeeps
  <2> QED
    BY <2>10, <2>12, <2>13
<1>9. QueryFails => walk' = NoWalk
  BY DEF QueryFails
<1> QED
  BY <1>6, <1>7, <1>8, <1>9

\* EqInv survives every query of the summary.
LEMMA SummaryStepKeeps ==
  ASSUME EqInv, StatsBySource \/ StatsByClass \/ StatsByAction
  PROVE  EqInv'
<1> USE DEF EqInv
<1>1. UNCHANGED <<backend, landed, walk, walks, files>>
  BY DEF StatsBySource, StatsByClass, StatsByAction
<1>2. WalkHolds'
  BY <1>1 DEF WalkHolds, Walked
<1>3. Cardinality(landed) \in Nat
  BY FS_CardinalityType DEF EqTypeOK
<1>4. SUFFICES summary' \in SummaryRecord /\ SummaryOK(landed, summary')
  BY <1>1, <1>2 DEF EqTypeOK, SummaryHolds
<1>5. CASE StatsBySource
  <2>1. summary' = [at |-> "by_class", total |-> Cardinality(landed), classes |-> 0, actions |-> 0, during |-> FALSE]
    BY <1>5 DEF StatsBySource
  <2> QED
    BY <1>3, <2>1 DEF SummaryRecord, SummaryOK
<1>6. CASE StatsByClass
  <2>1. summary \in SummaryRecord /\ SummaryOK(landed, summary) /\ summary.at = "by_class"
    BY <1>6 DEF StatsByClass, EqTypeOK, SummaryHolds, NoSummary
  <2>2. summary' = [summary EXCEPT !.at = "by_action", !.classes = Cardinality(landed)]
    BY <1>6 DEF StatsByClass, Grouped
  <2>3. /\ summary' \in SummaryRecord /\ summary'.at = "by_action" /\ summary'.classes = Cardinality(landed)
        /\ summary'.total = summary.total /\ summary'.during = summary.during
    BY <1>3, <2>1, <2>2 DEF SummaryRecord
  <2> QED
    BY <1>3, <2>1, <2>3 DEF SummaryOK
<1>7. CASE StatsByAction
  <2>1. summary \in SummaryRecord /\ SummaryOK(landed, summary) /\ summary.at = "by_action"
    BY <1>7 DEF StatsByAction, EqTypeOK, SummaryHolds, NoSummary
  <2>2. summary' = [summary EXCEPT !.at = "done", !.actions = Cardinality(landed)]
    BY <1>7 DEF StatsByAction
  <2>3. /\ summary' \in SummaryRecord /\ summary'.at = "done" /\ summary'.actions = Cardinality(landed)
        /\ summary'.total = summary.total /\ summary'.classes = summary.classes /\ summary'.during = summary.during
    BY <1>3, <2>1, <2>2 DEF SummaryRecord
  <2> QED
    BY <1>3, <2>1, <2>3 DEF SummaryOK
<1> QED
  BY <1>5, <1>6, <1>7

\* What EqInv says of a finished walk.
LEMMA WalkAnswers == EqInv => WalkSkipsNothing /\ RepeatsNeedNewer /\ TotalMatchesWalk
<1> SUFFICES ASSUME EqInv, walk.at = "done", Distinct(landed)
             PROVE  /\ walk.start \subseteq Range(walk.seen)
                    /\ \A i, j \in DOMAIN walk.seen : i # j /\ walk.seen[i] = walk.seen[j] =>
                         \E e \in walk.during : TimeOf(backend, e) > TimeOf(backend, walk.seen[i])
                    /\ walk.during = {} => walk.total = Len(walk.seen)
  BY DEF WalkSkipsNothing, RepeatsNeedNewer, TotalMatchesWalk
<1>1. walk \in WalkRecord /\ WalkOK(backend, landed, Walked, walk)
  BY DEF EqInv, EqTypeOK, WalkHolds, NoWalk
<1>2. Apart(backend, landed)
  BY DEF Apart, Distinct
<1>3. DOMAIN walk.seen = 1..Len(walk.seen)
  BY <1>1 DEF WalkRecord
<1>4. (\A e \in walk.start : Shown(walk, e)) /\ Once(backend, walk) /\ Tallied(Walked, walk)
  BY <1>1, <1>2 DEF WalkOK
<1>5. walk.start \subseteq Range(walk.seen)
  BY <1>3, <1>4 DEF Shown, Range
<1> QED
  BY <1>3, <1>4, <1>5 DEF Once, Pushed, Tallied

\* What EqInv says of a finished summary.
LEMMA SummaryAnswers == EqInv => SummaryOnlyGrows
<1> SUFFICES ASSUME EqInv, summary.at = "done"
             PROVE  /\ summary.total <= summary.classes /\ summary.classes <= summary.actions
                    /\ ~summary.during => summary.total = summary.actions
  BY DEF SummaryOnlyGrows
<1>1. SummaryOK(landed, summary)
  BY DEF EqInv, EqTypeOK, SummaryHolds, NoSummary
<1> QED
  BY <1>1 DEF SummaryOK

\* Reading back is right for any events, filters, page size, spans and stored records, and
\* however events land between the queries: a walk over pages misses nothing and repeats only
\* what a newer row pushed back, the backends agree, the summary's counts only grow, the
\* lake's series covers its window, and a record comes back with its fields.
THEOREM QueriesAreRight == EqSpec => []AnswersAreRight
<1>1. EqInit => EqInv
  BY FS_EmptySet DEF EqInit, EqInv, EqTypeOK, WalkHolds, SummaryHolds
<1>2. EqInv /\ [WalkNext \/ StatsNext \/ RowNext]_eqVars => EqInv'
  <2> SUFFICES ASSUME EqInv, [WalkNext \/ StatsNext \/ RowNext]_eqVars  PROVE EqInv'
    OBVIOUS
  <2>1. CASE UNCHANGED eqVars
    BY <2>1 DEF eqVars, EqInv, EqTypeOK, WalkHolds, SummaryHolds, Walked
  <2>2. CASE \E e \in QEvents : LandEvent(e)
    BY <2>2, LandEventKeeps
  <2>3. CASE (\E f \in QFilters : WalkBegins(f)) \/ CountRows \/ PageRows \/ QueryFails
    BY <2>3, WalkStepKeeps
  <2>4. CASE StatsBySource \/ StatsByClass \/ StatsByAction
    BY <2>4, SummaryStepKeeps
  <2>5. CASE RowNext
    BY <2>5 DEF RowNext, WriteRecords, EqInv, EqTypeOK, WalkHolds, SummaryHolds, Walked
  <2> QED
    BY <2>1, <2>2, <2>3, <2>4, <2>5 DEF WalkNext, StatsNext
<1>3. EqInv => AnswersAreRight
  <2> SUFFICES ASSUME EqInv  PROVE AnswersAreRight
    OBVIOUS
  <2>1. SeriesCoversWindow
    BY SeriesCovers DEF EqInv, EqTypeOK
  <2>2. FieldsComeBack /\ CoreColumnsTyped /\ BackendsAgree
    BY FieldsBack, CoreTyped, Agree DEF EqInv, EqTypeOK
  <2> QED
    BY <2>1, <2>2, WalkAnswers, SummaryAnswers DEF AnswersAreRight
<1> QED
  BY <1>1, <1>2, <1>3, PTL DEF EqSpec
===============================================================================
