-------------------------------- MODULE Mapping --------------------------------
(***************************************************************************)
(* How a source definition turns parsed fields into an OCSF record         *)
(* (src/ulpf/normalize/mapper.py, ocsf/base.py, validator.py): constants,  *)
(* the activity, the field mappings one after the other, the traceability  *)
(* attributes, the leftovers, and then finalize() and the validator.       *)
(*                                                                         *)
(* A record is the set of its leaves, path and value; a value is its type  *)
(* and the texts it was made of.                                           *)
(***************************************************************************)
EXTENDS Naturals, Sequences, FiniteSets, SequencesExt

CONSTANTS MapKeys,        \* names of parsed fields
          MapTexts,       \* their values; "7" is the one that is a number
          PathNames,      \* the names paths are made of
          Definitions     \* the definitions considered: constants, activity, fields, unmapped

\* spec.constants and spec.fields are dicts, in the order they are written.
Path == Seq(PathNames) \ {<<>>}
OwnNames == {"class_uid", "category_uid", "activity_id", "type_uid", "metadata", "uid", "log_hash", "version"}
ASSUME MapAssumption ==
  /\ OwnNames \subseteq PathNames
  /\ \A d \in Definitions :
       /\ d.constants \in Seq(Path) /\ Len(d.fields) \in Nat /\ DOMAIN d.fields = 1..Len(d.fields)
       /\ \A k \in DOMAIN d.fields : d.fields[k].path \in Path /\ d.fields[k].from \in Seq(MapKeys)

VARIABLES definition, fields,
          next,       \* the mapping that comes next
          leaves,     \* the record built so far
          consumed,   \* source fields used
          leftovers,  \* ocsf["unmapped"]
          mapAt       \* "fields", "mapped", "final" or "failed"
mapVars == <<definition, fields, next, leaves, consumed, leftovers, mapAt>>

NoText == "absent"
Nothing == <<>>
Empty == ""
Numeric == "7"
Present(key) == fields[key] \notin {NoText, Empty}

\* _set_nested: a leaf on the way is replaced by a dict, a dict at the end by the value.
Related(p, q) == IsPrefix(p, q) \/ IsPrefix(q, p)
SetNested(rec, path, value) == {l \in rec : ~Related(l.path, path)} \cup {[path |-> path, value |-> value]}
ValueAt(rec, path) == LET at == {l \in rec : l.path = path} IN IF at = {} THEN Nothing ELSE (CHOOSE l \in at : TRUE).value
\* record.get(attr) is a dict with something in it.
HasObject(rec, attr) == \E l \in rec : l.path # attr /\ IsPrefix(attr, l.path)

\* _resolve_source: every present source joined, or the first one present.
InOrder(s, at) == [k \in 1..Cardinality(at) |-> s[CHOOSE i \in at : Cardinality({j \in at : j <= i}) = k]]
Sources(m) == InOrder(m.from, {i \in DOMAIN m.from : Present(m.from[i])})
Used(m) == IF m.join \/ Sources(m) = <<>> THEN Sources(m) ELSE <<Head(Sources(m))>>
Resolved(m) == [k \in DOMAIN Used(m) |-> fields[Used(m)[k]]]

\* _coerce, and the lookup table that replaces it.
Coercible(m, texts) == m.map # {} \/ m.type = "str" \/ texts = <<Numeric>>
Translate(m, texts) ==
  IF m.map # {} THEN IF Len(texts) = 1 /\ texts[1] \in m.map THEN <<"mapped">> \o texts ELSE m.default
  ELSE <<m.type>> \o texts
\* _map_one: the value, Nothing to skip, or a MappingError.
MapOne(m) == IF Resolved(m) = <<>> THEN m.default ELSE Translate(m, Resolved(m))
Raises(m) == \/ Resolved(m) # <<>> /\ ~Coercible(m, Resolved(m))
             \/ MapOne(m) = Nothing /\ m.required

\* _activity_id: a constant, or a field looked up.
Activity(d) == IF d.activity = NoText THEN <<"int", "1">>
               ELSE IF fields[d.activity] = Numeric THEN <<"int", "2">> ELSE d.otherwise
ActivityUses(d) == {key \in MapKeys : key = d.activity /\ Present(key)}

\* The constants set one after the other: the last of those in each other's way stays.
Constants(d) ==
  {[path |-> d.constants[i], value |-> <<"const">>] :
     i \in {i \in DOMAIN d.constants : \A j \in DOMAIN d.constants : j > i => ~Related(d.constants[i], d.constants[j])}}

\* to_ocsf up to the loop.
MapInit ==
  /\ definition \in Definitions /\ fields \in [MapKeys -> MapTexts \cup {NoText, Empty}]
  /\ next = 1 /\ consumed = ActivityUses(definition) /\ leftovers = {} /\ mapAt = "fields"
  /\ LET class == SetNested(SetNested(Constants(definition), <<"class_uid">>, <<"int", "4001">>), <<"category_uid">>, <<"int", "4">>)
     IN leaves = IF Activity(definition) = Nothing THEN class
                 ELSE SetNested(SetNested(class, <<"activity_id">>, Activity(definition)), <<"type_uid">>, Activity(definition))

\* One turn of the loop; a MappingError ends it with the record as it is.
MapField ==
  /\ mapAt = "fields" /\ next <= Len(definition.fields) /\ next' = next + 1
  /\ LET m == definition.fields[next]
     IN /\ consumed' = consumed \cup ToSet(Used(m))
        /\ IF Raises(m) THEN mapAt' = "failed" /\ UNCHANGED leaves
           ELSE /\ leaves' = IF MapOne(m) = Nothing THEN leaves ELSE SetNested(leaves, m.path, MapOne(m))
                /\ UNCHANGED mapAt
  /\ UNCHANGED <<definition, fields, leftovers>>

\* Mutant: what was looked at counts as used, present or not.
LeftoversSeen(mode) ==
  {key \in MapKeys : fields[key] # NoText /\ (mode = "keep_all" \/ (mode = "keep_a" /\ key = "a"))
     /\ \A k \in DOMAIN definition.fields : key \notin ToSet(definition.fields[k].from)}
\* _attach_unmapped
Leftovers(mode) ==
  {key \in MapKeys : fields[key] # NoText /\ key \notin consumed /\ (mode = "keep_all" \/ (mode = "keep_a" /\ key = "a"))}
Trace == {<<"metadata", "uid">>, <<"metadata", "log_hash">>, <<"metadata", "version">>}
AddTrace(rec) ==
  SetNested(SetNested(SetNested(rec, <<"metadata", "uid">>, <<"trace">>),
                      <<"metadata", "log_hash">>, <<"trace">>), <<"metadata", "version">>, <<"trace">>)
Attach ==
  /\ mapAt = "fields" /\ next > Len(definition.fields) /\ mapAt' = "mapped"
  /\ leftovers' = Leftovers(definition.unmapped)
  /\ leaves' = {l \in AddTrace(leaves) : definition.unmapped = "drop" \/ l.path[1] # "unmapped"}
  /\ UNCHANGED <<definition, fields, next, consumed>>

\* finalize(): type_uid follows whatever activity_id the mappings left; a text there
\* cannot be added to and the stage raises.
Derived(rec) == IF ValueAt(rec, <<"activity_id">>) = Nothing THEN rec
                ELSE SetNested(rec, <<"type_uid">>, ValueAt(rec, <<"activity_id">>))
Finalize ==
  /\ mapAt = "mapped"
  /\ IF ValueAt(leaves, <<"activity_id">>) # Nothing /\ ValueAt(leaves, <<"activity_id">>)[1] = "str"
     THEN mapAt' = "failed" /\ UNCHANGED leaves
     ELSE mapAt' = "final" /\ leaves' = Derived(leaves)
  /\ UNCHANGED <<definition, fields, next, consumed, leftovers>>

MapNext == MapField \/ Attach \/ Finalize
MapSpec == MapInit /\ [][MapNext]_mapVars

\* The validator: the class's required attributes, type_uid and the shape of ip values.
Scalars == {<<"time">>, <<"activity_id">>, <<"class_uid">>}
Objects == {<<"metadata">>, <<"src">>}
Problems(rec) ==
  {a \in Scalars : ValueAt(rec, a) = Nothing /\ ~HasObject(rec, a)} \cup {a \in Objects : ~HasObject(rec, a)}
  \cup {a \in {<<"type_uid">>} : ValueAt(rec, a) # Nothing /\ ValueAt(rec, a) # ValueAt(rec, <<"activity_id">>)}
  \cup {a \in {<<"time">>} : ValueAt(rec, a) # Nothing /\ ValueAt(rec, a)[1] = "str"}
\* _completeness over required and recommended attributes, as populated out of all.
Attributes == Scalars \cup Objects \cup {<<"proxy">>}
Populated(rec) == {a \in Attributes : HasObject(rec, a) \/ ValueAt(rec, a) # Nothing}
-----------------------------------------------------------------------------
Final == mapAt = "final"
Owner(key) == {k \in DOMAIN definition.fields : key \in ToSet(Used(definition.fields[k]))}
\* A later attribute on the same path, or above or below it, replaced the one mapped.
Replaced(k) == LET p == definition.fields[k].path
               IN \/ \E j \in DOMAIN definition.fields : j > k /\ Related(p, definition.fields[j].path)
                  \/ p[1] \in {"metadata", "unmapped", "type_uid"}

\* Requirement (a) at the field level: with keep_all every field is among the leftovers or
\* its text is in the record, unless a lookup table or activity_id used it without a match
\* or a later mapping replaced the attribute it went to.
LostOnlyByTable ==
  Final /\ definition.unmapped = "keep_all" =>
    \A key \in MapKeys : fields[key] # NoText =>
      \/ key \in leftovers \/ key = definition.activity
      \/ \E k \in Owner(key) : \/ definition.fields[k].map # {} \/ Replaced(k)
                               \/ \E l \in leaves : l.path = definition.fields[k].path /\ fields[key] \in ToSet(l.value)

\* Requirement (d): whatever the definition maps, the record carries the event's uid and
\* hash.
TraceKept == mapAt \in {"mapped", "final"} => \A t \in Trace : ValueAt(leaves, t) = <<"trace">>

\* A required mapping of a finished record is there, unless a later one replaced it.
RequiredIsThere ==
  Final => \A k \in DOMAIN definition.fields : definition.fields[k].required =>
             Replaced(k) \/ ValueAt(leaves, definition.fields[k].path) # Nothing

\* No definition can make a record whose type_uid contradicts its activity_id, and a
\* record without problems has every required attribute populated.
TypeFollowsActivity ==
  Final => /\ <<"type_uid">> \notin Problems(leaves) \/ ValueAt(leaves, <<"activity_id">>) = Nothing
           /\ Problems(leaves) = {} => Scalars \cup Objects \subseteq Populated(leaves)

\* The record of a dead letter is what the mappings before the failing one built: it has
\* no attribute of the failing one or a later one that an earlier one does not set too.
PartialIsPrefix ==
  mapAt = "failed" /\ next > 1 /\ Raises(definition.fields[next - 1]) =>
    \A l \in leaves : \/ l.value = <<"const">> \/ l.path[1] \in {"class_uid", "category_uid", "activity_id", "type_uid"}
                      \/ \E k \in 1..next - 2 : definition.fields[k].path = l.path /\ l.value = MapOne(definition.fields[k])

\* The record and its leftovers together hold what was parsed, with its trace, and say
\* nothing the mappings did not.
RecordIsFaithful == LostOnlyByTable /\ TraceKept /\ RequiredIsThere /\ TypeFollowsActivity /\ PartialIsPrefix
=============================================================================
