------------------------------ MODULE RawSchema ------------------------------
(***************************************************************************)
(* Raw topics: the generation of a topic's factors from sample records     *)
(* (three versions of the route /topic/raw/generation) and the surrogate   *)
(* keys, "aids", that tie the nested objects of an imported row together   *)
(* (/topic/data/v3).                                                       *)
(*                                                                         *)
(* A JSON value is a record with its type: a scalar is its type alone, a   *)
(* list has items, an object has fields, a function of names.  The dotted  *)
(* name of a factor is the sequence of its segments.  What the code finds  *)
(* out about the letters of names is given by constants.                   *)
(***************************************************************************)
EXTENDS Naturals, FiniteSets, Sequences, SequencesExt, FiniteSetsExt, TLC

CONSTANTS
  Names,        \* the keys of objects
  Code,         \* the name of the topic
  MaxCalls,     \* how many calls of itself Python lets create_factors make
  Underscores,  \* how many underscores a name has
  Within,       \* <<m, n>>: the text of m occurs in n
  AtEnd,        \* <<m, n>>: its last occurrence there ends n
  Samples,      \* the lists of records a topic is generated from
  Rows          \* the records imported

ASSUME NamesAssumption ==
  /\ Code \notin Names
  /\ MaxCalls \in Nat
  /\ Underscores \in [Names -> Nat]
  /\ AtEnd \subseteq Within
  /\ \A n \in Names : <<n, n>> \in AtEnd

VARIABLES
  request,  \* the version and the sample of the generation
  topic,    \* the topic it stored, if any
  row       \* the row imported: its objects' ids

vars == <<request, topic, row>>

Nothing == [none |-> TRUE]
Raised == [raised |-> TRUE]

Scalar(type) == [t |-> type]
List(items) == [t |-> "array", items |-> items]
Object(fields) == [t |-> "object", fields |-> fields]

-----------------------------------------------------------------------------
(* Versions 2 and 3: a queue of objects, each at its path.                 *)

\* A bool is an int to isinstance.
TypeOf(value) == IF value.t = "boolean" THEN "number" ELSE value.t

IsObjectList(value) ==
  /\ value.t = "array"
  /\ value.items # <<>>
  /\ \A i \in DOMAIN value.items : value.items[i].t = "object"

\* The records are queued under "root", and so is what a record has under
\* that key: the names inside it come without it.
Prefix(path) == IF path = <<"root">> THEN <<>> ELSE path

FieldsOf(model) ==
  {[path |-> Append(Prefix(model.path), n), value |-> model.value.fields[n]] : n \in DOMAIN model.value.fields}

\* Of a list of objects only the first is walked.
NestedIn(fields) ==
  {f \in fields : f.value.t = "object"}
    \cup {[path |-> f.path, value |-> f.value.items[1]] : f \in {g \in fields : IsObjectList(g.value)}}

\* Mutant of Typed: a factor first seen as null stays of any type.
TypedOnce(factors, path, type) == IF path \in DOMAIN factors THEN factors[path] ELSE type

Typed(factors, path, type) ==
  IF path \in DOMAIN factors /\ factors[path] # "any" THEN factors[path] ELSE type

Conflicting(factors, field) ==
  /\ field.path \in DOMAIN factors
  /\ "any" \notin {factors[field.path], TypeOf(field.value)}
  /\ factors[field.path] # TypeOf(field.value)

WithFactors(factors, fields) ==
  LET paths == {f.path : f \in fields}
      FieldAt(p) == CHOOSE f \in fields : f.path = p
  IN [p \in DOMAIN factors \cup paths |->
        IF p \in paths THEN Typed(factors, p, TypeOf(FieldAt(p).value)) ELSE factors[p]]

\* One call within the other for each object.  The relationships of version 3
\* are the paths of the nested objects: the parent of each is its front.
RECURSIVE CreateFactors(_, _)
CreateFactors(queue, made) ==
  IF queue = <<>> \/ made.calls = MaxCalls \/ Head(queue).value.t # "object"
  THEN Raised
  ELSE LET fields == FieldsOf(Head(queue))
           inner == NestedIn(fields)
           rest == Tail(queue) \o SetToSeq(inner)
           walked == [factors |-> WithFactors(made.factors, fields),
                      nested |-> made.nested \cup {f.path : f \in inner},
                      calls |-> made.calls + 1]
       IN IF \E f \in fields : Conflicting(made.factors, f) THEN Raised
          ELSE IF rest = <<>> THEN walked
          ELSE CreateFactors(rest, walked)

Created(sample) ==
  CreateFactors([i \in DOMAIN sample |-> [path |-> <<>>, value |-> sample[i]]],
                [factors |-> <<>>, nested |-> {}, calls |-> 0])

\* The keys of the object at a path: one per object around it, named by its
\* last segment and, when a nearer one has that name, by its distance.
AidKeys(path) ==
  {[of |-> path[j],
    up |-> IF \E i \in (j + 1)..(Len(path) - 1) : path[i] = path[j] THEN Len(path) - j ELSE 0]
     : j \in 1..(Len(path) - 1)}

\* An object at the top gets keys only if it has objects inside.
Keyed(nested) == {p \in nested : Len(p) > 1 \/ \E q \in nested : Front(q) = p}

SurrogateKeys(nested) == [p \in Keyed(nested) |-> AidKeys(p)]

CreateRawTopic(sample) ==
  LET made == Created(sample)
  IN IF made = Raised THEN Raised ELSE [factors |-> made.factors, aids |-> <<>>]

\* An object under "root" is its own parent: the walk for the keys never ends.
CreateRawTopicV3(sample) ==
  LET made == Created(sample)
  IN IF made = Raised \/ <<"root">> \in made.nested THEN Raised
     ELSE [factors |-> made.factors, aids |-> SurrogateKeys(made.nested)]

-----------------------------------------------------------------------------
(* Version 1: one schema per key, wherever the key occurs.                 *)

Container(value) == value.t \in {"array", "object"}

FieldType(value) == IF value.t = "object" THEN "dict" ELSE TypeOf(value)

\* A list holds records: anything else, a list too, has no items() and raises.
\* A schema is stored after its fields, over one its own fields brought; a
\* known schema is extended in place and keeps the types it has.
RECURSIVE CreateSchema(_, _, _)
CreateSchema(schemas, name, value) ==
  LET Walk(key, v, known) == IF known # Raised /\ Container(v) THEN CreateSchema(known, key, v) ELSE known
      Fresh(record) ==
        LET after == FoldSet(LAMBDA k, s : Walk(k, record.fields[k], s), schemas, DOMAIN record.fields)
        IN IF after = Raised THEN Raised
           ELSE (name :> [k \in DOMAIN record.fields |-> FieldType(record.fields[k])]) @@ after
      Extended(record) ==
        FoldSet(LAMBDA k, s : LET after == Walk(k, record.fields[k], s)
                              IN IF after = Raised THEN Raised
                                 ELSE [after EXCEPT ![name] = @ @@ (k :> FieldType(record.fields[k]))],
                schemas, DOMAIN record.fields)
  IN CASE schemas = Raised -> Raised
       [] schemas # Raised /\ value.t = "array" ->
            IF \A i \in DOMAIN value.items : value.items[i].t = "object"
            THEN FoldLeft(LAMBDA s, item : CreateSchema(s, name, item), schemas, value.items)
            ELSE Raised
       [] schemas # Raised /\ value.t = "object" ->
            IF name \in DOMAIN schemas THEN Extended(value) ELSE Fresh(value)
       [] OTHER -> Raised

\* A key without a schema is a KeyError, a schema inside itself a recursion
\* that does not end.
RECURSIVE BuildFactors(_, _)
BuildFactors(schemas, path) ==
  LET name == IF path = <<>> THEN Code ELSE Last(path)
      Of(key) == LET at == Append(path, key)
                 IN {[path |-> at, type |-> schemas[name][key]]}
                      \cup (IF schemas[name][key] \in {"array", "dict"} THEN BuildFactors(schemas, at) ELSE {})
  IN IF name \notin DOMAIN schemas \/ \E i \in 1..(Len(path) - 1) : path[i] = name
     THEN {[path |-> path, type |-> "raised"]}
     ELSE UNION {Of(key) : key \in DOMAIN schemas[name]}

BuildTopic(sample) ==
  LET schemas == CreateSchema(<<>>, Code, List(sample))
      built == BuildFactors(schemas, <<>>)
  IN IF schemas = Raised \/ \E f \in built : f.type = "raised"
     THEN Raised
     ELSE [factors |-> [p \in {f.path : f \in built} |-> (CHOOSE f \in built : f.path = p).type],
           aids |-> <<>>]

-----------------------------------------------------------------------------
(* The import of a row: ids and links for its nested objects.              *)

None == <<>>

\* Mutant of FoundIn: find in place of rfind.
FoundInFirst(path, name) == Min({i \in DOMAIN path : <<name, path[i]>> \in Within})

\* The segment of the last occurrence of the name in the dotted path.
FoundIn(path, name) == Max({i \in DOMAIN path : <<name, path[i]>> \in Within})

\* A prefix cut inside a segment is taken to be no path with an id.
ParentPath(path, key) ==
  IF key.up > 0 THEN SubSeq(path, 1, Len(path) - key.up)
  ELSE LET i == FoundIn(path, key.of)
       IN IF <<key.of, path[i]>> \in AtEnd THEN SubSeq(path, 1, i) ELSE None

\* The code tells the two forms of a key apart by its underscores: it takes
\* the second word of a name for a distance, and leaves keys with more out.
AidRaises(key) == Underscores[key.of] = 1 /\ key.up = 0
AidSkipped(key) == Underscores[key.of] > 1 \/ (Underscores[key.of] = 1 /\ key.up > 0)

NamesOf(place) == [i \in DOMAIN place |-> place[i].name]

\* What is under "root" is taken for the top of the row here too.
PathOf(place) ==
  LET names == NamesOf(place)
      above == {i \in DOMAIN names : \A j \in 1..i : names[j] = "root"}
  IN SubSeq(names, Cardinality(above) + 1, Len(names))

\* The object at a place is its id; context has the last id given at each path.
Identified(place, aids, s) ==
  LET path == PathOf(place)
      context == (path :> place) @@ s.context
      IdAt(p) == IF p \in DOMAIN context THEN context[p] ELSE None
  IN IF path \notin DOMAIN aids THEN s
     ELSE [context |-> context,
           raised |-> s.raised \/ \E key \in aids[path] : AidRaises(key),
           links |-> s.links \cup
             {[place |-> place, key |-> key, id |-> IdAt(ParentPath(path, key))]
                : key \in {k \in aids[path] : ~AidRaises(k) /\ ~AidSkipped(k)}}]

RECURSIVE ListDictionary(_, _, _, _)
ListDictionary(place, data, aids, s) ==
  LET Item(acc, i) == ListDictionary([place EXCEPT ![Len(place)].index = Append(@, i)], data.items[i], aids, acc)
      Entry(name, acc) == ListDictionary(Append(place, [name |-> name, index |-> <<>>]), data.fields[name], aids, acc)
  IN CASE data.t = "array" -> FoldLeftDomain(Item, s, data.items)
       [] data.t = "object" -> FoldSet(Entry, Identified(place, aids, s), DOMAIN data.fields)
       [] OTHER -> s

CreateRawTopicInstance(data, aids) ==
  ListDictionary(<<>>, data, aids, [context |-> <<>>, links |-> {}, raised |-> FALSE])

-----------------------------------------------------------------------------
Init ==
  /\ request = Nothing
  /\ topic = Nothing
  /\ row = Nothing

Generated(by, sample, made) ==
  /\ topic = Nothing
  /\ request' = [by |-> by, sample |-> sample]
  /\ topic' = made
  /\ UNCHANGED row

GenerateV1(sample) == Generated("v1", sample, BuildTopic(sample))
GenerateV2(sample) == Generated("v2", sample, CreateRawTopic(sample))
GenerateV3(sample) == Generated("v3", sample, CreateRawTopicV3(sample))

\* A row whose keys raise is not stored.  Imports share nothing but the topic: one that
\* stores its row is enough.
ImportRow(data) ==
  LET walked == CreateRawTopicInstance(data, topic.aids)
  IN /\ topic \notin {Nothing, Raised} /\ row = Nothing
     /\ row' = IF walked.raised THEN row ELSE [data |-> data, links |-> walked.links]
     /\ UNCHANGED <<request, topic>>

Next ==
  \/ \E sample \in Samples : GenerateV1(sample) \/ GenerateV2(sample) \/ GenerateV3(sample)
  \/ \E data \in Rows : ImportRow(data)

Spec == Init /\ [][Next]_vars

-----------------------------------------------------------------------------
(* What the generated topics and the imported rows promise.                *)

RECURSIVE Occurrences(_, _, _)
Occurrences(path, value, everyItem) ==
  LET Field(n) == LET at == Append(path, n)
                  IN {[path |-> at, value |-> value.fields[n]]}
                       \cup Occurrences(at, value.fields[n], everyItem)
  IN CASE value.t = "object" -> UNION {Field(n) : n \in DOMAIN value.fields}
       [] value.t = "array" /\ (everyItem \/ IsObjectList(value)) ->
            UNION {Occurrences(path, value.items[i], everyItem)
                     : i \in IF everyItem THEN DOMAIN value.items ELSE {1}}
       [] OTHER -> {}

InSample(everyItem) ==
  UNION {Occurrences(<<>>, request.sample[i], everyItem) : i \in DOMAIN request.sample}

TypesAt(path, seen) == {TypeOf(o.value) : o \in {s \in seen : s.path = path}}

Disagreeing(seen) == \E o \in seen : Cardinality(TypesAt(o.path, seen) \ {"any"}) > 1

\* Samples version 1 can tell: objects in lists only, each key in one place
\* and of one type.
Regular(seen) ==
  /\ request.sample # <<>>
  /\ \A i \in DOMAIN request.sample : request.sample[i].t = "object"
  /\ \A o \in seen : o.value.t = "array" => IsObjectList(o.value)
  /\ \A o1, o2 \in seen : Last(o1.path) = Last(o2.path)
                             => o1.path = o2.path /\ TypeOf(o1.value) = TypeOf(o2.value)

RECURSIVE ObjectsIn(_)
ObjectsIn(value) ==
  CASE value.t = "object" ->
         1 + FoldSet(LAMBDA n, sum : sum + ObjectsIn(value.fields[n]), 0, DOMAIN value.fields)
    [] IsObjectList(value) -> ObjectsIn(value.items[1])
    [] OTHER -> 0

\* A generated topic has exactly one factor for each path of the whole
\* sample, with the one type its values have apart from nulls, and the
\* generation fails exactly on an empty sample, on a record that is no object,
\* on a path with two types, on more objects than calls may nest and, in
\* version 3, on an object under the key "root".  Versions 2 and 3 know a list
\* by its first object, and version 2 is promised nothing under "root";
\* version 1 knows all objects, is held to regular samples and fails on a list
\* of anything but objects.
\* generate_raw_topic_schema_v3.py, generate_raw_topic_schema.py and
\* generate_schema.py.
FactorsCoverData ==
  topic # Nothing =>
    LET firsts == InSample(FALSE)
        all == InSample(TRUE)
        rooted == \E o \in firsts : o.path = <<"root">> /\ (o.value.t = "object" \/ IsObjectList(o.value))
        bad == \/ request.sample = <<>> \/ Disagreeing(firsts)
               \/ \E i \in DOMAIN request.sample : request.sample[i].t # "object"
               \/ FoldSeq(LAMBDA record, sum : sum + ObjectsIn(record), 0, request.sample) > MaxCalls
               \/ request.by = "v3" /\ rooted
    IN IF request.by = "v1"
       THEN /\ Regular(all) =>
                 /\ topic # Raised
                 /\ topic.factors = [p \in {o.path : o \in all} |->
                                        FieldType((CHOOSE o \in all : o.path = p).value)]
            /\ (\E o \in all : o.value.t = "array" /\ o.value.items # <<>> /\ ~IsObjectList(o.value)) => topic = Raised
       ELSE ~(request.by = "v2" /\ rooted) =>
            /\ topic = Raised <=> bad
            /\ ~bad => /\ DOMAIN topic.factors = {o.path : o \in firsts}
                       /\ \A p \in DOMAIN topic.factors :
                            LET types == TypesAt(p, firsts)
                            IN {topic.factors[p]} = IF types = {"any"} THEN types ELSE types \ {"any"}

RECURSIVE ObjectsOf(_, _)
ObjectsOf(place, value) ==
  CASE value.t = "object" ->
         {place} \cup UNION {ObjectsOf(Append(place, [name |-> n, index |-> <<>>]), value.fields[n])
                               : n \in DOMAIN value.fields}
    [] value.t = "array" /\ place # <<>> ->
         UNION {ObjectsOf([place EXCEPT ![Len(place)].index = Append(@, i)], value.items[i])
                  : i \in DOMAIN value.items}
    [] OTHER -> {}

\* The code looks for the name of the j-th segment further down than it is.
Hidden(path, j) ==
  /\ \A i \in (j + 1)..(Len(path) - 1) : path[i] # path[j]
  /\ \E i \in (j + 1)..Len(path) : <<path[j], path[i]>> \in Within

KeyFor(path, j) ==
  [of |-> path[j],
   up |-> IF \E i \in (j + 1)..(Len(path) - 1) : path[i] = path[j] THEN Len(path) - j ELSE 0]

\* In a stored row every nested object the topic's sample had has, for each
\* object around it, the id of exactly that object - not of a sibling, of an
\* item before it in a list or of another object with the same key - except
\* for keys with an underscore and keys whose text a key below them contains.
\* generate_surrogate_key and list_dictionary.
AidsFindParents ==
  (row # Nothing /\ request.by = "v3") =>
    LET firsts == InSample(FALSE)
        known == {o.path : o \in {s \in firsts : s.value.t = "object" \/ IsObjectList(s.value)}}
    IN \A place \in ObjectsOf(<<>>, row.data) :
         LET path == NamesOf(place)
         IN path \in known =>
              \A j \in 1..(Len(path) - 1) :
                Underscores[path[j]] = 0 /\ ~Hidden(path, j) =>
                  [place |-> place, key |-> KeyFor(path, j), id |-> SubSeq(place, 1, j)] \in row.links

=============================================================================
