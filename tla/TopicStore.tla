----------------------------- MODULE TopicStore -----------------------------
(***************************************************************************)
(* What a pipeline's actions do to the rows of its target topic.  Rows of  *)
(* a source topic are stored and changed; each change runs a pipeline      *)
(* whose insert-or-merge-row finds the target row of the source row's key  *)
(* and maps the change into it (pipeline/core/mapping/parse_mapping.py,    *)
(* and the update expressions of the three topic storages), so that sums   *)
(* and counts are kept by differences.  A second pipeline merges keys      *)
(* alone.  Below are also the answers of the read actions and the pages    *)
(* of a query; TopicReads asks for them.                                   *)
(*                                                                         *)
(* One action on a row is one step: how the calls of several interleave is *)
(* TopicRow's subject.  Rows are in the order of their insertion, but no   *)
(* query sorts, so that a store may return what it finds in any order.     *)
(* changes and off are history.                                            *)
(***************************************************************************)
EXTENDS ColumnTests

CONSTANTS
    Sources,       \* the rows of the source topic
    Datas,         \* what such a row may hold: dicts
    SourceFactors, \* the factors of the source topic that are mapped
    Mappings,      \* the mappings of the first pipeline that are tried
    DefaultSets,   \* the defaults of the target's columns that are tried
    PageSizes,
    MaxChanges     \* bound: how many changes of source rows are made

Columns == {"key", "total", "other", "times"}
TypeOf(col) == "number"

\* What such a column may hold.
Cell == {None} \cup [k: {"num"}, n: Int, f: {"plain", "point", "zero"}]

\* The "by" of both pipelines: the key of the target row is that of the source row.
SourceKey == [kind |-> "topic", of |-> "source", path |-> <<"k">>, type |-> "number"]
TargetKey == [kind |-> "topic", of |-> "target", path |-> <<"key">>, type |-> "number"]

MapKey == [col |-> "key", arithmetic |-> "none", source |-> SourceKey]

\* A factor of the type "number" is read as a whole number, as nothing, or not at all.
ASSUME SourceAssumption ==
    /\ IsFiniteSet(Sources)
    /\ None \notin Datas
    /\ SourceFactors \subseteq [kind: {"topic"}, of: {"source"}, path: Seq(STRING), type: {"number"}]
    /\ \A d \in Datas, p \in SourceFactors : FactorValue(p, d) \in Cell \cup {Raised}

\* A mapping is a dict from columns, in the order in which they were given.
ASSUME MappingAssumption ==
    /\ Mappings \subseteq
          Seq([col: Columns, arithmetic: {"none", "sum", "count", "avg"}, source: SourceFactors])
    /\ \A mapping \in Mappings :
          /\ MapKey \in Range(mapping)
          /\ \A i, j \in DOMAIN mapping : mapping[i].col = mapping[j].col => i = j

ASSUME DefaultAssumption ==
    \A defaults \in DefaultSets : \A col \in DOMAIN defaults : defaults[col] \in Cell

ASSUME PageAssumption == PageSizes \subseteq Nat \ {0}

VARIABLES
    topic,    \* the target topic: its storage, the defaults and the mapping
    rows,     \* its rows
    source,   \* the source rows
    changes,  \* how many changes were made
    off       \* history: the keys whose sums a change did not reach

vars == <<topic, rows, source, changes, off>>

KeyOf(d) == FactorValue(SourceKey, d)
\* Equal keys in one form.
Key1(v) == IF v.k = "num" THEN Num(v.n) ELSE v

Init ==
    /\ topic \in [dialect: Dialects, defaults: DefaultSets, mapping: Mappings]
    /\ rows = <<>>
    /\ source = [s \in Sources |-> None]
    /\ changes = 0
    /\ off = {}

-----------------------------------------------------------------------------
(***************************************************************************)
(* Mappings: what one trigger means for a row                              *)
(***************************************************************************)
Value(m, d) == Convert(TypeOf(m.col), FactorValue(m.source, d))

\* What a column is given when its source goes from was to v.  Only a sum reads what
\* the source was; it cannot take None from, or add it to, a number.
Change(m, was, v, isNew) ==
    IF v = Raised \/ (m.arithmetic = "sum" /\ (v = None \/ was = Raised)) THEN Raised
    ELSE [col |-> m.col, do |-> IF m.arithmetic = "none" THEN "set" ELSE m.arithmetic,
          v |-> CASE m.arithmetic = "sum"   -> Num(v.n - Operand(was))
                  [] m.arithmetic = "count" -> Num(IF isNew THEN 1 ELSE 0)
                  [] OTHER                  -> v]

\* Mutant of Mapped: the whole value is added again.
MappedWhole(m, old, new) == Change(m, None, Value(m, new), old = None)

\* A sum takes what the value grew by, a count whether the source row is new.
Mapped(m, old, new) == Change(m, Value(m, old), Value(m, new), old = None)

Updates(mapping, old, new) == [i \in DOMAIN mapping |-> Mapped(mapping[i], old, new)]

-----------------------------------------------------------------------------
(***************************************************************************)
(* Rows                                                                    *)
(***************************************************************************)
\* The update of a column, or none.
OfColumn(updates, col) == SelectInSeq(updates, LAMBDA u : u.col = col)

Default(col) == IF col \in DOMAIN topic.defaults THEN topic.defaults[col] ELSE None

\* Is the column given anything but a plain None?
Given(updates, col) ==
    LET i == OfColumn(updates, col)
    IN  i # 0 /\ ~(updates[i].do = "set" /\ updates[i].v = None)
ValueOf(updates, col) == updates[OfColumn(updates, col)].v

\* A SQL insert fills in the defaults itself.  mysql leaves an average out, so that the
\* store does.
MysqlInserted(updates) ==
    [col \in Columns |->
        IF ~Given(updates, col) \/ updates[OfColumn(updates, col)].do = "avg" THEN Default(col)
        ELSE ValueOf(updates, col)]

OracleInserted(updates) ==
    [col \in Columns |-> IF Given(updates, col) THEN ValueOf(updates, col) ELSE Default(col)]

MongoInserted(updates) ==
    [col \in Columns |-> IF Given(updates, col) THEN ValueOf(updates, col) ELSE None]

Inserted(updates) ==
    CASE topic.dialect = "mysql"  -> MysqlInserted(updates)
      [] topic.dialect = "oracle" -> OracleInserted(updates)
      [] topic.dialect = "mongo"  -> MongoInserted(updates)

\* None is never set; col + v is NULL where the column is.
SqlUpdated(row, updates) ==
    [col \in Columns |->
        LET i == OfColumn(updates, col)
        IN  IF i = 0 \/ updates[i].v = None \/ updates[i].do = "avg" THEN row[col]
            ELSE IF updates[i].do = "set" THEN updates[i].v
            ELSE IF row[col] = None THEN None
            ELSE Num(row[col].n + updates[i].v.n)]

\* Every sum replaces the $inc of those before it, a count is added to the $inc there
\* is; the store takes a missing key for zero.
LastSum(updates) == SelectLastInSeq(updates, LAMBDA u : u.do = "sum")
FirstSum(updates) == SelectInSeq(updates, LAMBDA u : u.do = "sum")
FirstCount(updates) == SelectInSeq(updates, LAMBDA u : u.do = "count")
Increments(updates, i) ==
    \/ i = LastSum(updates)
    \/ updates[i].do = "count" /\ i > LastSum(updates)

MongoUpdated(row, updates) ==
    [col \in Columns |->
        LET i == OfColumn(updates, col)
        IN  IF i = 0 THEN row[col]
            ELSE IF updates[i].do = "set" THEN updates[i].v
            ELSE IF Increments(updates, i) THEN Num(Operand(row[col]) + updates[i].v.n)
            ELSE row[col]]

\* There is no $inc yet when a count comes before every sum.
UpdateRaises(updates) ==
    /\ topic.dialect = "mongo" /\ FirstCount(updates) # 0
    /\ FirstSum(updates) = 0 \/ FirstCount(updates) < FirstSum(updates)

Updated(row, updates) ==
    IF IsSql(topic.dialect) THEN SqlUpdated(row, updates) ELSE MongoUpdated(row, updates)

MatchingRows(where) ==
    {i \in DOMAIN rows : MeetsTest(topic.dialect, where, rows[i]) = "true"}

-----------------------------------------------------------------------------
(***************************************************************************)
(* Pipelines that write                                                    *)
(***************************************************************************)
ByKey(new) == ByFilter("equals", ByFactor(TargetKey, new), ByFactor(SourceKey, new))
FoundFor(new) == MatchingRows(ByKey(new))

\* insert-or-merge-row, all of it: a row that is found is updated, a new one inserted.
InsertOrMerge(updates, new) ==
    LET found == FoundFor(new)
        fails == IF Raised \in Range(updates) \/ ByKey(new) = Raised THEN TRUE
                 ELSE found # {} /\ UpdateRaises(updates)
    IN  \/ fails /\ UNCHANGED rows
        \/ ~fails /\ found = {} /\ rows' = Append(rows, Inserted(updates))
        \/ ~fails /\ \E i \in found : rows' = [rows EXCEPT ![i] = Updated(rows[i], updates)]

\* Did the update count in full?
Counted(updates, i, found) ==
    updates[i].do \in {"sum", "count"} =>
        /\ topic.dialect = "mongo" => ~UpdateRaises(updates) /\ Increments(updates, i)
        /\ IsSql(topic.dialect) => \A j \in found : rows[j][updates[i].col] # None

AllCounted(updates, found) ==
    /\ Raised \notin Range(updates)
    /\ found # {} => \A i \in DOMAIN updates : Counted(updates, i, found)

\* Did the run that took the source row from old to new count in full, on every key?
Reached(updates, old, new) ==
    /\ AllCounted(updates, FoundFor(new))
    /\ old # None => Key1(KeyOf(old)) = Key1(KeyOf(new))

\* A source row is stored or changed and the first pipeline runs.
Put(s, d) ==
    LET updates == Updates(topic.mapping, source[s], d)
    IN  /\ changes < MaxChanges
        /\ changes' = changes + 1
        /\ source' = [source EXCEPT ![s] = d]
        /\ InsertOrMerge(updates, d)
        /\ off' = IF Reached(updates, source[s], d) THEN off
                  ELSE off \cup {Key1(KeyOf(old)) : old \in {source[s], d} \ {None}}
        /\ UNCHANGED topic

\* A row of another topic runs the second pipeline.
MergeKey(d) ==
    /\ changes < MaxChanges
    /\ changes' = changes + 1
    /\ InsertOrMerge(Updates(<<MapKey>>, None, d), d)
    /\ UNCHANGED <<topic, source, off>>

Next ==
    \/ \E s \in Sources, d \in Datas : Put(s, d)
    \/ \E d \in Datas : MergeKey(d)

Spec == Init /\ [][Next]_vars

-----------------------------------------------------------------------------
(***************************************************************************)
(* Read actions                                                            *)
(***************************************************************************)
List(s) == [k |-> "list", s |-> s]
RowValue(row) == [k |-> "dict", m |-> row]
Cursor == [k |-> "cursor"]

\* The values that are not NULL.
NotNull(s) == FlattenSeq([i \in DOMAIN s |-> IF s[i] = None THEN <<>> ELSE <<s[i]>>])

\* find_one: any of the rows found, or none.
FindOne(found) == IF found = <<>> THEN {None} ELSE {RowValue(row) : row \in Range(found)}

\* find_: SQL fetches the rows, Mongo hands its cursor on.
SqlFind(found) == List([i \in DOMAIN found |-> RowValue(found[i])])
MongoFind(found) == Cursor
Find(found) == IF IsSql(topic.dialect) THEN SqlFind(found) ELSE MongoFind(found)

\* Mutant of SqlAggregate: no rows make a sum of zero.
SqlAggregateOfNone(arithmetic, values) ==
    CASE arithmetic = "count" -> IF topic.dialect = "oracle" THEN Raised ELSE Num(Len(values))
      [] arithmetic = "sum"   -> Num(SumOf(NotNull(values)))

\* SQL's sum of nothing but NULLs is NULL.  SQLAlchemy refuses to select the text that
\* stands for oracle's count.
SqlAggregate(arithmetic, values) ==
    CASE arithmetic = "count" -> IF topic.dialect = "oracle" THEN Raised ELSE Num(Len(values))
      [] arithmetic = "sum"   ->
            IF NotNull(values) = <<>> THEN None ELSE Num(SumOf(NotNull(values)))

\* Mongo's is zero, and a group of no document at all is no result.
MongoAggregate(arithmetic, values) ==
    CASE arithmetic = "count" -> Num(Len(values))
      [] arithmetic = "sum"   -> IF values = <<>> THEN None ELSE Num(SumOf(NotNull(values)))

Aggregate(arithmetic, values) ==
    IF IsSql(topic.dialect) THEN SqlAggregate(arithmetic, values) ELSE MongoAggregate(arithmetic, values)

\* The answers each of the read actions may give.  That there is none is an answer of
\* "exists" and an error of the others.
Exists(found) == {Str(<<"word", IF row = None THEN "false" ELSE "true">>) : row \in FindOne(found)}

OrRaised(answers) == {IF v = None THEN Raised ELSE v : v \in answers}

ReadRow(found) == OrRaised(FindOne(found))

\* What is not a list becomes the only element of one: a cursor.
AsList(v) == IF v.k = "list" THEN v ELSE List(<<v>>)
ReadRows(found) == {AsList(Find(found))}

ReadFactor(arithmetic, found) ==
    IF arithmetic = "none"
    THEN {IF row = None THEN Raised ELSE row.m["total"] : row \in FindOne(found)}
    ELSE OrRaised({Aggregate(arithmetic, [i \in DOMAIN found |-> found[i]["total"]])})

\* A cursor does not have the factor for a key.
Factors(v) == IF v.k = "list" THEN List([i \in DOMAIN v.s |-> v.s[i].m["total"]]) ELSE Raised
ReadFactors(found) == {Factors(Find(found))}

AnswersOf(kind, found) ==
    CASE kind = "exists"       -> Exists(found)
      [] kind = "read-row"     -> ReadRow(found)
      [] kind = "read-rows"    -> ReadRows(found)
      [] kind = "read-factor"  -> ReadFactor("none", found)
      [] kind = "read-factors" -> ReadFactors(found)
      [] OTHER                 -> ReadFactor(kind, found)

-----------------------------------------------------------------------------
(***************************************************************************)
(* Pages                                                                   *)
(***************************************************************************)
PageCount(items, size) == (items + size - 1) \div size

\* Mutant of Offset: pages are counted from zero.
OffsetFromZero(size, number) == size * number
Offset(size, number) == size * (number - 1)

\* Nothing sorts the query of a page, and every page is a query of its own: order has
\* the rows that are found, in the order in which this query comes upon them.
PageOf(order, size, number) ==
    LET first == Offset(size, number) + 1
    IN  SubSeq(order, first, Min({first + size - 1, Len(order)}))

\* The pages of a SQL store are those of the whole table.
SqlPage(order, size, number) ==
    [data |-> PageOf(order, size, number), pageCount |-> PageCount(Len(rows), size)]

MongoPage(order, size, number) ==
    [data |-> PageOf(order, size, number), pageCount |-> PageCount(Len(order), size)]

Page(order, size, number) ==
    IF IsSql(topic.dialect) THEN SqlPage(order, size, number) ELSE MongoPage(order, size, number)

\* The orders in which a store may come upon what it finds.
Orders(found) == {[i \in DOMAIN found |-> found[p[i]]] : p \in Bijection(DOMAIN found, DOMAIN found)}

-----------------------------------------------------------------------------
(***************************************************************************)
(* Properties                                                              *)
(***************************************************************************)
\* A SQL column with a default is never NULL, and a missing key is looked for as NULL.
KeyIsKept == IsSql(topic.dialect) => Default("key") = None

\* insert-or-merge finds again what it inserted: the where, the mapping and the store
\* turn one key of the trigger data into the same value, so no key has two rows.
OneRowPerKey ==
    KeyIsKept => \A i, j \in DOMAIN rows : Same(rows[i]["key"], rows[j]["key"]) => i = j

SourcesOf(key) == {s \in Sources : source[s] # None /\ Key1(KeyOf(source[s])) = key}
SourceSum(m, S) == SumFunctionOnSet([s \in S |-> Operand(Value(m, source[s]))], S)

\* The aggregate of a key is that of the source rows with the key at the moment,
\* whatever they were before: sums and counts are kept by differences alone.  Left out
\* are keys for which an action has failed, a source row has changed its key, SQL met a
\* NULL or Mongo dropped an increment (off), and columns that do not begin at zero.
TotalsFollowSources ==
    KeyIsKept =>
        \A i \in DOMAIN rows, m \in Range(topic.mapping) :
            LET key == Key1(rows[i]["key"])
                S == SourcesOf(key)
            IN  key \notin off /\ Operand(Default(m.col)) = 0 =>
                    /\ m.arithmetic = "sum" => Operand(rows[i][m.col]) = SourceSum(m, S)
                    /\ m.arithmetic = "count" => Operand(rows[i][m.col]) = Cardinality(S)

\* What a query may find, in any order.
MayBeFound == BoundedSeq(Range(rows), Len(rows))

SumOfFactors(values) ==
    IF values = <<>> THEN Raised ELSE FuncPattern("v", "sum", [v |-> List(values)])

\* The read actions agree with each other about a condition: exists, read-row and,
\* where the store answers it, count on whether and how many, and in SQL the factors
\* read one by one on the sum.
ReadsAgree ==
    \A found \in MayBeFound :
        \A exists \in AnswersOf("exists", found), row \in AnswersOf("read-row", found),
           count \in AnswersOf("count", found), sum \in AnswersOf("sum", found),
           factors \in AnswersOf("read-factors", found) :
              /\ exists = Str(<<"word", "true">>) <=> row # Raised
              /\ topic.dialect # "oracle" => (row = Raised <=> count = Num(0))
              /\ IsSql(topic.dialect) => sum = SumOfFactors(NotNull(factors.s))

\* While nothing is written, a client that turns the pages of a query from 1 to the page
\* count it is told is shown as many rows as there are, however the store orders every
\* page; that every row is shown once is promised only where one order lasts for all.
PagesAddUp ==
    \A found \in MayBeFound, size \in PageSizes :
        \A orders \in [1..Page(found, size, 1).pageCount -> Orders(found)] :
            LET shown == FlattenSeq([n \in DOMAIN orders |-> Page(orders[n], size, n).data])
            IN  /\ Len(shown) = Len(found)
                /\ (\A n \in DOMAIN orders : orders[n] = found) => shown = found

=============================================================================
