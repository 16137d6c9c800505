------------------------- MODULE TopicStore_proofs -------------------------
(***************************************************************************)
(* Proofs about TopicStore, for any finite set of source rows, any         *)
(* mappings and defaults and any number of changes: a key has one row, the *)
(* sums and counts of the rows follow their sources, and the read actions  *)
(* and the pages agree about what a query finds.                           *)
(***************************************************************************)
EXTENDS TopicStore, FiniteSetTheorems, SequenceTheorems, WellFoundedInduction, TLAPS

-----------------------------------------------------------------------------
(* Numbers, and the first and the last of some positions.                  *)

LEMMA NatMin ==
  ASSUME NEW T, T \subseteq Nat, T # {}
  PROVE  \E x \in T : \A y \in T : x <= y
<1> DEFINE R == OpToRel(<, Nat)
<1>1. IsWellFoundedOn(R, Nat)
  BY NatLessThanWellFounded
<1>2. \A x, y \in Nat : y < x => <<y, x>> \in R
  BY DEF OpToRel
<1> HIDE DEF R
<1>3. PICK x \in T : \A y \in T : ~(<<y, x>> \in R)
  BY <1>1, WFMin
<1>4. \A y \in T : ~(y < x)
  BY <1>2, <1>3
<1> QED
  BY <1>4

\* The form in which the lemmas below use induction: what holds of zero and is passed
\* on to the next number holds of every number up to n.
LEMMA Inductive ==
  ASSUME NEW n \in Nat, NEW Good, 0 \in Good,
         \A i \in 0..n : i \in Good /\ i < n => i + 1 \in Good
  PROVE  \A i \in 0..n : i \in Good
<1> DEFINE T == {i \in 0..n : i \notin Good}
<1>1. SUFFICES ASSUME T # {}
               PROVE  FALSE
  OBVIOUS
<1>0. T \subseteq Nat
  OBVIOUS
<1>2. PICK x \in T : \A y \in T : x <= y
  BY <1>1, <1>0, NatMin
<1>3. x # 0 /\ x - 1 \in 0..n /\ x - 1 \notin T
  BY <1>2
<1> QED
  BY <1>3

LEMMA MinFacts ==
  ASSUME NEW n \in Nat, NEW S, S \subseteq 1..n, S # {}
  PROVE  Min(S) \in S /\ \A y \in S : Min(S) <= y
<1>1. S \subseteq Nat
  OBVIOUS
<1>2. PICK x \in S : \A y \in S : x <= y
  BY <1>1, NatMin
<1> QED
  BY <1>1, <1>2 DEF Min

LEMMA MaxFacts ==
  ASSUME NEW n \in Nat, NEW S, S \subseteq 1..n, S # {}
  PROVE  Max(S) \in S /\ \A y \in S : y <= Max(S)
<1> DEFINE U == {m \in Nat : \E y \in S : m = n - y}
<1>1. PICK y \in S : TRUE
  OBVIOUS
<1>2. n - y \in U
  OBVIOUS
<1>3. PICK m \in U : \A k \in U : m <= k
  BY <1>2, NatMin
<1>4. PICK x \in S : m = n - x
  BY <1>3
<1>5. ASSUME NEW z \in S
      PROVE  z <= x
  <2>1. n - z \in U
    OBVIOUS
  <2> QED
    BY <1>3, <1>4, <2>1
<1> QED
  BY <1>5 DEF Max

-----------------------------------------------------------------------------
(* Cells and what is read from the source rows.                            *)

LEMMA CellFacts ==
  /\ None \in Cell /\ Raised \notin Cell /\ None # Raised
  /\ \A n \in Int : Num(n) \in Cell
  /\ \A v \in Cell : \/ v = None
                     \/ v # None /\ v.k = "num" /\ v.n \in Int
  /\ None.k = "none" /\ None.k # "num"
<1>1. None # Raised
  BY DEF None, Raised
<1>2. \A v \in [k: {"num"}, n: Int, f: {"plain", "point", "zero"}] :
         v.k = "num" /\ v.n \in Int /\ v # None /\ v # Raised
  BY DEF None, Raised
<1>3. \A n \in Int : Num(n) \in Cell
  BY DEF Cell, Num
<1> QED
  BY <1>1, <1>2, <1>3 DEF Cell, None

LEMMA OperandFacts ==
  /\ Operand(None) = 0
  /\ \A v \in Cell : Operand(v) \in Int
  /\ \A v \in Cell : v # None => Operand(v) = v.n
  /\ \A n \in Int : Num(n).k = "num" /\ Num(n).n = n /\ Num(n) # None /\ Operand(Num(n)) = n
<1>1. \A n \in Int : Num(n).k = "num" /\ Num(n).n = n /\ Num(n) # None
  BY DEF Num, None
<1> QED
  BY <1>1, CellFacts DEF Operand

\* Equal keys have one form, and no others.
LEMMA SameIsKey1 ==
  ASSUME NEW a \in Cell, NEW b \in Cell
  PROVE  /\ Same(a, b) <=> Key1(a) = Key1(b)
         /\ Key1(a) = Key1(None) => a = None
<1>1. \A n, m \in Int : Num(n) = Num(m) => n = m
  BY DEF Num
<1>2. \A n \in Int : Num(n) # None
  BY OperandFacts
<1> QED
  BY <1>1, <1>2, CellFacts DEF Same, Key1

LEMMA ConvertCell ==
  ASSUME NEW v \in Cell \cup {Raised}
  PROVE  Convert("number", v) = v
<1>1. CASE v = Raised
  BY <1>1 DEF Convert
<1>2. CASE v = None
  BY <1>2, CellFacts DEF Convert, IsEmpty
<1>3. CASE v \in Cell /\ v # None
  <2>1. v.k = "num" /\ v # Raised
    BY <1>3, CellFacts
  <2>2. ~IsEmpty(v)
    <3>1. Str(<<"">>).k = "str"
      BY DEF Str
    <3> QED
      BY <1>3, <2>1, <3>1 DEF IsEmpty
  <2> QED
    BY <2>1, <2>2 DEF Convert
<1> QED
  BY <1>1, <1>2, <1>3

\* No level of a path finds anything in nothing.
LEMMA NothingHasNoFactor ==
  ASSUME NEW p \in SourceFactors
  PROVE  FactorValue(p, None) = None
<1>1. p.path \in Seq(STRING) /\ p.type = "number"
  BY SourceAssumption
<1> DEFINE n == Len(p.path)
           at == CHOOSE at : at = [i \in 0..n |->
                    IF i = 0 THEN None ELSE GetFactorValue(at[i - 1], p.path[i])]
           g == [i \in 0..n |-> None]
<1>2. n \in Nat
  BY <1>1
<1>3. \A name : GetFactorValue(None, name) = None
  BY DEF GetFactorValue, None
<1>4. g = [i \in 0..n |-> IF i = 0 THEN None ELSE GetFactorValue(g[i - 1], p.path[i])]
  <2>1. ASSUME NEW i \in 0..n, i # 0
        PROVE  g[i - 1] = None
    BY <1>2, <2>1
  <2> QED
    BY <1>3, <2>1
<1>5. at = [i \in 0..n |-> IF i = 0 THEN None ELSE GetFactorValue(at[i - 1], p.path[i])]
  BY <1>4
<1>6. CalFactorValue(None, p.path) = Unwrap(at[n])
  BY DEF CalFactorValue
<1> HIDE DEF at
<1>7. at[n] = None
  <2> DEFINE Good == {i \in 0..n : at[i] = None}
  <2>1. 0 \in Good
    BY <1>2, <1>5
  <2>2. ASSUME NEW i \in 0..n, i \in Good, i < n
        PROVE  i + 1 \in Good
    <3>1. i + 1 \in 0..n /\ i + 1 # 0 /\ (i + 1) - 1 = i
      BY <1>2, <2>2
    <3>2. at[i + 1] = GetFactorValue(at[i], p.path[i + 1])
      BY <1>5, <3>1
    <3> QED
      BY <1>3, <2>2, <3>1, <3>2
  <2> HIDE DEF Good
  <2>3. \A i \in 0..n : i \in Good
    BY <1>2, <2>1, <2>2, Inductive
  <2>4. n \in 0..n
    BY <1>2
  <2> QED
    BY <2>3, <2>4 DEF Good
<1>8. Unwrap(None) = None
  BY CellFacts DEF Unwrap, None
<1> QED
  BY <1>1, <1>6, <1>7, <1>8, ConvertCell, CellFacts DEF FactorValue

-----------------------------------------------------------------------------
(* Mappings and updates.                                                   *)

Arithmetics == {"none", "sum", "count", "avg"}
IsMapping(mapping) ==
  /\ mapping \in Seq([col: Columns, arithmetic: Arithmetics, source: SourceFactors])
  /\ MapKey \in Range(mapping)
  /\ \A i, j \in DOMAIN mapping : mapping[i].col = mapping[j].col => i = j

\* An update is what a run that does not raise gives a column.
Update == [col: Columns, do: {"set", "sum", "count", "avg"}, v: Cell]

\* The updates of one run for the trigger data d.
AreUpdates(updates, d) ==
  /\ updates \in Seq(Update)
  /\ \A i \in DOMAIN updates : updates[i].do \in {"sum", "count"} => updates[i].v # None
  /\ \A i, j \in DOMAIN updates : updates[i].col = updates[j].col => i = j
  /\ \E i \in DOMAIN updates : updates[i].col = "key" /\ updates[i].do = "set" /\ updates[i].v = KeyOf(d)

LEMMA MappingFacts ==
  ASSUME NEW mapping \in Mappings
  PROVE  IsMapping(mapping) /\ IsMapping(<<MapKey>>) /\ SourceKey \in SourceFactors
<1>1. IsMapping(mapping)
  BY MappingAssumption DEF IsMapping, Arithmetics
<1>2. SourceKey \in SourceFactors
  <2>1. PICK i \in DOMAIN mapping : mapping[i] = MapKey
    BY <1>1 DEF IsMapping, Range
  <2>2. mapping \in Seq([col: Columns, arithmetic: Arithmetics, source: SourceFactors])
    BY <1>1 DEF IsMapping
  <2>3. i \in 1..Len(mapping)
    BY <2>1, <2>2
  <2>4. mapping[i] \in [col: Columns, arithmetic: Arithmetics, source: SourceFactors]
    BY <2>2, <2>3, ElementOfSeq
  <2> QED
    BY <2>1, <2>4 DEF MapKey
<1>3. MapKey \in [col: Columns, arithmetic: Arithmetics, source: SourceFactors]
  BY <1>2 DEF MapKey, Columns, Arithmetics
<1>4. IsMapping(<<MapKey>>)
  BY <1>3 DEF IsMapping, Range
<1> QED
  BY <1>1, <1>2, <1>4

LEMMA KeyFacts ==
  ASSUME SourceKey \in SourceFactors, NEW d \in Datas
  PROVE  KeyOf(d) \in Cell \cup {Raised} /\ d # None
BY SourceAssumption DEF KeyOf

LEMMA ValueFacts ==
  ASSUME NEW m, m.source \in SourceFactors, NEW d \in Datas \cup {None}
  PROVE  /\ Value(m, d) \in Cell \cup {Raised}
         /\ Value(m, d) = FactorValue(m.source, d)
         /\ d = None => Value(m, d) = None
<1>1. FactorValue(m.source, d) \in Cell \cup {Raised}
  BY SourceAssumption, NothingHasNoFactor, CellFacts
<1>2. Value(m, d) = FactorValue(m.source, d)
  BY <1>1, ConvertCell DEF Value, TypeOf
<1> QED
  BY <1>1, <1>2, NothingHasNoFactor

\* What a mapped column is given, where nothing raises.
LEMMA MappedFacts ==
  ASSUME NEW m \in [col: Columns, arithmetic: Arithmetics, source: SourceFactors],
         NEW old \in Datas \cup {None}, NEW new \in Datas,
         Mapped(m, old, new) # Raised
  PROVE  LET u == Mapped(m, old, new)
         IN  /\ u \in Update /\ u.col = m.col
             /\ Value(m, new) \in Cell
             /\ m.arithmetic = "none" => u.do = "set" /\ u.v = Value(m, new)
             /\ m.arithmetic # "none" => u.do = m.arithmetic
             /\ m.arithmetic = "sum" =>
                   /\ Value(m, new) # None /\ Value(m, old) \in Cell
                   /\ u.v = Num(Value(m, new).n - Operand(Value(m, old)))
             /\ m.arithmetic = "count" => u.v = Num(IF old = None THEN 1 ELSE 0)
             /\ u.do \in {"sum", "count"} => u.v # None /\ m.arithmetic = u.do
<1> DEFINE was == Value(m, old)
           v == Value(m, new)
<1>1. was \in Cell \cup {Raised} /\ v \in Cell \cup {Raised}
  BY ValueFacts
<1>2. m.arithmetic \in Arithmetics /\ m.col \in Columns
  OBVIOUS
<1>3. Mapped(m, old, new) = Change(m, was, v, old = None)
  BY DEF Mapped
<1> HIDE DEF was, v
<1>4. v \in Cell /\ (m.arithmetic = "sum" => v # None /\ was \in Cell)
  BY <1>1, <1>3 DEF Change
<1>5. CASE m.arithmetic = "sum"
  <2>1. v.n - Operand(was) \in Int
    BY <1>4, <1>5, CellFacts, OperandFacts
  <2>2. Mapped(m, old, new) = [col |-> m.col, do |-> "sum", v |-> Num(v.n - Operand(was))]
    BY <1>3, <1>4, <1>5, CellFacts DEF Change
  <2> QED
    BY <1>2, <1>4, <1>5, <2>1, <2>2, CellFacts, OperandFacts DEF Update, v, was
<1>6. CASE m.arithmetic = "count"
  <2>1. Mapped(m, old, new) = [col |-> m.col, do |-> "count", v |-> Num(IF old = None THEN 1 ELSE 0)]
    BY <1>3, <1>4, <1>6, CellFacts DEF Change
  <2> QED
    BY <1>2, <1>4, <1>6, <2>1, CellFacts, OperandFacts DEF Update, v
<1>7. CASE m.arithmetic = "none"
  <2>1. Mapped(m, old, new) = [col |-> m.col, do |-> "set", v |-> v]
    BY <1>3, <1>4, <1>7, CellFacts DEF Change
  <2> QED
    BY <1>2, <1>4, <1>7, <2>1 DEF Update, v
<1>8. CASE m.arithmetic = "avg"
  <2>1. Mapped(m, old, new) = [col |-> m.col, do |-> "avg", v |-> v]
    BY <1>3, <1>4, <1>8, CellFacts DEF Change
  <2> QED
    BY <1>2, <1>4, <1>8, <2>1 DEF Update, v
<1> QED
  BY <1>2, <1>5, <1>6, <1>7, <1>8 DEF Arithmetics

\* A key that does not convert is an update that raises.
LEMMA KeyRaises ==
  ASSUME NEW mapping, IsMapping(mapping), NEW old, NEW d \in Datas, KeyOf(d) = Raised
  PROVE  Raised \in Range(Updates(mapping, old, d))
<1>1. PICK i \in DOMAIN mapping : mapping[i] = MapKey
  BY DEF IsMapping, Range
<1>2. Value(MapKey, d) = Raised
  BY ConvertCell DEF Value, TypeOf, MapKey, KeyOf
<1>3. Mapped(MapKey, old, d) = Raised
  BY <1>2 DEF Mapped, Change
<1> QED
  BY <1>1, <1>3 DEF Updates, Range

LEMMA UpdatesFacts ==
  ASSUME NEW mapping, IsMapping(mapping), NEW old \in Datas \cup {None}, NEW d \in Datas,
         Raised \notin Range(Updates(mapping, old, d))
  PROVE  /\ AreUpdates(Updates(mapping, old, d), d)
         /\ DOMAIN Updates(mapping, old, d) = DOMAIN mapping
         /\ KeyOf(d) \in Cell
<1> DEFINE updates == Updates(mapping, old, d)
<1>1. DOMAIN updates = DOMAIN mapping /\ DOMAIN mapping = 1..Len(mapping) /\ Len(mapping) \in Nat
  BY DEF Updates, IsMapping
<1>2. ASSUME NEW i \in DOMAIN mapping
      PROVE  /\ updates[i] = Mapped(mapping[i], old, d) /\ updates[i] # Raised
             /\ mapping[i] \in [col: Columns, arithmetic: Arithmetics, source: SourceFactors]
  <2>1. mapping[i] \in [col: Columns, arithmetic: Arithmetics, source: SourceFactors]
    BY <1>1, ElementOfSeq DEF IsMapping
  <2>2. updates[i] = Mapped(mapping[i], old, d)
    BY DEF Updates
  <2>3. updates[i] # Raised
    BY <1>1 DEF Range
  <2> QED
    BY <2>1, <2>2, <2>3
<1> HIDE DEF updates
<1>3. \A i \in DOMAIN mapping :
         /\ updates[i] \in Update /\ updates[i].col = mapping[i].col
         /\ updates[i].do \in {"sum", "count"} => updates[i].v # None
  BY <1>2, MappedFacts
<1>4. updates \in Seq(Update)
  <2>1. updates = [i \in 1..Len(mapping) |-> updates[i]]
    BY <1>1 DEF updates, Updates
  <2> QED
    BY <1>1, <1>3, <2>1, IsASeq
<1>5. PICK i \in DOMAIN mapping : mapping[i] = MapKey
  BY DEF IsMapping, Range
<1>6. /\ updates[i].col = "key" /\ updates[i].do = "set"
      /\ updates[i].v = Value(MapKey, d) /\ Value(MapKey, d) \in Cell
  BY <1>2, <1>5, MappedFacts DEF MapKey
<1>7. KeyOf(d) \in Cell /\ Value(MapKey, d) = KeyOf(d)
  <2>1. Value(MapKey, d) = FactorValue(MapKey.source, d)
    BY <1>2, <1>5, ValueFacts
  <2> QED
    BY <1>6, <2>1 DEF MapKey, KeyOf
<1>8. \A k, j \in DOMAIN updates : updates[k].col = updates[j].col => k = j
  BY <1>1, <1>3 DEF IsMapping
<1> QED
  BY <1>1, <1>3, <1>4, <1>5, <1>6, <1>7, <1>8 DEF AreUpdates, updates
-----------------------------------------------------------------------------
(* Rows that are inserted and updated.                                     *)

Row == [Columns -> Cell]
IsTopic == topic \in [dialect: Dialects, defaults: DefaultSets, mapping: Mappings]

LEMMA DefaultFacts ==
  ASSUME IsTopic, NEW col
  PROVE  Default(col) \in Cell
BY DefaultAssumption, CellFacts DEF IsTopic, Default

\* The update of a column is the one there is.
LEMMA OfColumnFacts ==
  ASSUME NEW d, NEW updates, AreUpdates(updates, d), NEW col
  PROVE  /\ \A i \in DOMAIN updates : updates[i].col = col => OfColumn(updates, col) = i
         /\ (\A i \in DOMAIN updates : updates[i].col # col) => OfColumn(updates, col) = 0
         /\ OfColumn(updates, col) # 0 => /\ OfColumn(updates, col) \in DOMAIN updates
                                          /\ updates[OfColumn(updates, col)].col = col
<1> DEFINE I == {i \in 1..Len(updates) : updates[i].col = col}
<1>1. Len(updates) \in Nat /\ DOMAIN updates = 1..Len(updates)
  BY LenProperties DEF AreUpdates
<1>2. OfColumn(updates, col) = IF I # {} THEN Min(I) ELSE 0
  BY DEF OfColumn, SelectInSeq
<1>3. I # {} => Min(I) \in I
  BY <1>1, MinFacts
<1>4. \A i, j \in DOMAIN updates : updates[i].col = updates[j].col => i = j
  BY DEF AreUpdates
<1> QED
  BY <1>1, <1>2, <1>3, <1>4

LEMMA UpdateFacts ==
  ASSUME NEW d, NEW updates, AreUpdates(updates, d), NEW i \in DOMAIN updates
  PROVE  /\ updates[i].col \in Columns /\ updates[i].v \in Cell
         /\ updates[i].do \in {"set", "sum", "count", "avg"}
         /\ updates[i].do \in {"sum", "count"} =>
               updates[i].v # None /\ updates[i].v.n \in Int /\ Operand(updates[i].v) = updates[i].v.n
<1>1. i \in 1..Len(updates) /\ updates \in Seq(Update)
  BY LenProperties DEF AreUpdates
<1>2. updates[i] \in Update
  BY <1>1, ElementOfSeq
<1>3. updates[i].do \in {"sum", "count"} => updates[i].v # None
  BY DEF AreUpdates
<1> QED
  BY <1>2, <1>3, CellFacts, OperandFacts DEF Update

\* What an insert leaves in a column: what it is given, or what the column begins with.
LEMMA InsertedFacts ==
  ASSUME IsTopic, NEW d, NEW updates, AreUpdates(updates, d)
  PROVE  /\ Inserted(updates) \in Row
         /\ \A i \in DOMAIN updates :
               updates[i].do \in {"sum", "count"} => Inserted(updates)[updates[i].col] = updates[i].v
         /\ \A col \in Columns :
               OfColumn(updates, col) = 0 => Inserted(updates)[col] \in {None, Default(col)}
         /\ KeyIsKept => Inserted(updates)["key"] = KeyOf(d)
<1> DEFINE row == Inserted(updates)
<1>1. \A col \in Columns : Default(col) \in Cell
  BY DefaultFacts
<1>2. \A col \in Columns : Given(updates, col) =>
         /\ OfColumn(updates, col) # 0
         /\ ValueOf(updates, col) \in Cell
         /\ ValueOf(updates, col) = updates[OfColumn(updates, col)].v
  BY OfColumnFacts, UpdateFacts DEF Given, ValueOf
<1>3. topic.dialect \in {"mysql", "oracle", "mongo"}
  BY DEF IsTopic, Dialects
<1>4. /\ DOMAIN row = Columns /\ row = [col \in Columns |-> row[col]]
      /\ \A col \in Columns :
         \/ row[col] = Default(col) /\ ~Given(updates, col) /\ IsSql(topic.dialect)
         \/ /\ row[col] = Default(col) /\ topic.dialect = "mysql" /\ Given(updates, col)
            /\ updates[OfColumn(updates, col)].do = "avg"
         \/ row[col] = None /\ ~Given(updates, col) /\ topic.dialect = "mongo"
         \/ row[col] = ValueOf(updates, col) /\ Given(updates, col)
  <2>1. CASE topic.dialect = "mysql"
    BY <2>1 DEF Inserted, MysqlInserted, IsSql
  <2>2. CASE topic.dialect = "oracle"
    BY <2>2 DEF Inserted, OracleInserted, IsSql
  <2>3. CASE topic.dialect = "mongo"
    BY <2>3 DEF Inserted, MongoInserted, IsSql
  <2> QED
    BY <1>3, <2>1, <2>2, <2>3
<1> HIDE DEF row
<1>5. row \in Row
  BY <1>1, <1>2, <1>4, CellFacts DEF Row
<1>6. ASSUME NEW i \in DOMAIN updates, updates[i].do \in {"sum", "count"}
      PROVE  row[updates[i].col] = updates[i].v
  <2>1. OfColumn(updates, updates[i].col) = i /\ updates[i].col \in Columns /\ i # 0
    BY OfColumnFacts, UpdateFacts, LenProperties DEF AreUpdates
  <2>2. Given(updates, updates[i].col)
    BY <1>6, <2>1 DEF Given
  <2> QED
    BY <1>2, <1>4, <1>6, <2>1, <2>2
<1>7. ASSUME NEW col \in Columns, OfColumn(updates, col) = 0
      PROVE  row[col] \in {None, Default(col)}
  BY <1>4, <1>7 DEF Given
<1>8. ASSUME KeyIsKept
      PROVE  row["key"] = KeyOf(d)
  <2>1. PICK i \in DOMAIN updates :
           updates[i].col = "key" /\ updates[i].do = "set" /\ updates[i].v = KeyOf(d)
    BY DEF AreUpdates
  <2>2. OfColumn(updates, "key") = i /\ "key" \in Columns /\ i # 0
    BY <2>1, OfColumnFacts, LenProperties DEF AreUpdates, Columns
  <2>3. Given(updates, "key") <=> KeyOf(d) # None
    BY <2>1, <2>2 DEF Given
  <2>4. IsSql(topic.dialect) => Default("key") = None
    BY <1>8 DEF KeyIsKept
  <2> QED
    BY <1>2, <1>4, <2>1, <2>2, <2>3, <2>4
<1> QED
  BY <1>5, <1>6, <1>7, <1>8 DEF row

\* What an update leaves in a column: what there was, or what the update makes of it.
LEMMA UpdatedFacts ==
  ASSUME IsTopic, NEW d, KeyOf(d) \in Cell, NEW updates, AreUpdates(updates, d), NEW row \in Row
  PROVE  /\ Updated(row, updates) \in Row
         /\ \A col \in Columns : OfColumn(updates, col) = 0 => Updated(row, updates)[col] = row[col]
         /\ Same(row["key"], KeyOf(d)) => Key1(Updated(row, updates)["key"]) = Key1(row["key"])
<1> DEFINE new == Updated(row, updates)
<1>1. \A col \in Columns : OfColumn(updates, col) # 0 =>
         LET u == updates[OfColumn(updates, col)]
         IN  u.v \in Cell /\ (u.do \in {"sum", "count"} => u.v.n \in Int)
  BY OfColumnFacts, UpdateFacts
<1>2. /\ new = [col \in Columns |-> new[col]]
      /\ \A col \in Columns :
            LET u == updates[OfColumn(updates, col)]
            IN  \/ new[col] = row[col] /\ (OfColumn(updates, col) # 0 => u.do # "set" \/ u.v = None)
                \/ new[col] = u.v /\ OfColumn(updates, col) # 0 /\ u.do = "set"
                \/ /\ new[col] = None \/ new[col] = Num(Operand(row[col]) + u.v.n)
                   /\ OfColumn(updates, col) # 0 /\ u.do \in {"sum", "count"}
  <2>0. \A col \in Columns : row[col] # None => Operand(row[col]) = row[col].n
    BY OperandFacts DEF Row
  <2>4. \A col \in Columns : OfColumn(updates, col) # 0 =>
           updates[OfColumn(updates, col)].do \in {"set", "sum", "count", "avg"}
    BY OfColumnFacts, UpdateFacts
  <2>1. CASE IsSql(topic.dialect)
    BY <2>0, <2>1, <2>4 DEF Updated, SqlUpdated
  <2>2. CASE ~IsSql(topic.dialect)
    <3>1. \A i \in DOMAIN updates : Increments(updates, i) => updates[i].do \in {"sum", "count"}
      <4>1. ASSUME NEW i \in DOMAIN updates, i = LastSum(updates)
            PROVE  updates[i].do = "sum"
        <5> DEFINE I == {j \in 1..Len(updates) : updates[j].do = "sum"}
        <5>1. Len(updates) \in Nat /\ DOMAIN updates = 1..Len(updates)
          BY LenProperties DEF AreUpdates
        <5>2. LastSum(updates) = IF I # {} THEN Max(I) ELSE 0
          BY DEF LastSum, SelectLastInSeq
        <5>3. I # {} => Max(I) \in I
          BY <5>1, MaxFacts
        <5>4. \A j \in I : updates[j].do = "sum"
          OBVIOUS
        <5>5. i # 0
          BY <5>1
        <5> HIDE DEF I
        <5> QED
          BY <4>1, <5>2, <5>3, <5>4, <5>5
      <4> QED
        BY <4>1 DEF Increments
    <3>2. \A col \in Columns : OfColumn(updates, col) # 0 => OfColumn(updates, col) \in DOMAIN updates
      BY OfColumnFacts
    <3> QED
      BY <2>2, <2>4, <3>1, <3>2 DEF Updated, MongoUpdated
  <2> QED
    BY <2>1, <2>2
<1> HIDE DEF new
<1>3. new \in Row
  <2>1. \A col \in Columns : new[col] \in Cell
    BY <1>1, <1>2, CellFacts, OperandFacts DEF Row
  <2> QED
    BY <1>2, <2>1 DEF Row
<1>4. \A col \in Columns : OfColumn(updates, col) = 0 => new[col] = row[col]
  BY <1>2
<1>5. ASSUME Same(row["key"], KeyOf(d))
      PROVE  Key1(new["key"]) = Key1(row["key"])
  <2>1. PICK i \in DOMAIN updates :
           updates[i].col = "key" /\ updates[i].do = "set" /\ updates[i].v = KeyOf(d)
    BY DEF AreUpdates
  <2>2. OfColumn(updates, "key") = i /\ "key" \in Columns /\ i # 0
    BY <2>1, OfColumnFacts, LenProperties DEF AreUpdates, Columns
  <2>3. new["key"] = row["key"] \/ new["key"] = KeyOf(d)
    BY <1>2, <2>1, <2>2
  <2>4. row["key"] \in Cell
    BY <2>2 DEF Row
  <2> QED
    BY <1>5, <2>3, <2>4, SameIsKey1
<1> QED
  BY <1>3, <1>4, <1>5 DEF new

\* An update that counts in full adds what it says.
LEMMA UpdatedAmount ==
  ASSUME IsTopic, NEW d, NEW updates, AreUpdates(updates, d),
         NEW row \in Row, NEW i \in DOMAIN updates, updates[i].do \in {"sum", "count"},
         topic.dialect = "mongo" => Increments(updates, i),
         IsSql(topic.dialect) => row[updates[i].col] # None
  PROVE  Operand(Updated(row, updates)[updates[i].col]) = Operand(row[updates[i].col]) + updates[i].v.n
<1> DEFINE col == updates[i].col
<1>1. OfColumn(updates, col) = i /\ col \in Columns /\ i # 0
  BY OfColumnFacts, UpdateFacts, LenProperties DEF AreUpdates
<1>2. updates[i].v # None /\ updates[i].v.n \in Int
  BY UpdateFacts
<1>3. row[col] \in Cell /\ Operand(row[col]) \in Int /\ (row[col] # None => Operand(row[col]) = row[col].n)
  BY <1>1, OperandFacts DEF Row
<1>4. Updated(row, updates)[col] = Num(Operand(row[col]) + updates[i].v.n)
  <2>1. CASE IsSql(topic.dialect)
    BY <1>1, <1>2, <1>3, <2>1 DEF Updated, SqlUpdated
  <2>2. CASE ~IsSql(topic.dialect)
    <3>1. topic.dialect = "mongo"
      BY <2>2 DEF IsTopic, Dialects, IsSql
    <3> QED
      BY <1>1, <2>2, <3>1 DEF Updated, MongoUpdated
  <2> QED
    BY <2>1, <2>2
<1>5. Operand(row[col]) + updates[i].v.n \in Int
  BY <1>2, <1>3
<1> QED
  BY <1>4, <1>5, OperandFacts
-----------------------------------------------------------------------------
(* What insert-or-merge finds, and what it does to the rows.               *)

TypeInv ==
  /\ IsTopic
  /\ rows \in Seq(Row)
  /\ source \in [Sources -> Datas \cup {None}]

\* The where of the key: a test of equality, or none where the key does not convert.
LEMMA WhereOfKey ==
  ASSUME NEW d, KeyOf(d) \in Cell \cup {Raised}
  PROVE  /\ KeyOf(d) = Raised => ByKey(d) = Raised
         /\ KeyOf(d) \in Cell =>
               ByKey(d) = [k |-> "where", is |-> "test", col |-> "key", op |-> "=", v |-> KeyOf(d)]
<1> DEFINE l == [k |-> "left", name |-> "key", type |-> "number"]
           r == [k |-> "right", v |-> KeyOf(d)]
<1>1. ByFactor(TargetKey, d) = l
  BY DEF ByFactor, TargetKey
<1>2. ByFactor(SourceKey, d) = Right(KeyOf(d))
  BY DEF ByFactor, SourceKey, KeyOf
<1>3. l # Raised /\ r # Raised /\ l.k # r.k
  BY DEF Raised
<1>4. KeyOf(d) = Raised => ByKey(d) = Raised
  BY <1>2 DEF ByKey, ByFilter, Right
<1>5. ASSUME KeyOf(d) \in Cell
      PROVE  ByKey(d) = [k |-> "where", is |-> "test", col |-> "key", op |-> "=", v |-> KeyOf(d)]
  <2>1. KeyOf(d) # Raised /\ KeyOf(d).k # "list"
    BY <1>5, CellFacts
  <2>2. Right(KeyOf(d)) = r
    BY <2>1 DEF Right
  <2>3. ByKey(d) = WhereTest("equals", "key", "number", KeyOf(d))
    BY <1>1, <1>2, <1>3, <2>2 DEF ByKey, ByFilter
  <2>4. Adapted("number", KeyOf(d)) = KeyOf(d)
    BY <1>5, <2>1, ConvertCell DEF Adapted
  <2>5. "equals" \in DOMAIN WhereOp /\ WhereOp["equals"] = "="
    BY DEF WhereOp
  <2> QED
    BY <2>1, <2>3, <2>4, <2>5 DEF WhereTest
<1> QED
  BY <1>4, <1>5

\* In each of the stores a row is found for a key when it has the key.
LEMMA FoundForKey ==
  ASSUME IsTopic, rows \in Seq(Row), NEW d, KeyOf(d) \in Cell
  PROVE  /\ FoundFor(d) = {i \in DOMAIN rows : Key1(rows[i]["key"]) = Key1(KeyOf(d))}
         /\ \A i \in FoundFor(d) : Same(rows[i]["key"], KeyOf(d))
<1> DEFINE where == [k |-> "where", is |-> "test", col |-> "key", op |-> "=", v |-> KeyOf(d)]
<1>1. ByKey(d) = where
  BY WhereOfKey
<1>2. where # Raised
  BY DEF Raised
<1>3. KeyOf(d).k # "list"
  BY CellFacts
<1>4. \A i \in DOMAIN rows : rows[i]["key"] \in Cell
  <2>1. \A i \in DOMAIN rows : rows[i] \in Row
    BY ElementOfSeq, LenProperties
  <2> QED
    BY <2>1 DEF Row, Columns
<1>5. \A i \in DOMAIN rows :
         MeetsTest(topic.dialect, where, rows[i]) = "true" <=> Same(rows[i]["key"], KeyOf(d))
  <2> TAKE i \in DOMAIN rows
  <2>1. CASE IsSql(topic.dialect)
    <3>1. MeetsTest(topic.dialect, where, rows[i])
             = SqlTest(topic.dialect, "=", rows[i]["key"], KeyOf(d))
      BY <1>2, <2>1 DEF MeetsTest
    <3>2. SqlTest(topic.dialect, "=", rows[i]["key"], KeyOf(d))
             = Truth(IF KeyOf(d) = None THEN rows[i]["key"] = None ELSE Same(rows[i]["key"], KeyOf(d)))
      BY <1>3 DEF SqlTest
    <3>3. KeyOf(d) = None => (Same(rows[i]["key"], KeyOf(d)) <=> rows[i]["key"] = None)
      BY CellFacts DEF Same
    <3> QED
      BY <3>1, <3>2, <3>3 DEF Truth
  <2>2. CASE ~IsSql(topic.dialect)
    <3>1. MeetsTest(topic.dialect, where, rows[i]) = MongoTest("=", rows[i]["key"], KeyOf(d))
      BY <1>2, <2>2 DEF MeetsTest
    <3> QED
      BY <3>1 DEF MongoTest, Truth
  <2> QED
    BY <2>1, <2>2
<1> HIDE DEF where
<1>6. FoundFor(d) = {i \in DOMAIN rows : Same(rows[i]["key"], KeyOf(d))}
  BY <1>1, <1>5 DEF FoundFor, MatchingRows
<1> QED
  BY <1>4, <1>6, SameIsKey1

\* An update raises where there is a count.
LEMMA RaisesForCount ==
  ASSUME NEW updates \in Seq(Update), UpdateRaises(updates)
  PROVE  topic.dialect = "mongo" /\ \E i \in DOMAIN updates : updates[i].do = "count"
<1> DEFINE I == {i \in 1..Len(updates) : updates[i].do = "count"}
<1>1. Len(updates) \in Nat /\ DOMAIN updates = 1..Len(updates)
  BY LenProperties
<1>2. FirstCount(updates) = IF I # {} THEN Min(I) ELSE 0
  BY DEF FirstCount, SelectInSeq
<1>3. topic.dialect = "mongo" /\ I # {}
  BY <1>2 DEF UpdateRaises
<1> QED
  BY <1>1, <1>3

\* What became of a row: it is an old one, or the one that was inserted or updated.
OldRow(i) == i \in DOMAIN rows /\ rows'[i] = rows[i]
IsInserted(i, updates, d) ==
  /\ i = Len(rows) + 1 /\ FoundFor(d) = {} /\ rows' = Append(rows, Inserted(updates))
  /\ rows'[i] = Inserted(updates)
IsUpdated(i, updates, d) ==
  /\ i \in FoundFor(d) /\ i \in DOMAIN rows /\ rows' = [rows EXCEPT ![i] = Updated(rows[i], updates)]
  /\ rows'[i] = Updated(rows[i], updates)

\* Where the updates count in full an action does not fail.
DoesNotFail(updates, d) ==
  Raised \notin Range(updates) /\ ~(FoundFor(d) # {} /\ UpdateRaises(updates))

LEMMA RowsAfter ==
  ASSUME TypeInv, NEW mapping, IsMapping(mapping), SourceKey \in SourceFactors,
         NEW old \in Datas \cup {None}, NEW d \in Datas,
         InsertOrMerge(Updates(mapping, old, d), d)
  PROVE  LET updates == Updates(mapping, old, d)
             ok == KeyOf(d) \in Cell /\ AreUpdates(updates, d) /\ DOMAIN updates = DOMAIN mapping
         IN  /\ rows' \in Seq(Row)
             /\ \A i \in DOMAIN rows' : \/ OldRow(i)
                                        \/ ok /\ IsInserted(i, updates, d)
                                        \/ ok /\ IsUpdated(i, updates, d)
             /\ \A i \in DOMAIN rows : /\ i \in DOMAIN rows'
                                       /\ Key1(rows'[i]["key"]) = Key1(rows[i]["key"])
             /\ DoesNotFail(updates, d) =>
                   ok /\ \E i \in DOMAIN rows' : IsInserted(i, updates, d) \/ IsUpdated(i, updates, d)
<1> DEFINE updates == Updates(mapping, old, d)
           ok == KeyOf(d) \in Cell /\ AreUpdates(updates, d) /\ DOMAIN updates = DOMAIN mapping
           found == FoundFor(d)
           fails == IF Raised \in Range(updates) \/ ByKey(d) = Raised THEN TRUE
                    ELSE found # {} /\ UpdateRaises(updates)
<1>1. IsTopic /\ rows \in Seq(Row) /\ Len(rows) \in Nat /\ DOMAIN rows = 1..Len(rows)
  BY LenProperties DEF TypeInv
<1>2. Raised \notin Range(updates) => ok
  BY UpdatesFacts
<1>3. DoesNotFail(updates, d) => ~fails
  <2>1. ok => ByKey(d) # Raised
    <3>1. [k |-> "where", is |-> "test", col |-> "key", op |-> "=", v |-> KeyOf(d)] # Raised
      BY DEF Raised
    <3> QED
      BY <3>1, WhereOfKey
  <2> QED
    BY <1>2, <2>1 DEF DoesNotFail
<1>4. ~fails => ok
  BY <1>2
<1>5. \/ fails /\ UNCHANGED rows
      \/ ~fails /\ found = {} /\ rows' = Append(rows, Inserted(updates))
      \/ ~fails /\ \E i \in found : rows' = [rows EXCEPT ![i] = Updated(rows[i], updates)]
  BY DEF InsertOrMerge
<1>6. CASE fails /\ UNCHANGED rows
  BY <1>1, <1>3, <1>6 DEF OldRow
<1>7. CASE ~fails /\ found = {} /\ rows' = Append(rows, Inserted(updates))
  <2>1. ok /\ Inserted(updates) \in Row
    BY <1>1, <1>4, <1>7, InsertedFacts
  <2>2. /\ rows' \in Seq(Row) /\ Len(rows') = Len(rows) + 1 /\ DOMAIN rows' = 1..Len(rows) + 1
        /\ \A i \in 1..Len(rows) : rows'[i] = rows[i]
        /\ rows'[Len(rows) + 1] = Inserted(updates)
    BY <1>1, <1>7, <2>1, AppendProperties, LenProperties
  <2> HIDE DEF updates
  <2>3. IsInserted(Len(rows) + 1, updates, d)
    BY <1>7, <2>2 DEF IsInserted
  <2>4. \A i \in DOMAIN rows : OldRow(i) /\ i \in DOMAIN rows'
    BY <1>1, <2>2 DEF OldRow
  <2>5. \A i \in DOMAIN rows' : i \in DOMAIN rows \/ i = Len(rows) + 1
    BY <1>1, <2>2
  <2>6. Len(rows) + 1 \in DOMAIN rows'
    BY <1>1, <2>2
  <2> QED
    BY <2>1, <2>2, <2>3, <2>4, <2>5, <2>6 DEF OldRow, updates
<1>8. CASE ~fails /\ \E i \in found : rows' = [rows EXCEPT ![i] = Updated(rows[i], updates)]
  <2>1. PICK i \in found : rows' = [rows EXCEPT ![i] = Updated(rows[i], updates)]
    BY <1>8
  <2>2. ok
    BY <1>4, <1>8
  <2>3. /\ i \in DOMAIN rows /\ Same(rows[i]["key"], KeyOf(d))
    BY <1>1, <2>1, <2>2, FoundForKey
  <2>4. rows[i] \in Row
    BY <1>1, <2>3, ElementOfSeq
  <2>5. /\ Updated(rows[i], updates) \in Row
        /\ Key1(Updated(rows[i], updates)["key"]) = Key1(rows[i]["key"])
    BY <1>1, <2>2, <2>3, <2>4, UpdatedFacts
  <2> HIDE DEF updates
  <2>6. /\ rows' \in Seq(Row) /\ DOMAIN rows' = DOMAIN rows
        /\ \A j \in DOMAIN rows : rows'[j] = IF j = i THEN Updated(rows[i], updates) ELSE rows[j]
    BY <1>1, <2>1, <2>3, <2>5, ExceptSeq
  <2>7. IsUpdated(i, updates, d)
    BY <2>1, <2>3, <2>6 DEF IsUpdated
  <2>8. \A j \in DOMAIN rows' : OldRow(j) \/ IsUpdated(j, updates, d)
    BY <2>6, <2>7 DEF OldRow
  <2>9. \A j \in DOMAIN rows : Key1(rows'[j]["key"]) = Key1(rows[j]["key"])
    BY <2>5, <2>6
  <2> QED
    BY <2>2, <2>3, <2>6, <2>7, <2>8, <2>9 DEF updates
<1> QED
  BY <1>5, <1>6, <1>7, <1>8
-----------------------------------------------------------------------------
(* Sums over finite sets.                                                  *)

\* One element is chosen and the sum of the others added.
IsSum(h, f, D) ==
  \A T \in D : h[T] = IF T = {} THEN 0 ELSE f[CHOOSE x \in T : TRUE] + h[T \ {CHOOSE x \in T : TRUE}]

LEMMA SumIs ==
  ASSUME NEW S, IsFiniteSet(S), NEW f
  PROVE  \E h : IsSum(h, f, SUBSET S) /\ SumFunctionOnSet(f, S) = h[S]
<1> DEFINE n == Cardinality(S)
           D(k) == {T \in SUBSET S : Cardinality(T) <= k}
           Step(h, T) == IF T = {} THEN 0 ELSE f[CHOOSE x \in T : TRUE] + h[T \ {CHOOSE x \in T : TRUE}]
           Good == {k \in 0..n : \E h : IsSum(h, f, D(k))}
<1>1. n \in Nat
  BY FS_CardinalityType
<1>2. \A T \in SUBSET S : IsFiniteSet(T) /\ Cardinality(T) \in Nat /\ Cardinality(T) <= n
  BY FS_Subset, FS_CardinalityType
<1>3. \A T \in SUBSET S : Cardinality(T) = 0 <=> T = {}
  BY <1>2, FS_EmptySet
<1>4. 0 \in Good
  <2> DEFINE h == [T \in D(0) |-> 0]
  <2>1. \A T \in D(0) : T = {}
    BY <1>2, <1>3
  <2>2. IsSum(h, f, D(0))
    BY <2>1 DEF IsSum
  <2> HIDE DEF h, D
  <2> QED
    BY <1>1, <2>2
<1>5. ASSUME NEW k \in 0..n, k \in Good, k < n
      PROVE  k + 1 \in Good
  <2>1. PICK h : IsSum(h, f, D(k))
    BY <1>5
  <2> DEFINE g == [T \in D(k + 1) |-> Step(h, T)]
  <2>2. ASSUME NEW T \in D(k + 1)
        PROVE  g[T] = Step(g, T)
    <3> DEFINE c == CHOOSE x \in T : TRUE
               U == T \ {c}
    <3>1. SUFFICES ASSUME T # {}
                   PROVE  g[U] = h[U]
      BY <2>2
    <3>2. c \in T
      BY <3>1
    <3>3. Cardinality(U) = Cardinality(T) - 1 /\ U \in SUBSET S
      BY <1>2, <3>2, FS_RemoveElement
    <3>4. U \in D(k) /\ U \in D(k + 1)
      BY <1>1, <1>2, <3>3
    <3>5. h[U] = Step(h, U)
      BY <2>1, <3>4 DEF IsSum
    <3> HIDE DEF D, U
    <3> QED
      BY <3>4, <3>5
  <2>3. IsSum(g, f, D(k + 1))
    <3> HIDE DEF g, D
    <3> QED
      BY <2>2 DEF IsSum
  <2>4. k + 1 \in 0..n
    BY <1>1, <1>5
  <2> HIDE DEF g, D
  <2> QED
    BY <2>3, <2>4
<1>6. n \in Good
  <2>1. n \in 0..n
    BY <1>1
  <2> HIDE DEF Good
  <2>2. \A k \in 0..n : k \in Good
    BY <1>1, <1>4, <1>5, Inductive
  <2> QED
    BY <2>1, <2>2
<1>7. PICK h : IsSum(h, f, SUBSET S)
  <2>1. D(n) = SUBSET S
    BY <1>2
  <2> HIDE DEF D
  <2> QED
    BY <1>6, <2>1
<1> DEFINE g == [T \in SUBSET S |-> h[T]]
<1>8. ASSUME NEW T \in SUBSET S, T # {}
      PROVE  g[T \ {CHOOSE x \in T : TRUE}] = h[T \ {CHOOSE x \in T : TRUE}]
  <2>1. T \ {CHOOSE x \in T : TRUE} \in SUBSET S
    OBVIOUS
  <2> QED
    BY <2>1
<1>9. g = [T \in SUBSET S |->
             IF T = {} THEN 0 ELSE f[CHOOSE x \in T : TRUE] + g[T \ {CHOOSE x \in T : TRUE}]]
  BY <1>7, <1>8 DEF IsSum
<1> DEFINE sum == CHOOSE e : e = [T \in SUBSET S |->
                     IF T = {} THEN 0 ELSE f[CHOOSE x \in T : TRUE] + e[T \ {CHOOSE x \in T : TRUE}]]
<1> HIDE DEF g
<1>10. sum = [T \in SUBSET S |->
                IF T = {} THEN 0 ELSE f[CHOOSE x \in T : TRUE] + sum[T \ {CHOOSE x \in T : TRUE}]]
  BY <1>9
<1>11. SumFunctionOnSet(f, S) = sum[S]
  BY DEF SumFunctionOnSet, FoldFunctionOnSet, MapThenFoldSet
<1> HIDE DEF sum
<1>12. IsSum(sum, f, SUBSET S)
  BY <1>10 DEF IsSum
<1> QED
  BY <1>11, <1>12

\* Which element was chosen makes no difference: for every element x the sum is f[x] and
\* the sum of the others.
LEMMA SumTakes ==
  ASSUME NEW S, IsFiniteSet(S), NEW f, \A s \in S : f[s] \in Int, NEW h, IsSum(h, f, SUBSET S)
  PROVE  h[S] \in Int /\ \A x \in S : h[S] = f[x] + h[S \ {x}]
<1> DEFINE n == Cardinality(S)
           Fine(T) == h[T] \in Int /\ \A x \in T : h[T] = f[x] + h[T \ {x}]
           Good == {k \in 0..n : \A T \in SUBSET S : Cardinality(T) <= k => Fine(T)}
<1>1. n \in Nat
  BY FS_CardinalityType
<1>2. \A T \in SUBSET S : IsFiniteSet(T) /\ Cardinality(T) \in Nat /\ Cardinality(T) <= n
  BY FS_Subset, FS_CardinalityType
<1>3. \A T \in SUBSET S : Cardinality(T) = 0 <=> T = {}
  BY <1>2, FS_EmptySet
<1>4. 0 \in Good
  <2>1. h[{}] = 0
    BY DEF IsSum
  <2> QED
    BY <1>1, <1>2, <1>3, <2>1
<1>5. ASSUME NEW k \in 0..n, k \in Good, k < n
      PROVE  k + 1 \in Good
  <2>1. SUFFICES ASSUME NEW T \in SUBSET S, Cardinality(T) <= k + 1, T # {}
                 PROVE  Fine(T)
    <3>1. h[{}] = 0 /\ {} \in SUBSET S
      BY DEF IsSum
    <3>2. k + 1 \in 0..n
      BY <1>1, <1>5
    <3>3. Fine({})
      BY <3>1
    <3> HIDE DEF Fine
    <3> QED
      BY <2>1, <3>2, <3>3
  <2> DEFINE c == CHOOSE x \in T : TRUE
  <2>2. c \in T
    BY <2>1
  <2>3. h[T] = f[c] + h[T \ {c}]
    BY <2>1 DEF IsSum
  <2> HIDE DEF c
  <2>4. \A x \in T : T \ {x} \in SUBSET S /\ Cardinality(T \ {x}) <= k
    <3> TAKE x \in T
    <3>1. Cardinality(T \ {x}) = Cardinality(T) - 1
      BY <1>2, FS_RemoveElement
    <3> QED
      BY <1>2, <2>1, <3>1
  <2>5. \A x \in T : Fine(T \ {x})
    BY <1>5, <2>4
  <2>6. h[T] \in Int
    <3>1. h[T \ {c}] \in Int /\ f[c] \in Int
      BY <2>2, <2>5
    <3> QED
      BY <2>3, <3>1
  <2>7. ASSUME NEW x \in T
        PROVE  h[T] = f[x] + h[T \ {x}]
    <3>1. CASE x = c
      BY <2>3, <3>1
    <3>2. CASE x # c
      <4> DEFINE U == (T \ {x}) \ {c}
      <4>1. (T \ {c}) \ {x} = U
        OBVIOUS
      <4>2. x \in T \ {c} /\ c \in T \ {x}
        BY <2>2, <3>2
      <4>3. h[T \ {c}] = f[x] + h[U] /\ h[T \ {x}] = f[c] + h[U]
        BY <2>2, <2>5, <4>1, <4>2
      <4>4. Cardinality(U) <= k /\ U \in SUBSET S
        <5>1. IsFiniteSet(T \ {x}) /\ Cardinality(T \ {x}) \in Nat /\ Cardinality(T \ {x}) <= k
          BY <1>2, <2>4
        <5>2. Cardinality(U) = Cardinality(T \ {x}) - 1
          BY <4>2, <5>1, FS_RemoveElement
        <5> QED
          BY <5>1, <5>2
      <4>5. h[U] \in Int /\ f[x] \in Int /\ f[c] \in Int
        BY <1>5, <2>2, <4>4
      <4> QED
        BY <2>3, <4>3, <4>5
    <3> QED
      BY <3>1, <3>2
  <2> QED
    BY <2>6, <2>7
<1> HIDE DEF Good
<1>6. n \in Good
  <2>1. \A k \in 0..n : k \in Good
    BY <1>1, <1>4, <1>5, Inductive
  <2> QED
    BY <1>1, <2>1
<1> QED
  BY <1>2, <1>6 DEF Good

\* Sums of functions that agree on the set are the same.
LEMMA SumAgrees ==
  ASSUME NEW S, IsFiniteSet(S), NEW f, NEW g, \A s \in S : f[s] \in Int /\ f[s] = g[s],
         NEW T, T \subseteq S, NEW h, IsSum(h, f, SUBSET S), NEW j, IsSum(j, g, SUBSET T)
  PROVE  h[T] = j[T]
<1> DEFINE n == Cardinality(T)
           Good == {k \in 0..n : \A U \in SUBSET T : Cardinality(U) <= k => h[U] = j[U]}
<1>1. IsFiniteSet(T) /\ n \in Nat
  BY FS_CardinalityType, FS_Subset
<1>2. \A U \in SUBSET T : IsFiniteSet(U) /\ Cardinality(U) \in Nat /\ Cardinality(U) <= n
  BY <1>1, FS_Subset, FS_CardinalityType
<1>3. \A U \in SUBSET T : Cardinality(U) = 0 <=> U = {}
  BY <1>2, FS_EmptySet
<1>4. h[{}] = 0 /\ j[{}] = 0
  BY DEF IsSum
<1>5. 0 \in Good
  <2>1. \A U \in SUBSET T : Cardinality(U) <= 0 => U = {}
    BY <1>2, <1>3
  <2>2. 0 \in 0..n
    BY <1>1
  <2>3. \A U \in SUBSET T : Cardinality(U) <= 0 => h[U] = j[U]
    BY <1>4, <2>1
  <2> QED
    BY <2>2, <2>3
<1>6. ASSUME NEW k \in 0..n, k \in Good, k < n
      PROVE  k + 1 \in Good
  <2>1. SUFFICES ASSUME NEW U \in SUBSET T, Cardinality(U) <= k + 1, U # {}
                 PROVE  h[U] = j[U]
    <3>1. k + 1 \in 0..n
      BY <1>1, <1>6
    <3> QED
      BY <1>4, <2>1, <3>1
  <2> DEFINE c == CHOOSE x \in U : TRUE
  <2>2. c \in U
    BY <2>1
  <2>3. h[U] = f[c] + h[U \ {c}] /\ j[U] = g[c] + j[U \ {c}]
    BY <2>1 DEF IsSum
  <2> HIDE DEF c
  <2>4. U \ {c} \in SUBSET T /\ Cardinality(U \ {c}) <= k
    <3>1. Cardinality(U \ {c}) = Cardinality(U) - 1
      BY <1>2, <2>2, FS_RemoveElement
    <3> QED
      BY <1>2, <2>1, <3>1
  <2> QED
    BY <1>6, <2>2, <2>3, <2>4
<1> HIDE DEF Good
<1>7. n \in Good
  <2>1. \A k \in 0..n : k \in Good
    BY <1>1, <1>5, <1>6, Inductive
  <2> QED
    BY <1>1, <2>1
<1> QED
  BY <1>2, <1>7 DEF Good

\* What the sums below are computed with.
LEMMA SumFacts ==
  ASSUME NEW S, IsFiniteSet(S), NEW f, \A s \in S : f[s] \in Int
  PROVE  /\ SumFunctionOnSet(f, {}) = 0
         /\ SumFunctionOnSet(f, S) \in Int
         /\ \A x \in S : \A g : (\A s \in S \ {x} : g[s] = f[s]) =>
               SumFunctionOnSet(f, S) = f[x] + SumFunctionOnSet(g, S \ {x})
<1>1. SumFunctionOnSet(f, {}) = 0
  BY DEF SumFunctionOnSet, FoldFunctionOnSet, MapThenFoldSet
<1>2. PICK h : IsSum(h, f, SUBSET S) /\ SumFunctionOnSet(f, S) = h[S]
  BY SumIs
<1>3. h[S] \in Int /\ \A x \in S : h[S] = f[x] + h[S \ {x}]
  <2>1. IsSum(h, f, SUBSET S)
    BY <1>2
  <2> QED
    BY <2>1, SumTakes
<1>4. ASSUME NEW x \in S, NEW g, \A s \in S \ {x} : g[s] = f[s]
      PROVE  SumFunctionOnSet(f, S) = f[x] + SumFunctionOnSet(g, S \ {x})
  <2> DEFINE T == S \ {x}
  <2>1. IsFiniteSet(T) /\ T \subseteq S
    BY FS_Subset
  <2>2. PICK j : IsSum(j, g, SUBSET T) /\ SumFunctionOnSet(g, T) = j[T]
    BY <2>1, SumIs
  <2>3. PICK i : IsSum(i, f, SUBSET T)
    BY <2>1, SumIs
  <2>4. h[T] = i[T]
    <3>1. \A s \in S : f[s] \in Int /\ f[s] = f[s]
      OBVIOUS
    <3> HIDE DEF T
    <3> QED
      BY <1>2, <2>1, <2>3, <3>1, SumAgrees
  <2>5. i[T] = j[T]
    <3>1. \A s \in T : f[s] \in Int /\ f[s] = g[s]
      BY <1>4
    <3> HIDE DEF T
    <3> QED
      BY <2>1, <2>2, <2>3, <3>1, SumAgrees
  <2> QED
    BY <1>2, <1>3, <2>2, <2>4, <2>5
<1> QED
  BY <1>1, <1>2, <1>3, <1>4
\* A sum over one more element, and one in which an element changes.
LEMMA SumGrows ==
  ASSUME NEW S, IsFiniteSet(S), NEW s, s \notin S, NEW f, NEW g,
         \A t \in S \cup {s} : g[t] \in Int, \A t \in S : f[t] = g[t]
  PROVE  SumFunctionOnSet(g, S \cup {s}) = g[s] + SumFunctionOnSet(f, S)
<1>1. IsFiniteSet(S \cup {s}) /\ (S \cup {s}) \ {s} = S
  BY FS_AddElement
<1>2. \A x \in S \cup {s} : \A e : (\A t \in (S \cup {s}) \ {x} : e[t] = g[t]) =>
         SumFunctionOnSet(g, S \cup {s}) = g[x] + SumFunctionOnSet(e, (S \cup {s}) \ {x})
  BY <1>1, SumFacts
<1> QED
  BY <1>1, <1>2

LEMMA SumChanges ==
  ASSUME NEW S, IsFiniteSet(S), NEW s \in S, NEW f, NEW g,
         \A t \in S : f[t] \in Int /\ g[t] \in Int, \A t \in S \ {s} : f[t] = g[t]
  PROVE  SumFunctionOnSet(g, S) = SumFunctionOnSet(f, S) + (g[s] - f[s])
<1> DEFINE T == S \ {s}
<1>1. IsFiniteSet(T)
  BY FS_Subset
<1>2. SumFunctionOnSet(f, T) \in Int
  BY <1>1, SumFacts
<1>3. SumFunctionOnSet(f, S) = f[s] + SumFunctionOnSet(f, T)
  BY SumFacts
<1>4. SumFunctionOnSet(g, S) = g[s] + SumFunctionOnSet(f, T)
  BY SumFacts
<1>5. f[s] \in Int /\ g[s] \in Int
  OBVIOUS
<1> HIDE DEF T
<1> QED
  BY <1>2, <1>3, <1>4, <1>5

-----------------------------------------------------------------------------
(* The inductive invariant: every key that is not off has the row its      *)
(* sources are counted in, and their amounts are numbers.                  *)

OrNone == Datas \cup {None}
SourcesHaveRows ==
  \A s \in Sources : source[s] # None /\ Key1(KeyOf(source[s])) \notin off =>
     \E i \in DOMAIN rows : Key1(rows[i]["key"]) = Key1(KeyOf(source[s]))

SumsAreNumbers ==
  \A s \in Sources, m \in Range(topic.mapping) :
     source[s] # None /\ m.arithmetic = "sum" /\ Key1(KeyOf(source[s])) \notin off =>
        Value(m, source[s]) \in Cell

IInv ==
  /\ TypeInv
  /\ SumsAreNumbers
  /\ KeyIsKept => SourcesHaveRows
  /\ OneRowPerKey
  /\ TotalsFollowSources

LEMMA RowCells ==
  ASSUME NEW table, table \in Seq(Row), NEW i \in DOMAIN table
  PROVE  table[i] \in Row /\ \A col \in Columns : table[i][col] \in Cell
<1>1. table[i] \in Row
  BY ElementOfSeq, LenProperties
<1> QED
  BY <1>1 DEF Row

\* Two rows of one key would have been one: what is inserted was not found.
LEMMA OneRowStep ==
  ASSUME TypeInv, OneRowPerKey, UNCHANGED topic,
         NEW mapping, IsMapping(mapping), SourceKey \in SourceFactors,
         NEW old \in OrNone, NEW d \in Datas, InsertOrMerge(Updates(mapping, old, d), d)
  PROVE  OneRowPerKey'
<1> DEFINE updates == Updates(mapping, old, d)
           ok == KeyOf(d) \in Cell /\ AreUpdates(updates, d)
<1>1. /\ rows' \in Seq(Row)
      /\ \A i \in DOMAIN rows' : OldRow(i) \/ (ok /\ IsInserted(i, updates, d)) \/ IsUpdated(i, updates, d)
      /\ \A i \in DOMAIN rows : Key1(rows'[i]["key"]) = Key1(rows[i]["key"])
  BY RowsAfter DEF OrNone
<1> HIDE DEF updates
<1>2. KeyIsKept' = KeyIsKept
  BY DEF KeyIsKept, Default
<1>3. \A i \in DOMAIN rows' : i \in DOMAIN rows \/ (ok /\ IsInserted(i, updates, d))
  BY <1>1 DEF OldRow, IsUpdated
<1>4. IsTopic /\ rows \in Seq(Row)
  BY DEF TypeInv
<1>5. \A i \in DOMAIN rows : rows[i]["key"] \in Cell
  BY <1>4, RowCells DEF Columns
<1>6. \A i \in DOMAIN rows' : rows'[i]["key"] \in Cell
  BY <1>1, RowCells DEF Columns
<1>7. ASSUME KeyIsKept, NEW i \in DOMAIN rows', ok, IsInserted(i, updates, d)
      PROVE  rows'[i]["key"] = KeyOf(d) /\ \A j \in DOMAIN rows : Key1(rows[j]["key"]) # Key1(KeyOf(d))
  <2>1. Inserted(updates)["key"] = KeyOf(d)
    BY <1>4, <1>7, InsertedFacts
  <2>2. FoundFor(d) = {j \in DOMAIN rows : Key1(rows[j]["key"]) = Key1(KeyOf(d))}
    BY <1>4, <1>7, FoundForKey
  <2> QED
    BY <1>7, <2>1, <2>2 DEF IsInserted
<1>8. SUFFICES ASSUME KeyIsKept, NEW i \in DOMAIN rows', NEW j \in DOMAIN rows',
                      Key1(rows'[i]["key"]) = Key1(rows'[j]["key"])
               PROVE  i = j
  BY <1>2, <1>6, <1>8, SameIsKey1 DEF OneRowPerKey
<1>9. CASE i \in DOMAIN rows /\ j \in DOMAIN rows
  BY <1>1, <1>5, <1>8, <1>9, SameIsKey1 DEF OneRowPerKey
<1>10. CASE i \notin DOMAIN rows
  BY <1>1, <1>3, <1>7, <1>8, <1>10 DEF IsInserted
<1>11. CASE j \notin DOMAIN rows
  BY <1>1, <1>3, <1>7, <1>8, <1>11 DEF IsInserted
<1> QED
  BY <1>9, <1>10, <1>11

\* A change of a source row, and what it means that it reached its key.
LEMMA PutFacts ==
  ASSUME TypeInv, NEW s \in Sources, NEW d \in Datas, Put(s, d)
  PROVE  LET updates == Updates(topic.mapping, source[s], d)
         IN  /\ IsMapping(topic.mapping) /\ SourceKey \in SourceFactors
             /\ source[s] \in OrNone /\ d \in OrNone /\ d # None
             /\ InsertOrMerge(updates, d)
             /\ source' = [source EXCEPT ![s] = d] /\ source' \in [Sources -> OrNone]
             /\ UNCHANGED topic
             /\ off \subseteq off'
             /\ \/ Reached(updates, source[s], d) /\ DoesNotFail(updates, d) /\ off' = off
                \/ /\ Key1(KeyOf(d)) \in off'
                   /\ source[s] # None => Key1(KeyOf(source[s])) \in off'
<1> DEFINE updates == Updates(topic.mapping, source[s], d)
<1>1. topic.mapping \in Mappings
  BY DEF TypeInv, IsTopic
<1>2. IsMapping(topic.mapping) /\ SourceKey \in SourceFactors
  BY <1>1, MappingFacts
<1>3. source[s] \in OrNone /\ d \in OrNone /\ d # None
  BY SourceAssumption DEF TypeInv, OrNone
<1>4. Raised \notin Range(updates) => updates \in Seq(Update)
  BY <1>2, <1>3, UpdatesFacts DEF AreUpdates, OrNone
<1>5. /\ InsertOrMerge(updates, d)
      /\ source' = [source EXCEPT ![s] = d] /\ UNCHANGED topic
      /\ off' = IF Reached(updates, source[s], d) THEN off
                ELSE off \cup {Key1(KeyOf(old)) : old \in {source[s], d} \ {None}}
  BY DEF Put
<1>6. source' \in [Sources -> OrNone]
  BY <1>3, <1>5 DEF TypeInv, OrNone
<1> HIDE DEF updates
<1>7. Reached(updates, source[s], d) => DoesNotFail(updates, d)
  <2>1. SUFFICES ASSUME Reached(updates, source[s], d), FoundFor(d) # {}, UpdateRaises(updates)
                 PROVE  FALSE
    BY DEF DoesNotFail, Reached, AllCounted
  <2>2. PICK i \in DOMAIN updates : topic.dialect = "mongo" /\ updates[i].do = "count"
    BY <1>4, <2>1, RaisesForCount DEF Reached, AllCounted
  <2> QED
    BY <2>1, <2>2 DEF Reached, AllCounted, Counted
<1> QED
  BY <1>2, <1>3, <1>5, <1>6, <1>7 DEF updates

LEMMA SumsAreNumbersPut ==
  ASSUME TypeInv, SumsAreNumbers, NEW s \in Sources, NEW d \in Datas, Put(s, d)
  PROVE  SumsAreNumbers'
<1> DEFINE updates == Updates(topic.mapping, source[s], d)
<1>1. /\ IsMapping(topic.mapping) /\ source[s] \in OrNone
      /\ source' = [source EXCEPT ![s] = d] /\ UNCHANGED topic /\ off \subseteq off'
      /\ Reached(updates, source[s], d) \/ Key1(KeyOf(d)) \in off'
  BY PutFacts
<1>2. ASSUME NEW m \in Range(topic.mapping), m.arithmetic = "sum", Reached(updates, source[s], d)
      PROVE  Value(m, d) \in Cell
  <2>1. PICK i \in DOMAIN topic.mapping : topic.mapping[i] = m
    BY DEF Range
  <2>2. m \in [col: Columns, arithmetic: Arithmetics, source: SourceFactors]
    <3>1. topic.mapping \in Seq([col: Columns, arithmetic: Arithmetics, source: SourceFactors])
      BY <1>1 DEF IsMapping
    <3>2. i \in 1..Len(topic.mapping)
      BY <2>1, <3>1
    <3> QED
      BY <2>1, <3>1, <3>2, ElementOfSeq
  <2>3. Mapped(m, source[s], d) # Raised
    BY <1>2, <2>1 DEF Reached, AllCounted, Updates, Range
  <2> QED
    BY <1>1, <2>2, <2>3, MappedFacts DEF OrNone
<1>3. ASSUME NEW t \in Sources, NEW m \in Range(topic.mapping), source'[t] # None,
             m.arithmetic = "sum", Key1(KeyOf(source'[t])) \notin off'
      PROVE  Value(m, source'[t]) \in Cell
  <2>1. CASE t = s
    <3>1. source'[t] = d
      BY <1>1, <2>1 DEF TypeInv
    <3> QED
      BY <1>1, <1>2, <1>3, <3>1
  <2>2. CASE t # s
    <3>1. source'[t] = source[t]
      BY <1>1, <2>2 DEF TypeInv
    <3> QED
      BY <1>1, <1>3, <3>1 DEF SumsAreNumbers
  <2> QED
    BY <2>1, <2>2
<1> QED
  BY <1>1, <1>3 DEF SumsAreNumbers

LEMMA SourcesHaveRowsPut ==
  ASSUME TypeInv, SourcesHaveRows, KeyIsKept, NEW s \in Sources, NEW d \in Datas, Put(s, d)
  PROVE  SourcesHaveRows'
<1> DEFINE updates == Updates(topic.mapping, source[s], d)
<1>1. /\ IsMapping(topic.mapping) /\ SourceKey \in SourceFactors /\ source[s] \in OrNone
      /\ InsertOrMerge(updates, d)
      /\ source' = [source EXCEPT ![s] = d] /\ UNCHANGED topic /\ off \subseteq off'
      /\ DoesNotFail(updates, d) \/ Key1(KeyOf(d)) \in off'
  BY PutFacts
<1>2. /\ \A i \in DOMAIN rows : i \in DOMAIN rows' /\ Key1(rows'[i]["key"]) = Key1(rows[i]["key"])
      /\ DoesNotFail(updates, d) =>
            /\ KeyOf(d) \in Cell /\ AreUpdates(updates, d)
            /\ \E i \in DOMAIN rows' : IsInserted(i, updates, d) \/ IsUpdated(i, updates, d)
  BY <1>1, RowsAfter DEF OrNone
<1> HIDE DEF updates
<1>3. IsTopic /\ rows \in Seq(Row)
  BY DEF TypeInv
<1>4. ASSUME DoesNotFail(updates, d)
      PROVE  \E i \in DOMAIN rows' : Key1(rows'[i]["key"]) = Key1(KeyOf(d))
  <2>1. PICK i \in DOMAIN rows' : IsInserted(i, updates, d) \/ IsUpdated(i, updates, d)
    BY <1>2, <1>4
  <2>2. CASE IsInserted(i, updates, d)
    BY <1>2, <1>3, <1>4, <2>2, InsertedFacts DEF IsInserted
  <2>3. CASE IsUpdated(i, updates, d)
    BY <1>2, <1>3, <1>4, <2>3, FoundForKey DEF IsUpdated
  <2> QED
    BY <2>1, <2>2, <2>3
<1>5. ASSUME NEW t \in Sources, source'[t] # None, Key1(KeyOf(source'[t])) \notin off'
      PROVE  \E i \in DOMAIN rows' : Key1(rows'[i]["key"]) = Key1(KeyOf(source'[t]))
  <2>1. CASE t = s
    <3>1. source'[t] = d
      BY <1>1, <2>1 DEF TypeInv
    <3> QED
      BY <1>1, <1>4, <1>5, <3>1
  <2>2. CASE t # s
    <3>1. source'[t] = source[t]
      BY <1>1, <2>2 DEF TypeInv
    <3> QED
      BY <1>1, <1>2, <1>5, <3>1 DEF SourcesHaveRows
  <2> QED
    BY <2>1, <2>2
<1> QED
  BY <1>5 DEF SourcesHaveRows
-----------------------------------------------------------------------------
(* Totals.                                                                 *)

Amount(m, d) == Operand(Value(m, d))

LEMMA MappedColumn ==
  ASSUME NEW mapping, IsMapping(mapping), NEW m \in Range(mapping)
  PROVE  /\ m \in [col: Columns, arithmetic: Arithmetics, source: SourceFactors]
         /\ \E j \in DOMAIN mapping : mapping[j] = m
         /\ m.arithmetic # "none" => m.col # "key"
<1>1. PICK j \in DOMAIN mapping : mapping[j] = m
  BY DEF Range
<1>2. mapping \in Seq([col: Columns, arithmetic: Arithmetics, source: SourceFactors])
  BY DEF IsMapping
<1>3. j \in 1..Len(mapping)
  BY <1>2, <1>1
<1>4. m \in [col: Columns, arithmetic: Arithmetics, source: SourceFactors]
  BY <1>1, <1>2, <1>3, ElementOfSeq
<1>5. PICK k \in DOMAIN mapping : mapping[k] = MapKey
  BY DEF IsMapping, Range
<1>6. MapKey.col = "key" /\ MapKey.arithmetic = "none"
  BY DEF MapKey
<1>7. m.col = "key" => m = MapKey
  BY <1>1, <1>5, <1>6 DEF IsMapping
<1> QED
  BY <1>1, <1>4, <1>6, <1>7

\* The source rows of a key, and what they amount to.
WithKey(table, key) == {s \in Sources : table[s] # None /\ Key1(KeyOf(table[s])) = key}
Total(m, table, key) ==
  SumFunctionOnSet([s \in WithKey(table, key) |-> Amount(m, table[s])], WithKey(table, key))

LEMMA SourcesAreFinite ==
  ASSUME NEW table, NEW key
  PROVE  IsFiniteSet(WithKey(table, key)) /\ Cardinality(WithKey(table, key)) \in Nat
<1>1. WithKey(table, key) \subseteq Sources
  BY DEF WithKey
<1> QED
  BY <1>1, SourceAssumption, FS_Subset, FS_CardinalityType

LEMMA NumberOfPut ==
  ASSUME NEW table \in [Sources -> OrNone], NEW s \in Sources, NEW d \in Datas, d # None,
         table[s] # None => Key1(KeyOf(table[s])) = Key1(KeyOf(d))
  PROVE  LET S == WithKey(table, Key1(KeyOf(d)))
             T == WithKey([table EXCEPT ![s] = d], Key1(KeyOf(d)))
         IN  /\ T = S \cup {s}
             /\ s \in S <=> table[s] # None
             /\ Cardinality(T) = Cardinality(S) + (IF table[s] = None THEN 1 ELSE 0)
<1> DEFINE key == Key1(KeyOf(d))
           S == WithKey(table, key)
           T == WithKey([table EXCEPT ![s] = d], key)
<1>1. IsFiniteSet(S) /\ Cardinality(S) \in Nat
  BY SourcesAreFinite
<1>2. s \in S <=> table[s] # None
  BY DEF WithKey
<1>3. T = S \cup {s}
  BY DEF WithKey
<1> HIDE DEF key, S, T
<1>4. Cardinality(T) = Cardinality(S) + (IF table[s] = None THEN 1 ELSE 0)
  <2>1. CASE table[s] = None
    <3>1. s \notin S
      BY <1>2, <2>1
    <3>2. Cardinality(S \cup {s}) = Cardinality(S) + 1
      BY <1>1, <3>1, FS_AddElement
    <3> QED
      BY <1>3, <2>1, <3>2
  <2>2. CASE table[s] # None
    <3>1. T = S
      BY <1>2, <1>3, <2>2
    <3> QED
      BY <1>1, <2>2, <3>1
  <2> QED
    BY <2>1, <2>2
<1> QED
  BY <1>2, <1>3, <1>4 DEF key, S, T

\* The total of the sources of a key before and after a source row of it is put.
LEMMA TotalOfPut ==
  ASSUME NEW table \in [Sources -> OrNone], NEW s \in Sources, NEW d \in Datas, d # None,
         table[s] # None => Key1(KeyOf(table[s])) = Key1(KeyOf(d)),
         NEW m, Amount(m, d) \in Int,
         \A t \in WithKey(table, Key1(KeyOf(d))) : Amount(m, table[t]) \in Int
  PROVE  /\ Total(m, table, Key1(KeyOf(d))) \in Int
         /\ Total(m, [table EXCEPT ![s] = d], Key1(KeyOf(d)))
               = Total(m, table, Key1(KeyOf(d)))
                   + (Amount(m, d) - (IF table[s] = None THEN 0 ELSE Amount(m, table[s])))
<1> DEFINE key == Key1(KeyOf(d))
           new == [table EXCEPT ![s] = d]
           S == WithKey(table, key)
           T == WithKey(new, key)
           f == [t \in S |-> Amount(m, table[t])]
           g == [t \in T |-> Amount(m, new[t])]
<1>1. IsFiniteSet(S)
  BY SourcesAreFinite
<1>2. T = S \cup {s} /\ (s \in S <=> table[s] # None)
  BY NumberOfPut
<1>3. S \subseteq Sources
  BY DEF WithKey
<1>4. new[s] = d /\ \A t \in Sources : t # s => new[t] = table[t]
  OBVIOUS
<1>5. Total(m, table, key) = SumFunctionOnSet(f, S) /\ Total(m, new, key) = SumFunctionOnSet(g, T)
  BY DEF Total
<1> HIDE DEF key, new, S, T
<1>6. \A t \in S : f[t] \in Int /\ f[t] = Amount(m, table[t])
  BY DEF S, key
<1>7. g[s] = Amount(m, d)
  BY <1>2, <1>4
<1>8. \A t \in S \ {s} : f[t] = g[t]
  BY <1>2, <1>3, <1>4
<1>9. \A t \in T : g[t] \in Int
  <2> TAKE t \in T
  <2>1. CASE t = s
    BY <1>7, <2>1
  <2>2. CASE t # s
    BY <1>2, <1>6, <1>8, <2>2
  <2> QED
    BY <2>1, <2>2
<1> HIDE DEF f, g
<1>10. SumFunctionOnSet(f, S) \in Int
  BY <1>1, <1>6, SumFacts
<1>11. CASE table[s] = None
  <2>1. s \notin S /\ (\A t \in S : f[t] = g[t]) /\ \A t \in S \cup {s} : g[t] \in Int
    BY <1>2, <1>8, <1>9, <1>11
  <2>2. SumFunctionOnSet(g, S \cup {s}) = g[s] + SumFunctionOnSet(f, S)
    BY <1>1, <2>1, SumGrows
  <2> QED
    BY <1>2, <1>5, <1>7, <1>10, <1>11, <2>2 DEF key, new
<1>12. CASE table[s] # None
  <2>1. T = S /\ s \in S
    BY <1>2, <1>12
  <2>2. \A t \in S : f[t] \in Int /\ g[t] \in Int
    BY <1>6, <1>9, <2>1
  <2>3. SumFunctionOnSet(g, S) = SumFunctionOnSet(f, S) + (g[s] - f[s])
    BY <1>1, <1>8, <2>1, <2>2, SumChanges
  <2> QED
    BY <1>5, <1>6, <1>7, <1>10, <1>12, <2>1, <2>3 DEF key, new
<1> QED
  BY <1>11, <1>12

\* A key none of whose sources is stored has no total.
LEMMA TotalOfNothing ==
  ASSUME NEW m, NEW table, NEW key, WithKey(table, key) = {}
  PROVE  Total(m, table, key) = 0 /\ Cardinality(WithKey(table, key)) = 0
<1>1. IsFiniteSet({})
  BY FS_EmptySet
<1>2. \A f : SumFunctionOnSet(f, {}) = 0
  BY <1>1 DEF SumFunctionOnSet, FoldFunctionOnSet, MapThenFoldSet
<1> QED
  BY <1>2, FS_EmptySet DEF Total

\* A row follows its sources in a column, as TotalsFollowSources says.
Follows(m, row, table, out) ==
  LET key == Key1(row["key"])
  IN  key \notin out /\ Operand(Default(m.col)) = 0 =>
         /\ m.arithmetic = "sum" => Operand(row[m.col]) = Total(m, table, key)
         /\ m.arithmetic = "count" => Operand(row[m.col]) = Cardinality(WithKey(table, key))

LEMMA TotalsAre ==
  /\ TotalsFollowSources <=>
        (KeyIsKept => \A i \in DOMAIN rows, m \in Range(topic.mapping) : Follows(m, rows[i], source, off))
  /\ UNCHANGED topic =>
        (TotalsFollowSources' <=>
           (KeyIsKept => \A i \in DOMAIN rows', m \in Range(topic.mapping) : Follows(m, rows'[i], source', off')))
  /\ UNCHANGED topic => (KeyIsKept' <=> KeyIsKept)
BY DEF TotalsFollowSources, SourcesOf, SourceSum, Follows, Total, Amount, WithKey, KeyIsKept, Default

\* No source row of the key became another one.
Untouched(table, new, key) ==
  \A t \in Sources :
     \/ new[t] = table[t]
     \/ Key1(KeyOf(new[t])) # key /\ (table[t] # None => Key1(KeyOf(table[t])) # key)

LEMMA TotalUntouched ==
  ASSUME NEW table, NEW new, NEW key, Untouched(table, new, key)
  PROVE  /\ WithKey(new, key) = WithKey(table, key)
         /\ \A m : Total(m, new, key) = Total(m, table, key)
<1>1. WithKey(new, key) = WithKey(table, key) /\ \A t \in WithKey(table, key) : new[t] = table[t]
  BY DEF WithKey, Untouched
<1>2. \A m : [t \in WithKey(table, key) |-> Amount(m, new[t])]
                = [t \in WithKey(table, key) |-> Amount(m, table[t])]
  BY <1>1
<1> QED
  BY <1>1, <1>2 DEF Total

\* The update of a sum is what the amount grows by, that of a count whether the source row is new.
LEMMA MappedAmount ==
  ASSUME NEW mapping, IsMapping(mapping), NEW old \in OrNone, NEW d \in Datas,
         Raised \notin Range(Updates(mapping, old, d)),
         NEW m \in Range(mapping), m.arithmetic \in {"sum", "count"}
  PROVE  LET updates == Updates(mapping, old, d)
             amount == IF m.arithmetic = "sum"
                       THEN Amount(m, d) - (IF old = None THEN 0 ELSE Amount(m, old))
                       ELSE IF old = None THEN 1 ELSE 0
         IN  /\ \E i \in DOMAIN updates : /\ updates[i].col = m.col /\ updates[i].do = m.arithmetic
                                          /\ updates[i].v.n = amount
                                          /\ Operand(updates[i].v) = amount
             /\ m.arithmetic = "sum" => Amount(m, d) \in Int
             /\ amount \in Int
<1> DEFINE updates == Updates(mapping, old, d)
<1>1. PICK i \in DOMAIN mapping : mapping[i] = m
  BY DEF Range
<1>2. m \in [col: Columns, arithmetic: Arithmetics, source: SourceFactors]
  BY MappedColumn
<1>3. i \in DOMAIN updates /\ updates[i] = Mapped(m, old, d) /\ updates[i] # Raised
  <2>1. i \in DOMAIN updates /\ updates[i] = Mapped(m, old, d)
    BY <1>1 DEF Updates
  <2> QED
    BY <2>1 DEF Range
<1> DEFINE u == updates[i]
<1>4. /\ u.col = m.col /\ u.do = m.arithmetic
      /\ m.arithmetic = "sum" => /\ Value(m, d) \in Cell /\ Value(m, d) # None /\ Value(m, old) \in Cell
                                 /\ u.v = Num(Value(m, d).n - Operand(Value(m, old)))
      /\ m.arithmetic = "count" => u.v = Num(IF old = None THEN 1 ELSE 0)
  BY <1>2, <1>3, MappedFacts DEF OrNone
<1>5. CASE m.arithmetic = "sum"
  <2>1. Amount(m, d) \in Int /\ Amount(m, d) = Value(m, d).n /\ Operand(Value(m, old)) \in Int
    BY <1>4, <1>5, OperandFacts DEF Amount
  <2>2. Operand(Value(m, old)) = IF old = None THEN 0 ELSE Amount(m, old)
    BY <1>2, ValueFacts, OperandFacts DEF Amount
  <2>3. u.v = Num(Amount(m, d) - (IF old = None THEN 0 ELSE Amount(m, old)))
    BY <1>4, <1>5, <2>1, <2>2
  <2>4. Amount(m, d) - (IF old = None THEN 0 ELSE Amount(m, old)) \in Int
    BY <2>1, <2>2
  <2> HIDE DEF updates
  <2> QED
    BY <1>3, <1>4, <1>5, <2>1, <2>3, <2>4, OperandFacts DEF updates
<1>6. CASE m.arithmetic = "count"
  <2>1. (IF old = None THEN 1 ELSE 0) \in Int
    OBVIOUS
  <2>2. u.v.n = (IF old = None THEN 1 ELSE 0) /\ Operand(u.v) = IF old = None THEN 1 ELSE 0
    BY <1>4, <1>6, <2>1, OperandFacts
  <2> HIDE DEF updates
  <2> QED
    BY <1>3, <1>4, <1>6, <2>1, <2>2 DEF updates
<1> QED
  BY <1>5, <1>6
\* A key for which nothing is found has no source, unless it is off.
LEMMA NothingFound ==
  ASSUME TypeInv, SourcesHaveRows, NEW d, KeyOf(d) \in Cell, FoundFor(d) = {},
         Key1(KeyOf(d)) \notin off
  PROVE  WithKey(source, Key1(KeyOf(d))) = {}
<1>1. FoundFor(d) = {i \in DOMAIN rows : Key1(rows[i]["key"]) = Key1(KeyOf(d))}
  BY FoundForKey DEF TypeInv
<1> QED
  BY <1>1 DEF WithKey, SourcesHaveRows

LEMMA TotalsPut ==
  ASSUME TypeInv, SumsAreNumbers, SourcesHaveRows, OneRowPerKey, TotalsFollowSources, KeyIsKept,
         NEW s \in Sources, NEW d \in Datas, Put(s, d), OneRowPerKey'
  PROVE  TotalsFollowSources'
<1> DEFINE updates == Updates(topic.mapping, source[s], d)
           key == Key1(KeyOf(d))
<1>1. /\ IsMapping(topic.mapping) /\ SourceKey \in SourceFactors
      /\ source[s] \in OrNone /\ d # None
      /\ InsertOrMerge(updates, d)
      /\ source' = [source EXCEPT ![s] = d]
      /\ UNCHANGED topic
      /\ off \subseteq off'
      /\ \/ Reached(updates, source[s], d) /\ DoesNotFail(updates, d) /\ off' = off
         \/ key \in off' /\ (source[s] # None => Key1(KeyOf(source[s])) \in off')
  BY PutFacts
<1>2. /\ rows' \in Seq(Row)
      /\ \A i \in DOMAIN rows' :
            OldRow(i) \/ (KeyOf(d) \in Cell /\ AreUpdates(updates, d)
                            /\ (IsInserted(i, updates, d) \/ IsUpdated(i, updates, d)))
      /\ \A i \in DOMAIN rows : i \in DOMAIN rows' /\ Key1(rows'[i]["key"]) = Key1(rows[i]["key"])
      /\ DoesNotFail(updates, d) =>
            /\ KeyOf(d) \in Cell /\ AreUpdates(updates, d)
            /\ \E i \in DOMAIN rows' : IsInserted(i, updates, d) \/ IsUpdated(i, updates, d)
  BY <1>1, RowsAfter DEF OrNone
<1>3. IsTopic /\ rows \in Seq(Row) /\ source \in [Sources -> OrNone]
  BY DEF TypeInv, OrNone
<1>4. \A i \in DOMAIN rows, m \in Range(topic.mapping) : Follows(m, rows[i], source, off)
  BY TotalsAre
<1>5. \A i \in DOMAIN rows' :
         KeyOf(d) \in Cell /\ AreUpdates(updates, d) /\ (IsInserted(i, updates, d) \/ IsUpdated(i, updates, d))
            => Key1(rows'[i]["key"]) = key
  <2> HIDE DEF updates
  <2> QED
    BY <1>2, <1>3, InsertedFacts, FoundForKey DEF IsInserted, IsUpdated
<1>6. \A m \in Range(topic.mapping) :
         m.arithmetic \in {"sum", "count"} => m.arithmetic \in Arithmetics /\ m.col \in Columns
  BY <1>1, MappedColumn
<1> SUFFICES ASSUME NEW i \in DOMAIN rows', NEW m \in Range(topic.mapping)
             PROVE  Follows(m, rows'[i], source', off')
  BY <1>1, TotalsAre
<1>7. CASE Key1(rows'[i]["key"]) \in off'
  BY <1>7 DEF Follows
<1>8. CASE Key1(rows'[i]["key"]) # key /\ Key1(rows'[i]["key"]) \notin off'
  <2> DEFINE other == Key1(rows'[i]["key"])
  <2>1. OldRow(i)
    BY <1>2, <1>5, <1>8
  <2>2. source[s] # None => Key1(KeyOf(source[s])) # other
    BY <1>1, <1>8 DEF Reached
  <2>3. WithKey(source', other) = WithKey(source, other) /\ Total(m, source', other) = Total(m, source, other)
    <3>1. Untouched(source, source', other)
      BY <1>1, <1>3, <1>8, <2>2 DEF Untouched
    <3> HIDE DEF other
    <3> QED
      BY <3>1, TotalUntouched
  <2>4. other \notin off /\ Follows(m, rows[i], source, off) /\ rows'[i] = rows[i]
    BY <1>1, <1>4, <1>8, <2>1 DEF OldRow
  <2> QED
    BY <2>3, <2>4 DEF Follows
<1>9. CASE Key1(rows'[i]["key"]) = key /\ key \notin off'
  <2>1. /\ Reached(updates, source[s], d) /\ DoesNotFail(updates, d) /\ off' = off
        /\ KeyOf(d) \in Cell /\ AreUpdates(updates, d)
    BY <1>1, <1>2, <1>9
  <2>2. source[s] # None => Key1(KeyOf(source[s])) = key
    BY <2>1 DEF Reached
  <2>3. Raised \notin Range(updates)
    BY <2>1 DEF DoesNotFail
  <2>4. IsInserted(i, updates, d) \/ IsUpdated(i, updates, d)
    <3>1. PICK j \in DOMAIN rows' : IsInserted(j, updates, d) \/ IsUpdated(j, updates, d)
      BY <1>2, <2>1
    <3>2. Key1(rows'[j]["key"]) = key
      BY <1>5, <2>1, <3>1
    <3>3. rows'[i]["key"] \in Cell /\ rows'[j]["key"] \in Cell
      BY <1>2, RowCells DEF Columns
    <3>4. Same(rows'[i]["key"], rows'[j]["key"])
      BY <1>9, <3>2, <3>3, SameIsKey1
    <3>5. i = j
      BY <1>1, <3>4, TotalsAre DEF OneRowPerKey
    <3> QED
      BY <3>1, <3>5
  <2> SUFFICES ASSUME Operand(Default(m.col)) = 0, m.arithmetic \in {"sum", "count"}
               PROVE  /\ m.arithmetic = "sum" => Operand(rows'[i][m.col]) = Total(m, source', key)
                      /\ m.arithmetic = "count" =>
                            Operand(rows'[i][m.col]) = Cardinality(WithKey(source', key))
    BY <1>9 DEF Follows
  <2> DEFINE amount == IF m.arithmetic = "sum"
                       THEN Amount(m, d) - (IF source[s] = None THEN 0 ELSE Amount(m, source[s]))
                       ELSE IF source[s] = None THEN 1 ELSE 0
  <2>5. PICK k \in DOMAIN updates :
           /\ updates[k].col = m.col /\ updates[k].do = m.arithmetic
           /\ updates[k].v.n = amount /\ Operand(updates[k].v) = amount
    BY <1>1, <2>3, MappedAmount
  <2>6. amount \in Int /\ (m.arithmetic = "sum" => Amount(m, d) \in Int)
    BY <1>1, <2>3, MappedAmount
  <2>7. m.arithmetic = "sum" =>
           /\ Total(m, source, key) \in Int
           /\ Total(m, source', key) = Total(m, source, key) + amount
    <3> SUFFICES ASSUME m.arithmetic = "sum"
                 PROVE  /\ Total(m, source, key) \in Int
                        /\ Total(m, source', key) = Total(m, source, key) + amount
      OBVIOUS
    <3>1. \A t \in WithKey(source, key) : Amount(m, source[t]) \in Int
      BY <1>9, <2>1, OperandFacts DEF WithKey, SumsAreNumbers, Amount
    <3> QED
      BY <1>1, <1>3, <2>2, <2>6, <3>1, TotalOfPut
  <2>8. m.arithmetic = "count" =>
           /\ Cardinality(WithKey(source, key)) \in Nat
           /\ Cardinality(WithKey(source', key)) = Cardinality(WithKey(source, key)) + amount
    BY <1>1, <1>3, <2>2, NumberOfPut, SourcesAreFinite
  <2> HIDE DEF updates, amount
  <2>9. CASE IsInserted(i, updates, d)
    <3>1. WithKey(source, key) = {}
      BY <1>9, <2>1, <2>9, NothingFound DEF IsInserted
    <3>2. Total(m, source, key) = 0 /\ Cardinality(WithKey(source, key)) = 0
      BY <3>1, TotalOfNothing
    <3>3. rows'[i][m.col] = updates[k].v
      BY <1>3, <2>1, <2>5, <2>9, InsertedFacts DEF IsInserted
    <3> HIDE DEF key
    <3> QED
      BY <2>5, <2>6, <2>7, <2>8, <3>2, <3>3
  <2>10. CASE IsUpdated(i, updates, d)
    <3>1. /\ i \in FoundFor(d) /\ i \in DOMAIN rows /\ rows[i] \in Row
          /\ rows'[i] = Updated(rows[i], updates) /\ Key1(rows[i]["key"]) = key
      BY <1>2, <1>3, <1>9, <2>10, RowCells DEF IsUpdated
    <3>2. Counted(updates, k, FoundFor(d))
      BY <2>1, <3>1 DEF Reached, AllCounted
    <3>3. Operand(rows'[i][m.col]) = Operand(rows[i][m.col]) + amount
      <4>1. updates[k].do \in {"sum", "count"}
        BY <2>5
      <4>2. topic.dialect = "mongo" => Increments(updates, k)
        BY <3>2, <4>1 DEF Counted
      <4>3. IsSql(topic.dialect) => rows[i][updates[k].col] # None
        BY <3>1, <3>2, <4>1 DEF Counted
      <4> QED
        BY <1>3, <2>1, <2>5, <3>1, <4>1, <4>2, <4>3, UpdatedAmount
    <3>4. Follows(m, rows[i], source, off)
      BY <1>4, <3>1
    <3> HIDE DEF key
    <3> QED
      BY <1>9, <2>1, <2>7, <2>8, <3>1, <3>3, <3>4 DEF Follows
  <2> QED
    BY <2>4, <2>9, <2>10
<1> QED
  BY <1>7, <1>8, <1>9
\* The pipeline that merges keys leaves the other columns as they are.
LEMMA TotalsMergeKey ==
  ASSUME TypeInv, SourcesHaveRows, TotalsFollowSources, KeyIsKept, NEW d \in Datas, MergeKey(d)
  PROVE  TotalsFollowSources'
<1> DEFINE mapping == <<MapKey>>
           updates == Updates(mapping, None, d)
<1>1. /\ IsMapping(topic.mapping) /\ IsMapping(mapping) /\ SourceKey \in SourceFactors
      /\ InsertOrMerge(updates, d) /\ source' = source /\ off' = off /\ UNCHANGED topic
  BY MappingFacts DEF MergeKey, TypeInv, IsTopic
<1>2. /\ rows' \in Seq(Row)
      /\ \A i \in DOMAIN rows' :
            OldRow(i) \/ (KeyOf(d) \in Cell /\ AreUpdates(updates, d) /\ DOMAIN updates = DOMAIN mapping
                            /\ (IsInserted(i, updates, d) \/ IsUpdated(i, updates, d)))
      /\ \A i \in DOMAIN rows : Key1(rows'[i]["key"]) = Key1(rows[i]["key"])
  BY <1>1, RowsAfter
<1>3. IsTopic /\ rows \in Seq(Row)
  BY DEF TypeInv
<1>4. \A i \in DOMAIN rows, m \in Range(topic.mapping) : Follows(m, rows[i], source, off)
  BY TotalsAre
<1> SUFFICES ASSUME NEW i \in DOMAIN rows', NEW m \in Range(topic.mapping)
             PROVE  Follows(m, rows'[i], source, off)
  BY <1>1, TotalsAre
<1>5. CASE OldRow(i)
  BY <1>4, <1>5 DEF OldRow
<1>6. ASSUME ~OldRow(i), m.arithmetic \in {"sum", "count"}
      PROVE  /\ KeyOf(d) \in Cell /\ AreUpdates(updates, d)
             /\ IsInserted(i, updates, d) \/ IsUpdated(i, updates, d)
             /\ m.col \in Columns /\ OfColumn(updates, m.col) = 0
  <2>1. m.col # "key" /\ m.col \in Columns
    BY <1>1, <1>6, MappedColumn
  <2>2. /\ KeyOf(d) \in Cell /\ AreUpdates(updates, d) /\ DOMAIN updates = {1}
        /\ IsInserted(i, updates, d) \/ IsUpdated(i, updates, d)
    BY <1>2, <1>6
  <2>3. \A k \in DOMAIN updates : updates[k].col = "key"
    BY <2>2 DEF AreUpdates
  <2> QED
    BY <2>1, <2>2, <2>3, OfColumnFacts
<1> HIDE DEF updates
<1>7. CASE m.arithmetic \in {"sum", "count"} /\ IsInserted(i, updates, d) /\ ~OldRow(i)
  <2> SUFFICES ASSUME Key1(rows'[i]["key"]) \notin off, Operand(Default(m.col)) = 0
               PROVE  /\ m.arithmetic = "sum" =>
                            Operand(rows'[i][m.col]) = Total(m, source, Key1(rows'[i]["key"]))
                      /\ m.arithmetic = "count" =>
                            Operand(rows'[i][m.col]) = Cardinality(WithKey(source, Key1(rows'[i]["key"])))
    BY DEF Follows
  <2>1. /\ rows'[i] = Inserted(updates) /\ Inserted(updates)["key"] = KeyOf(d)
        /\ Inserted(updates)[m.col] \in {None, Default(m.col)}
    BY <1>3, <1>6, <1>7, InsertedFacts DEF IsInserted
  <2>2. Operand(rows'[i][m.col]) = 0
    BY <2>1, OperandFacts
  <2>3. WithKey(source, Key1(KeyOf(d))) = {}
    BY <1>6, <1>7, <2>1, NothingFound DEF IsInserted
  <2>4. Total(m, source, Key1(KeyOf(d))) = 0 /\ Cardinality(WithKey(source, Key1(KeyOf(d)))) = 0
    BY <2>3, TotalOfNothing
  <2> QED
    BY <2>1, <2>2, <2>4
<1>8. CASE m.arithmetic \in {"sum", "count"} /\ IsUpdated(i, updates, d) /\ ~OldRow(i)
  <2>1. i \in DOMAIN rows /\ rows[i] \in Row /\ rows'[i] = Updated(rows[i], updates)
    BY <1>3, <1>8, RowCells DEF IsUpdated
  <2>2. rows'[i][m.col] = rows[i][m.col]
    BY <1>3, <1>6, <1>8, <2>1, UpdatedFacts
  <2>3. Key1(rows'[i]["key"]) = Key1(rows[i]["key"])
    BY <1>2, <2>1
  <2> QED
    BY <1>4, <2>1, <2>2, <2>3 DEF Follows
<1>9. CASE m.arithmetic \notin {"sum", "count"}
  BY <1>9 DEF Follows
<1> QED
  BY <1>5, <1>6, <1>7, <1>8, <1>9

-----------------------------------------------------------------------------
(* The invariant.                                                          *)

LEMMA InitIInv == Init => IInv
<1> SUFFICES ASSUME Init
             PROVE  IInv
  OBVIOUS
<1>1. rows = <<>> /\ DOMAIN rows = {} /\ \A s \in Sources : source[s] = None
  BY DEF Init
<1>2. TypeInv
  BY <1>1, EmptySeq DEF Init, TypeInv, IsTopic
<1>3. SumsAreNumbers /\ SourcesHaveRows
  BY <1>1 DEF SumsAreNumbers, SourcesHaveRows
<1>4. OneRowPerKey /\ TotalsFollowSources
  BY <1>1 DEF OneRowPerKey, TotalsFollowSources
<1> QED
  BY <1>2, <1>3, <1>4 DEF IInv

LEMMA PutIInv ==
  ASSUME IInv, NEW s \in Sources, NEW d \in Datas, Put(s, d)
  PROVE  IInv'
<1>1. /\ IsMapping(topic.mapping) /\ SourceKey \in SourceFactors /\ source[s] \in OrNone
      /\ InsertOrMerge(Updates(topic.mapping, source[s], d), d)
      /\ source' \in [Sources -> OrNone] /\ UNCHANGED topic
  BY PutFacts DEF IInv
<1>2. KeyIsKept' <=> KeyIsKept
  BY <1>1, TotalsAre
<1>3. TypeInv'
  <2>1. rows' \in Seq(Row)
    BY <1>1, RowsAfter DEF IInv, OrNone
  <2> QED
    BY <1>1, <2>1 DEF IInv, TypeInv, IsTopic, OrNone
<1>4. SumsAreNumbers'
  BY SumsAreNumbersPut DEF IInv
<1>5. KeyIsKept => SourcesHaveRows'
  BY SourcesHaveRowsPut DEF IInv
<1>6. OneRowPerKey'
  BY <1>1, OneRowStep DEF IInv
<1>7. TotalsFollowSources'
  <2>1. CASE KeyIsKept
    BY <1>6, <2>1, TotalsPut DEF IInv
  <2>2. CASE ~KeyIsKept
    BY <1>2, <2>2 DEF TotalsFollowSources
  <2> QED
    BY <2>1, <2>2
<1> QED
  BY <1>2, <1>3, <1>4, <1>5, <1>6, <1>7 DEF IInv

LEMMA MergeKeyIInv ==
  ASSUME IInv, NEW d \in Datas, MergeKey(d)
  PROVE  IInv'
<1>1. /\ IsMapping(<<MapKey>>) /\ SourceKey \in SourceFactors
      /\ InsertOrMerge(Updates(<<MapKey>>, None, d), d)
      /\ UNCHANGED <<topic, source, off>>
  BY MappingFacts DEF MergeKey, IInv, TypeInv, IsTopic
<1>2. KeyIsKept' <=> KeyIsKept
  BY <1>1, TotalsAre
<1>3. /\ rows' \in Seq(Row)
      /\ \A i \in DOMAIN rows : i \in DOMAIN rows' /\ Key1(rows'[i]["key"]) = Key1(rows[i]["key"])
  BY <1>1, RowsAfter DEF IInv
<1>4. TypeInv'
  BY <1>1, <1>3 DEF IInv, TypeInv, IsTopic
<1>5. SumsAreNumbers'
  BY <1>1 DEF IInv, SumsAreNumbers
<1>6. KeyIsKept => SourcesHaveRows'
  BY <1>1, <1>3 DEF IInv, SourcesHaveRows
<1>7. OneRowPerKey'
  BY <1>1, OneRowStep DEF IInv, OrNone
<1>8. TotalsFollowSources'
  <2>1. CASE KeyIsKept
    BY <2>1, TotalsMergeKey DEF IInv
  <2>2. CASE ~KeyIsKept
    BY <1>2, <2>2 DEF TotalsFollowSources
  <2> QED
    BY <2>1, <2>2
<1> QED
  BY <1>2, <1>4, <1>5, <1>6, <1>7, <1>8 DEF IInv

LEMMA UnchangedIInv == IInv /\ UNCHANGED vars => IInv'
<1> SUFFICES ASSUME IInv, UNCHANGED vars
             PROVE  IInv'
  OBVIOUS
<1>1. UNCHANGED <<topic, rows, source, off>>
  BY DEF vars
<1>2. KeyIsKept' <=> KeyIsKept
  BY <1>1, TotalsAre
<1>3. TypeInv' /\ SumsAreNumbers' /\ (KeyIsKept => SourcesHaveRows')
  BY <1>1 DEF IInv, TypeInv, IsTopic, SumsAreNumbers, SourcesHaveRows
<1>4. OneRowPerKey'
  BY <1>1, <1>2 DEF IInv, OneRowPerKey
<1>5. TotalsFollowSources'
  BY <1>1, TotalsAre DEF IInv
<1> QED
  BY <1>2, <1>3, <1>4, <1>5 DEF IInv

\* Every reachable state satisfies the invariant: the rows and the source rows are what
\* insert-or-merge-row makes of them, the rows have distinct keys, and every key that no
\* change missed has the row in which its sources are summed and counted.
THEOREM Invariant == Spec => []IInv
<1>1. IInv /\ [Next]_vars => IInv'
  <2> SUFFICES ASSUME IInv, [Next]_vars
               PROVE  IInv'
    OBVIOUS
  <2>1. ASSUME NEW s \in Sources, NEW d \in Datas, Put(s, d)
        PROVE  IInv'
    BY <2>1, PutIInv
  <2>2. ASSUME NEW d \in Datas, MergeKey(d)
        PROVE  IInv'
    BY <2>2, MergeKeyIInv
  <2>3. CASE UNCHANGED vars
    BY <2>3, UnchangedIInv
  <2> QED
    BY <2>1, <2>2, <2>3 DEF Next
<1> QED
  BY InitIInv, <1>1, PTL DEF Spec

\* insert-or-merge-row never makes two rows of one key, whatever form the key is
\* written in and whichever storage looks for it.
THEOREM KeysAreUnique == Spec => []OneRowPerKey
<1>1. IInv => OneRowPerKey
  BY DEF IInv
<1> QED
  BY Invariant, <1>1, PTL

\* The sums and counts that are kept by differences are those of the source rows as they
\* are now, for every sequence of inserts and changes.
THEOREM TotalsAreCurrent == Spec => []TotalsFollowSources
<1>1. IInv => TotalsFollowSources
  BY DEF IInv
<1> QED
  BY Invariant, <1>1, PTL
-----------------------------------------------------------------------------
(* Sequences that are put together.                                        *)

\* The recursion of FlattenSeq up to the n-th sequence.
IsFlat(g, seqs, n) == \A i \in 1..n : g[i] = IF i = 1 THEN seqs[i] ELSE g[i - 1] \o seqs[i]

\* Whatever satisfies the recursion is what FlattenSeq computes.
LEMMA FlattenIs ==
  ASSUME NEW S, NEW seqs \in Seq(S), seqs # <<>>, NEW g, IsFlat(g, seqs, Len(seqs))
  PROVE  FlattenSeq(seqs) = g[Len(seqs)]
<1> DEFINE n == Len(seqs)
           h == [i \in 1..n |-> g[i]]
           flatten == CHOOSE f : f = [i \in 1..n |-> IF i = 1 THEN seqs[i] ELSE f[i - 1] \o seqs[i]]
           Good == {k \in 0..n : \A i \in 1..k : flatten[i] = g[i]}
<1>1. n \in Nat /\ n # 0
  BY EmptySeq, LenProperties
<1>2. \A i \in 1..n : i # 1 => i - 1 \in 1..n
  BY <1>1
<1>3. h = [i \in 1..n |-> IF i = 1 THEN seqs[i] ELSE h[i - 1] \o seqs[i]]
  BY <1>2 DEF IsFlat
<1> HIDE DEF h
<1>4. flatten = [i \in 1..n |-> IF i = 1 THEN seqs[i] ELSE flatten[i - 1] \o seqs[i]]
  BY <1>3
<1>5. FlattenSeq(seqs) = flatten[n]
  BY <1>1 DEF FlattenSeq
<1> HIDE DEF flatten
<1>6. 0 \in Good
  BY <1>1
<1>7. ASSUME NEW k \in 0..n, k \in Good, k < n
      PROVE  k + 1 \in Good
  <2>1. k + 1 \in 0..n /\ k + 1 \in 1..n /\ \A i \in 1..k + 1 : i \in 1..k \/ i = k + 1
    BY <1>1, <1>7
  <2>2. flatten[k + 1] = IF k + 1 = 1 THEN seqs[k + 1] ELSE flatten[k] \o seqs[k + 1]
    <3>1. (k + 1) - 1 = k
      BY <1>1
    <3> QED
      BY <1>4, <2>1, <3>1
  <2>3. g[k + 1] = IF k + 1 = 1 THEN seqs[k + 1] ELSE g[k] \o seqs[k + 1]
    <3>1. (k + 1) - 1 = k
      BY <1>1
    <3> QED
      BY <2>1, <3>1 DEF IsFlat
  <2>4. k # 0 => flatten[k] = g[k]
    BY <1>1, <1>7
  <2> QED
    BY <1>1, <1>7, <2>1, <2>2, <2>3, <2>4
<1> HIDE DEF Good
<1>8. n \in Good
  <2>1. \A k \in 0..n : k \in Good
    BY <1>1, <1>6, <1>7, Inductive
  <2> QED
    BY <1>1, <2>1
<1> QED
  BY <1>1, <1>5, <1>8 DEF Good

LEMMA FlattenExists ==
  ASSUME NEW seqs, NEW n \in Nat
  PROVE  \E g : IsFlat(g, seqs, n)
<1> DEFINE Good == {k \in 0..n : \E g : IsFlat(g, seqs, k)}
<1>1. 0 \in Good
  BY DEF IsFlat
<1>2. ASSUME NEW k \in 0..n, k \in Good, k < n
      PROVE  k + 1 \in Good
  <2>1. PICK g : IsFlat(g, seqs, k)
    BY <1>2
  <2> DEFINE next == IF k = 0 THEN seqs[1] ELSE g[k] \o seqs[k + 1]
             h == [i \in 1..k + 1 |-> IF i = k + 1 THEN next ELSE g[i]]
  <2>0. k + 1 \in 1..k + 1 /\ \A i \in 1..k : i \in 1..k + 1 /\ i # k + 1
    OBVIOUS
  <2> HIDE DEF next
  <2>2. h[k + 1] = next /\ \A i \in 1..k : h[i] = g[i]
    BY <2>0
  <2> HIDE DEF h
  <2> USE DEF next
  <2>3. ASSUME NEW i \in 1..k + 1
        PROVE  h[i] = IF i = 1 THEN seqs[i] ELSE h[i - 1] \o seqs[i]
    <3>1. CASE i = k + 1 /\ k = 0
      BY <2>2, <3>1
    <3>2. CASE i = k + 1 /\ k # 0
      <4>1. i - 1 = k /\ k \in 1..k /\ i # 1
        BY <3>2
      <4>2. h[k] = g[k]
        BY <2>2, <4>1
      <4> QED
        BY <2>2, <3>2, <4>1, <4>2
    <3>3. CASE i # k + 1
      <4>1. i \in 1..k /\ (i # 1 => i - 1 \in 1..k)
        BY <3>3
      <4> QED
        BY <2>1, <2>2, <4>1 DEF IsFlat
    <3> QED
      BY <3>1, <3>2, <3>3
  <2>4. k + 1 \in 0..n
    BY <1>2
  <2> QED
    BY <2>3, <2>4 DEF IsFlat
<1> HIDE DEF Good
<1>3. \A k \in 0..n : k \in Good
  BY <1>1, <1>2, Inductive
<1>4. n \in 0..n
  OBVIOUS
<1> QED
  BY <1>3, <1>4 DEF Good

\* Sequences of elements of S make a sequence of elements of S.
LEMMA FlattenType ==
  ASSUME NEW S, NEW seqs \in Seq(Seq(S))
  PROVE  FlattenSeq(seqs) \in Seq(S)
<1> DEFINE n == Len(seqs)
<1>1. n \in Nat /\ \A i \in 1..n : seqs[i] \in Seq(S)
  BY ElementOfSeq, LenProperties
<1>2. CASE seqs = <<>>
  BY <1>2, EmptySeq DEF FlattenSeq
<1>3. CASE seqs # <<>>
  <2>1. n # 0
    BY <1>3, EmptySeq
  <2>2. PICK g : IsFlat(g, seqs, n)
    BY <1>1, FlattenExists
  <2> DEFINE Good == {k \in 0..n : \A i \in 1..k : g[i] \in Seq(S)}
  <2>3. 0 \in Good
    BY <1>1
  <2>4. ASSUME NEW k \in 0..n, k \in Good, k < n
        PROVE  k + 1 \in Good
    <3>1. k + 1 \in 0..n /\ k + 1 \in 1..n /\ \A i \in 1..k + 1 : i \in 1..k \/ i = k + 1
      BY <1>1, <2>4
    <3>2. g[k + 1] = IF k + 1 = 1 THEN seqs[k + 1] ELSE g[k] \o seqs[k + 1]
      <4>1. (k + 1) - 1 = k
        BY <1>1
      <4> QED
        BY <2>2, <3>1, <4>1 DEF IsFlat
    <3>3. k # 0 => g[k] \in Seq(S)
      BY <1>1, <2>4
    <3>4. g[k + 1] \in Seq(S)
      BY <1>1, <3>1, <3>2, <3>3, ConcatProperties
    <3> QED
      BY <2>4, <3>1, <3>4
  <2> HIDE DEF Good
  <2>5. n \in Good
    <3>1. \A k \in 0..n : k \in Good
      BY <1>1, <2>3, <2>4, Inductive
    <3> QED
      BY <1>1, <3>1
  <2>6. g[n] \in Seq(S)
    BY <1>1, <2>1, <2>5 DEF Good
  <2> QED
    BY <1>3, <2>2, <2>6, FlattenIs
<1> QED
  BY <1>2, <1>3
-----------------------------------------------------------------------------
(* What a query finds.                                                     *)

LEMMA FoundFacts ==
  ASSUME rows \in Seq(Row), NEW found \in MayBeFound
  PROVE  found \in Seq(Row) /\ Len(found) \in Nat /\ Len(found) <= Len(rows)
<1>1. Len(rows) \in Nat /\ \A i \in DOMAIN rows : rows[i] \in Row
  BY ElementOfSeq, LenProperties
<1>2. PICK m \in 0..Len(rows) : found \in [1..m -> Range(rows)]
  BY DEF MayBeFound, BoundedSeq, SeqOf
<1>3. Range(rows) \subseteq Row
  BY <1>1 DEF Range
<1>4. found \in [1..m -> Row] /\ m \in Nat
  BY <1>1, <1>2, <1>3
<1>5. found \in Seq(Row)
  BY <1>4, SeqDef
<1>6. Len(found) = m
  BY <1>4, <1>5, LenProperties
<1> QED
  BY <1>1, <1>2, <1>5, <1>6

Totals(found) == [i \in DOMAIN found |-> found[i]["total"]]

LEMMA NotNullFacts ==
  ASSUME NEW values \in Seq(Cell)
  PROVE  /\ NotNull(values) \in Seq(Cell \ {None})
         /\ \A i \in DOMAIN NotNull(values) : NotNull(values)[i].k = "num"
<1> DEFINE seqs == [i \in DOMAIN values |-> IF values[i] = None THEN <<>> ELSE <<values[i]>>]
<1>1. Len(values) \in Nat /\ DOMAIN values = 1..Len(values) /\ \A i \in 1..Len(values) : values[i] \in Cell
  BY ElementOfSeq, LenProperties
<1>2. \A v \in Cell : (IF v = None THEN <<>> ELSE <<v>>) \in Seq(Cell \ {None})
  <2> TAKE v \in Cell
  <2>1. CASE v = None
    BY <2>1, EmptySeq
  <2>2. CASE v # None
    BY <2>2
  <2> QED
    BY <2>1, <2>2
<1>3. \A i \in 1..Len(values) : seqs[i] \in Seq(Cell \ {None})
  BY <1>1, <1>2
<1>4. seqs \in Seq(Seq(Cell \ {None}))
  BY <1>1, <1>3, IsASeq
<1>5. NotNull(values) \in Seq(Cell \ {None})
  BY <1>4, FlattenType DEF NotNull
<1>6. \A i \in DOMAIN NotNull(values) : NotNull(values)[i] \in Cell \ {None}
  BY <1>5, ElementOfSeq, LenProperties
<1> QED
  BY <1>5, <1>6, CellFacts

LEMMA TotalsType ==
  ASSUME NEW found \in Seq(Row)
  PROVE  Totals(found) \in Seq(Cell) /\ Len(Totals(found)) = Len(found)
<1>1. Len(found) \in Nat /\ DOMAIN found = 1..Len(found) /\ \A i \in 1..Len(found) : found[i] \in Row
  BY ElementOfSeq, LenProperties
<1>2. \A i \in 1..Len(found) : found[i]["total"] \in Cell
  BY <1>1 DEF Row, Columns
<1>3. Totals(found) = [i \in 1..Len(found) |-> found[i]["total"]]
  BY <1>1 DEF Totals
<1>4. Totals(found) \in Seq(Cell)
  BY <1>1, <1>2, <1>3, IsASeq
<1> QED
  BY <1>1, <1>3, <1>4, LenProperties

\* What the read actions answer about the rows that were found.
LEMMA AnswerFacts ==
  ASSUME NEW found \in Seq(Row)
  PROVE  /\ \A exists \in AnswersOf("exists", found) :
               exists = Str(<<"word", "true">>) <=> found # <<>>
         /\ \A row \in AnswersOf("read-row", found) : row = Raised <=> found = <<>>
         /\ topic.dialect # "oracle" =>
               \A count \in AnswersOf("count", found) : count = Num(Len(found))
<1>1. \A row : RowValue(row) # None /\ RowValue(row) # Raised /\ None # Raised
  BY DEF RowValue, None, Raised
<1>2. Str(<<"word", "true">>) # Str(<<"word", "false">>)
  BY DEF Str
<1>3. \A row \in FindOne(found) : row = None <=> found = <<>>
  BY <1>1 DEF FindOne
<1>4. \A row \in FindOne(found) : row # Raised
  BY <1>1 DEF FindOne
<1>5. \A exists \in AnswersOf("exists", found) :
         exists = Str(<<"word", "true">>) <=> found # <<>>
  BY <1>2, <1>3 DEF AnswersOf, Exists
<1>6. \A row \in AnswersOf("read-row", found) : row = Raised <=> found = <<>>
  BY <1>3, <1>4 DEF AnswersOf, ReadRow, OrRaised
<1>7. ASSUME topic.dialect # "oracle"
      PROVE  \A count \in AnswersOf("count", found) : count = Num(Len(found))
  <2>1. Len(Totals(found)) = Len(found) /\ Len(found) \in Nat
    BY TotalsType, LenProperties
  <2>2. Aggregate("count", Totals(found)) = Num(Len(found))
    BY <1>7, <2>1 DEF Aggregate, SqlAggregate, MongoAggregate
  <2>3. Num(Len(found)) # None
    BY DEF Num, None
  <2>4. AnswersOf("count", found) = OrRaised({Aggregate("count", Totals(found))})
    BY DEF AnswersOf, ReadFactor, Totals
  <2> QED
    BY <2>2, <2>3, <2>4 DEF OrRaised
<1> QED
  BY <1>5, <1>6, <1>7

\* SQL's sum is that of the factors that are not NULL.
LEMMA SumIsOfFactors ==
  ASSUME NEW found \in Seq(Row), IsSql(topic.dialect),
         NEW sum \in AnswersOf("sum", found), NEW factors \in AnswersOf("read-factors", found)
  PROVE  sum = SumOfFactors(NotNull(factors.s))
<1> DEFINE values == Totals(found)
           nums == NotNull(values)
<1>1. factors.s = values
  <2>1. Find(found) = List([i \in DOMAIN found |-> RowValue(found[i])])
    BY DEF Find, SqlFind
  <2>2. factors = Factors(Find(found))
    BY DEF AnswersOf, ReadFactors
  <2>3. factors = List([i \in DOMAIN found |-> RowValue(found[i]).m["total"]])
    BY <2>1, <2>2 DEF Factors, List
  <2>4. \A i \in DOMAIN found : RowValue(found[i]).m = found[i]
    BY DEF RowValue
  <2> QED
    BY <2>3, <2>4 DEF List, Totals
<1>2. values \in Seq(Cell)
  BY TotalsType
<1> HIDE DEF values
<1>3. \A i \in DOMAIN nums : nums[i].k = "num"
  BY <1>2, NotNullFacts
<1> HIDE DEF nums
<1>4. SqlAggregate("sum", values) = IF nums = <<>> THEN None ELSE Num(SumOf(nums))
  BY DEF SqlAggregate, nums
<1>5. \A n : Num(n) # None
  BY DEF Num, None
<1>6. sum = IF nums = <<>> THEN Raised ELSE Num(SumOf(nums))
  <2>1. AnswersOf("sum", found) = OrRaised({SqlAggregate("sum", values)})
    BY DEF AnswersOf, ReadFactor, Aggregate, values, Totals
  <2> QED
    BY <1>4, <1>5, <2>1 DEF OrRaised
<1>7. SumOfFactors(nums) = IF nums = <<>> THEN Raised ELSE Num(SumOf(nums))
  <2>1. List(nums).k = "list" /\ List(nums).s = nums
    BY DEF List
  <2> DEFINE variables == [v |-> List(nums)]
  <2>2. "v" \in DOMAIN variables /\ variables["v"] = List(nums)
    OBVIOUS
  <2> HIDE DEF variables
  <2>3. FuncPattern("v", "sum", variables) = Num(SumOf(nums))
    BY <1>3, <2>1, <2>2 DEF FuncPattern
  <2> QED
    BY <2>3 DEF SumOfFactors, variables
<1> QED
  BY <1>1, <1>6, <1>7 DEF nums

LEMMA IInvReadsAgree == IInv => ReadsAgree
<1> SUFFICES ASSUME IInv, NEW found \in MayBeFound,
                    NEW exists \in AnswersOf("exists", found), NEW row \in AnswersOf("read-row", found),
                    NEW count \in AnswersOf("count", found), NEW sum \in AnswersOf("sum", found),
                    NEW factors \in AnswersOf("read-factors", found)
             PROVE  /\ exists = Str(<<"word", "true">>) <=> row # Raised
                    /\ topic.dialect # "oracle" => (row = Raised <=> count = Num(0))
                    /\ IsSql(topic.dialect) => sum = SumOfFactors(NotNull(factors.s))
  BY DEF ReadsAgree
<1>1. found \in Seq(Row) /\ Len(found) \in Nat
  BY FoundFacts DEF IInv, TypeInv
<1>2. found = <<>> <=> Len(found) = 0
  BY <1>1, EmptySeq
<1>3. ASSUME topic.dialect # "oracle"
      PROVE  count = Num(0) <=> Len(found) = 0
  <2>1. count = Num(Len(found))
    BY <1>1, <1>3, AnswerFacts
  <2>2. Num(Len(found)) = Num(0) => Len(found) = 0
    BY DEF Num
  <2> QED
    BY <2>1, <2>2
<1>4. exists = Str(<<"word", "true">>) <=> found # <<>>
  BY <1>1, AnswerFacts
<1>5. row = Raised <=> found = <<>>
  BY <1>1, AnswerFacts
<1>6. IsSql(topic.dialect) => sum = SumOfFactors(NotNull(factors.s))
  BY <1>1, SumIsOfFactors
<1> QED
  BY <1>2, <1>3, <1>4, <1>5, <1>6

\* Whatever rows a query finds, in whatever order, exists, read-row, the sum and the
\* factors agree about them, and so does count in the stores that answer it.
THEOREM ReadsAlwaysAgree == Spec => []ReadsAgree
BY Invariant, IInvReadsAgree, PTL
-----------------------------------------------------------------------------
(* Pages.                                                                  *)

Smaller(a, b) == IF a <= b THEN a ELSE b

LEMMA MinOfTwo ==
  ASSUME NEW a \in Int, NEW b \in Int
  PROVE  Min({a, b}) = Smaller(a, b)
<1>1. Smaller(a, b) \in {a, b} /\ \A y \in {a, b} : Smaller(a, b) <= y
  BY DEF Smaller
<1>2. \A x \in {a, b} : (\A y \in {a, b} : x <= y) => x = Smaller(a, b)
  BY DEF Smaller
<1> DEFINE least == CHOOSE x \in {a, b} : \A y \in {a, b} : x <= y
<1>3. least \in {a, b} /\ \A y \in {a, b} : least <= y
  BY <1>1
<1>4. Min({a, b}) = least
  BY DEF Min
<1> HIDE DEF least
<1> QED
  BY <1>2, <1>3, <1>4

LEMMA Times ==
  ASSUME NEW size \in Nat, NEW i \in Nat
  PROVE  size * i \in Nat /\ size * (i - 1) = size * i - size /\ size * (i - 1) + size = size * i
<1>1. size * i \in Nat
  OBVIOUS
<1>2. size * (i - 1) = size * i - size
  OBVIOUS
<1> QED
  BY <1>1, <1>2

\* The page count is enough for all the items, and zero only for none.
LEMMA PageCountFacts ==
  ASSUME NEW items \in Nat, NEW size \in Nat \ {0}
  PROVE  /\ PageCount(items, size) \in Nat
         /\ items <= size * PageCount(items, size)
<1> DEFINE a == items + size - 1
           n == a \div size
<1>1. a \in Nat
  OBVIOUS
<1> HIDE DEF a
<1>2. n \in Int /\ size * n <= a /\ a < size * n + size
  BY <1>1
<1>3. n \in Nat
  BY <1>1
<1> HIDE DEF n
<1>4. size * n \in Int
  BY <1>2
<1> DEFINE p == size * n
<1> HIDE DEF p
<1>5. items <= p
  BY <1>2, <1>4 DEF a, p
<1> QED
  BY <1>3, <1>5 DEF PageCount, a, n, p

\* Up to every page the pages make up the beginning of what was found.
LEMMA PagesAreAdjacent ==
  ASSUME NEW S, NEW found \in Seq(S), NEW size \in Nat \ {0}, NEW i \in Nat \ {0}
  PROVE  /\ i = 1 => PageOf(found, size, i) = SubSeq(found, 1, Smaller(size * i, Len(found)))
         /\ i # 1 => SubSeq(found, 1, Smaller(size * (i - 1), Len(found))) \o PageOf(found, size, i)
                        = SubSeq(found, 1, Smaller(size * i, Len(found)))
<1> DEFINE n == Len(found)
           p == size * (i - 1)
           q == size * i
<1>1. n \in Nat
  BY LenProperties
<1>2. p \in Nat /\ q = p + size
  <2>1. q \in Nat /\ p + size = q
    BY Times
  <2>2. i - 1 \in Nat
    OBVIOUS
  <2>3. p \in Nat
    BY <2>2, Times
  <2> QED
    BY <2>1, <2>3
<1>3. PageOf(found, size, i) = SubSeq(found, p + 1, Min({p + 1 + size - 1, n}))
  BY DEF PageOf, Offset
<1>4. i = 1 => p = 0
  OBVIOUS
<1> HIDE DEF n, p, q
<1>5. PageOf(found, size, i) = SubSeq(found, p + 1, Smaller(q, n))
  <2>1. p + 1 + size - 1 = q /\ q \in Int /\ n \in Int
    BY <1>1, <1>2
  <2>2. Min({q, n}) = Smaller(q, n)
    BY <2>1, MinOfTwo
  <2> QED
    BY <1>3, <2>1, <2>2
<1>6. SubSeq(found, 1, Smaller(p, n)) \o SubSeq(found, p + 1, Smaller(q, n)) = SubSeq(found, 1, Smaller(q, n))
  <2>1. CASE p <= n
    <3>1. Smaller(p, n) = p /\ p \in 0..n /\ Smaller(q, n) \in p..n
      BY <1>1, <1>2, <2>1 DEF Smaller
    <3>2. 1 \in 1..n + 1 /\ p \in (1 - 1)..n
      BY <1>1, <3>1
    <3> QED
      BY <3>1, <3>2, ConcatAdjacentSubSeq DEF n
  <2>2. CASE ~(p <= n)
    <3>1. Smaller(p, n) = n /\ Smaller(q, n) = n /\ n < p + 1 /\ p + 1 \in Int /\ n \in Int
      BY <1>1, <1>2, <2>2 DEF Smaller
    <3>2. SubSeq(found, p + 1, n) = <<>>
      BY <3>1, SubSeqEmpty
    <3>3. SubSeq(found, 1, n) = found
      BY SubSeqFull DEF n
    <3> QED
      BY <3>1, <3>2, <3>3, ConcatEmptySeq
  <2> QED
    BY <2>1, <2>2
<1>7. i = 1 => PageOf(found, size, i) = SubSeq(found, 1, Smaller(q, n))
  <2>1. i = 1 => p + 1 = 1
    BY <1>4
  <2> QED
    BY <1>5, <2>1
<1>8. SubSeq(found, 1, Smaller(p, n)) \o PageOf(found, size, i) = SubSeq(found, 1, Smaller(q, n))
  BY <1>5, <1>6
<1> QED
  BY <1>7, <1>8 DEF n, p, q

\* All the pages there are make up what was found.
LEMMA PagesMakeUp ==
  ASSUME NEW S, NEW found \in Seq(S), NEW size \in Nat \ {0}, NEW count \in Nat,
         Len(found) <= size * count
  PROVE  FlattenSeq([i \in 1..count |-> PageOf(found, size, i)]) = found
<1> DEFINE n == Len(found)
           seqs == [i \in 1..count |-> PageOf(found, size, i)]
           Upto(i) == SubSeq(found, 1, Smaller(size * i, n))
           g == [i \in 1..count |-> Upto(i)]
<1>1. n \in Nat
  BY LenProperties
<1>2. seqs \in Seq({PageOf(found, size, i) : i \in 1..count}) /\ Len(seqs) = count
  <2>1. seqs \in Seq({PageOf(found, size, i) : i \in 1..count})
    BY IsASeq
  <2> QED
    BY <2>1, LenProperties
<1>3. CASE count = 0
  <2>1. n = 0
    BY <1>1, <1>3
  <2>2. found = <<>>
    BY <2>1, EmptySeq
  <2>3. seqs = <<>>
    BY <1>2, <1>3, EmptySeq
  <2> QED
    BY <2>2, <2>3, EmptySeq DEF FlattenSeq
<1>4. CASE count # 0
  <2>0. \A i \in Nat \ {0} :
           /\ i = 1 => PageOf(found, size, i) = Upto(i)
           /\ i # 1 => Upto(i - 1) \o PageOf(found, size, i) = Upto(i)
    BY PagesAreAdjacent
  <2> HIDE DEF Upto
  <2>1. \A i \in 1..count : g[i] = IF i = 1 THEN seqs[i] ELSE g[i - 1] \o seqs[i]
    <3> TAKE i \in 1..count
    <3>1. i \in Nat \ {0} /\ g[i] = Upto(i) /\ seqs[i] = PageOf(found, size, i)
      OBVIOUS
    <3>2. i # 1 => i - 1 \in 1..count /\ g[i - 1] = Upto(i - 1)
      BY <3>1
    <3> HIDE DEF g, seqs
    <3> QED
      BY <2>0, <3>1, <3>2
  <2>2. g[count] = found
    <3>0. g[count] = Upto(count)
      BY <1>4
    <3>1. g[count] = SubSeq(found, 1, Smaller(size * count, n))
      BY <3>0 DEF Upto
    <3>2. size * count \in Nat
      BY Times
    <3>3. Smaller(size * count, n) = n
      BY <1>1, <3>2 DEF Smaller
    <3> HIDE DEF g
    <3> QED
      BY <3>1, <3>3, SubSeqFull
  <2> HIDE DEF g, seqs
  <2>3. seqs # <<>>
    BY <1>2, <1>4, EmptySeq
  <2>4. IsFlat(g, seqs, Len(seqs))
    BY <1>2, <2>1 DEF IsFlat
  <2>5. FlattenSeq(seqs) = g[count]
    BY <1>2, <2>3, <2>4, FlattenIs
  <2> QED
    BY <2>2, <2>5 DEF seqs
<1> QED
  BY <1>3, <1>4

\* A page has what there is of its places among n rows, whatever the order.
LEMMA PageLength ==
  ASSUME NEW S, NEW order \in Seq(S), NEW size \in Nat \ {0}, NEW i \in Nat \ {0}
  PROVE  /\ PageOf(order, size, i) \in Seq(S)
         /\ Len(PageOf(order, size, i))
               = Smaller(size * i, Len(order)) - Smaller(size * (i - 1), Len(order))
<1> DEFINE n == Len(order)
           p == size * (i - 1)
           q == size * i
<1>1. n \in Nat
  BY LenProperties
<1>2. p \in Nat /\ q \in Nat /\ q = p + size
  <2>1. q \in Nat /\ p + size = q
    BY Times
  <2>2. i - 1 \in Nat
    OBVIOUS
  <2>3. p \in Nat
    BY <2>2, Times
  <2> QED
    BY <2>1, <2>3
<1>3. PageOf(order, size, i) = SubSeq(order, p + 1, Min({p + 1 + size - 1, n}))
  BY DEF PageOf, Offset
<1> HIDE DEF n, p, q
<1>4. PageOf(order, size, i) = SubSeq(order, p + 1, Smaller(q, n))
  <2>1. p + 1 + size - 1 = q /\ q \in Int /\ n \in Int
    BY <1>1, <1>2
  <2>2. Min({q, n}) = Smaller(q, n)
    BY <2>1, MinOfTwo
  <2> QED
    BY <1>3, <2>1, <2>2
<1>5. CASE p < n
  <2>1. Smaller(p, n) = p /\ Smaller(q, n) \in 1..n /\ p + 1 \in 1..n /\ p + 1 <= Smaller(q, n)
    BY <1>1, <1>2, <1>5 DEF Smaller
  <2>2. \A k \in p + 1..Smaller(q, n) : order[k] \in S
    BY <1>1, <1>2, <2>1, ElementOfSeq DEF n
  <2>3. /\ SubSeq(order, p + 1, Smaller(q, n)) \in Seq(S)
        /\ Len(SubSeq(order, p + 1, Smaller(q, n))) = Smaller(q, n) - (p + 1) + 1
    BY <1>1, <1>2, <2>1, SubSeqProperties DEF n
  <2> QED
    BY <1>1, <1>2, <1>4, <2>1, <2>3 DEF n, p, q
<1>6. CASE ~(p < n)
  <2>1. Smaller(p, n) = n /\ Smaller(q, n) = n /\ n < p + 1
    BY <1>1, <1>2, <1>6 DEF Smaller
  <2>2. PageOf(order, size, i) = <<>>
    BY <1>1, <1>2, <1>4, <2>1, SubSeqEmpty
  <2> QED
    BY <1>1, <2>1, <2>2, EmptySeq DEF n, p, q
<1> QED
  BY <1>5, <1>6

\* Sequences as long as pages are together as long as what is paged.
LEMMA PagesLength ==
  ASSUME NEW S, NEW seqs \in Seq(Seq(S)), NEW n \in Nat, NEW size \in Nat \ {0},
         n <= size * Len(seqs),
         \A i \in 1..Len(seqs) : Len(seqs[i]) = Smaller(size * i, n) - Smaller(size * (i - 1), n)
  PROVE  Len(FlattenSeq(seqs)) = n
<1> DEFINE count == Len(seqs)
<1>1. \A i \in 1..count :
        /\ seqs[i] \in Seq(S)
        /\ Len(seqs[i]) = Smaller(size * i, n) - Smaller(size * (i - 1), n)
  BY ElementOfSeq
<1>2. count \in Nat /\ n <= size * count
  BY LenProperties
<1>0. count = Len(seqs)
  OBVIOUS
<1> HIDE DEF count
<1>3. CASE count = 0
  <2>1. n = 0
    BY <1>2, <1>3
  <2>2. seqs = <<>>
    BY <1>0, <1>3, EmptySeq
  <2> QED
    BY <2>1, <2>2, EmptySeq DEF FlattenSeq
<1>4. CASE count # 0
  <2>1. PICK g : IsFlat(g, seqs, count)
    BY <1>2, FlattenExists
  <2> DEFINE Good == {k \in 0..count :
                        \A i \in 1..k : g[i] \in Seq(S) /\ Len(g[i]) = Smaller(size * i, n)}
  <2>2. 0 \in Good
    BY <1>2
  <2>3. ASSUME NEW k \in 0..count, k \in Good, k < count
        PROVE  k + 1 \in Good
    <3>1. /\ k + 1 \in 0..count /\ k + 1 \in 1..count /\ k \in Nat /\ (k + 1) - 1 = k
          /\ \A i \in 1..k + 1 : i \in 1..k \/ i = k + 1
      BY <1>2, <2>3
    <3>2. g[k + 1] = IF k + 1 = 1 THEN seqs[k + 1] ELSE g[k] \o seqs[k + 1]
      BY <2>1, <3>1 DEF IsFlat
    <3>3. /\ seqs[k + 1] \in Seq(S)
          /\ Len(seqs[k + 1]) = Smaller(size * (k + 1), n) - Smaller(size * k, n)
      BY <1>1, <3>1
    <3>4. k # 0 => g[k] \in Seq(S) /\ Len(g[k]) = Smaller(size * k, n)
      BY <2>3, <3>1
    <3>5. size * k \in Nat /\ size * (k + 1) \in Nat
      BY <3>1, Times
    <3>6. g[k + 1] \in Seq(S) /\ Len(g[k + 1]) = Smaller(size * (k + 1), n)
      <4>1. CASE k = 0
        <5>1. size * k = 0
          BY <4>1
        <5>2. Smaller(size * k, n) = 0
          BY <5>1 DEF Smaller
        <5>3. Smaller(size * (k + 1), n) \in Int
          BY <3>5 DEF Smaller
        <5> QED
          BY <3>2, <3>3, <4>1, <5>2, <5>3
      <4>2. CASE k # 0
        <5>0. k + 1 # 1 /\ g[k] \in Seq(S) /\ seqs[k + 1] \in Seq(S)
          BY <3>1, <3>3, <3>4, <4>2
        <5>1. g[k + 1] = g[k] \o seqs[k + 1]
          BY <3>2, <5>0
        <5>2. g[k + 1] \in Seq(S) /\ Len(g[k + 1]) = Len(g[k]) + Len(seqs[k + 1])
          BY <5>0, <5>1, ConcatProperties
        <5>3. Smaller(size * k, n) \in Int /\ Smaller(size * (k + 1), n) \in Int
          BY <3>5 DEF Smaller
        <5> QED
          BY <3>3, <3>4, <4>2, <5>2, <5>3
      <4> QED
        BY <4>1, <4>2
    <3> QED
      BY <2>3, <3>1, <3>6
  <2> HIDE DEF Good
  <2>4. count \in Good
    <3>1. \A k \in 0..count : k \in Good
      BY <1>2, <2>2, <2>3, Inductive
    <3> QED
      BY <1>2, <3>1
  <2>5. Len(g[count]) = Smaller(size * count, n)
    BY <1>2, <1>4, <2>4 DEF Good
  <2>6. size * count \in Nat
    BY <1>2, Times
  <2>7. Smaller(size * count, n) = n
    BY <1>2, <2>6 DEF Smaller
  <2>8. seqs # <<>>
    BY <1>0, <1>4, EmptySeq
  <2>9. FlattenSeq(seqs) = g[count]
    BY <1>0, <2>1, <2>8, FlattenIs
  <2> QED
    BY <2>5, <2>7, <2>9
<1> QED
  BY <1>3, <1>4

\* An order of the rows found has the same number of rows.
LEMMA OrderFacts ==
  ASSUME NEW found \in Seq(Row), NEW order \in Orders(found)
  PROVE  order \in Seq(Row) /\ Len(order) = Len(found)
<1>1. Len(found) \in Nat /\ DOMAIN found = 1..Len(found) /\ \A i \in 1..Len(found) : found[i] \in Row
  BY ElementOfSeq, LenProperties
<1>2. PICK p \in [DOMAIN found -> DOMAIN found] : order = [i \in DOMAIN found |-> found[p[i]]]
  BY DEF Orders, Bijection, Injection
<1>3. order = [i \in 1..Len(found) |-> found[p[i]]] /\ \A i \in 1..Len(found) : found[p[i]] \in Row
  BY <1>1, <1>2
<1>4. order \in Seq(Row)
  BY <1>1, <1>3, IsASeq
<1> QED
  BY <1>1, <1>3, <1>4, LenProperties

LEMMA IInvPagesAddUp == IInv => PagesAddUp
<1> SUFFICES ASSUME IInv, NEW found \in MayBeFound, NEW size \in PageSizes,
                    NEW orders \in [1..Page(found, size, 1).pageCount -> Orders(found)]
             PROVE  LET shown == FlattenSeq([n \in DOMAIN orders |-> Page(orders[n], size, n).data])
                    IN  /\ Len(shown) = Len(found)
                        /\ (\A n \in DOMAIN orders : orders[n] = found) => shown = found
  BY DEF PagesAddUp
<1>1. found \in Seq(Row) /\ Len(found) \in Nat /\ Len(found) <= Len(rows)
  BY FoundFacts DEF IInv, TypeInv
<1>2. size \in Nat \ {0} /\ Len(rows) \in Nat
  BY PageAssumption, LenProperties DEF IInv, TypeInv
<1> DEFINE count == Page(found, size, 1).pageCount
<1>3. \A n : Page(orders[n], size, n).data = PageOf(orders[n], size, n)
  BY DEF Page, SqlPage, MongoPage
<1>4. count = PageCount(Len(rows), size) \/ count = PageCount(Len(found), size)
  BY DEF Page, SqlPage, MongoPage
<1>0. DOMAIN orders = 1..count /\ \A n \in 1..count : orders[n] \in Orders(found)
  OBVIOUS
<1>5. count \in Nat /\ Len(found) <= size * count
  <2>1. /\ PageCount(Len(rows), size) \in Nat /\ Len(rows) <= size * PageCount(Len(rows), size)
        /\ PageCount(Len(found), size) \in Nat /\ Len(found) <= size * PageCount(Len(found), size)
    BY <1>1, <1>2, PageCountFacts
  <2>2. size * PageCount(Len(rows), size) \in Nat
    BY <1>2, <2>1, Times
  <2> HIDE DEF count
  <2>3. CASE count = PageCount(Len(rows), size)
    <3> DEFINE p == size * PageCount(Len(rows), size)
    <3>1. p \in Nat /\ Len(rows) <= p
      BY <2>1, <2>2
    <3> HIDE DEF p
    <3>2. Len(found) <= p
      BY <1>1, <1>2, <3>1
    <3> QED
      BY <2>1, <2>3, <3>2 DEF p
  <2>4. CASE count = PageCount(Len(found), size)
    BY <2>1, <2>4
  <2> QED
    BY <1>4, <2>3, <2>4
<1> HIDE DEF count
<1> DEFINE shown == FlattenSeq([n \in 1..count |-> PageOf(orders[n], size, n)])
<1>6. FlattenSeq([n \in DOMAIN orders |-> Page(orders[n], size, n).data]) = shown
  BY <1>0, <1>3
<1>7. Len(shown) = Len(found)
  <2> DEFINE pages == [n \in 1..count |-> PageOf(orders[n], size, n)]
  <2>1. ASSUME NEW i \in 1..count
        PROVE  /\ pages[i] \in Seq(Row)
               /\ Len(pages[i]) = Smaller(size * i, Len(found)) - Smaller(size * (i - 1), Len(found))
    <3>1. orders[i] \in Seq(Row) /\ Len(orders[i]) = Len(found)
      BY <1>0, <1>1, OrderFacts
    <3>2. i \in Nat \ {0} /\ pages[i] = PageOf(orders[i], size, i)
      OBVIOUS
    <3> HIDE DEF pages
    <3> QED
      BY <1>2, <3>1, <3>2, PageLength
  <2>2. pages \in Seq(Seq(Row)) /\ Len(pages) = count
    <3>1. pages \in Seq(Seq(Row))
      BY <1>5, <2>1, IsASeq
    <3> QED
      BY <1>5, <3>1, LenProperties
  <2>3. shown = FlattenSeq(pages)
    OBVIOUS
  <2> HIDE DEF shown, pages
  <2> QED
    BY <1>1, <1>2, <1>5, <2>1, <2>2, <2>3, PagesLength
<1>8. ASSUME \A n \in DOMAIN orders : orders[n] = found
      PROVE  shown = found
  <2>1. [n \in 1..count |-> PageOf(orders[n], size, n)] = [n \in 1..count |-> PageOf(found, size, n)]
    BY <1>0, <1>8
  <2>2. FlattenSeq([n \in 1..count |-> PageOf(found, size, n)]) = found
    BY <1>1, <1>2, <1>5, PagesMakeUp
  <2> QED
    BY <2>1, <2>2
<1> HIDE DEF shown
<1> QED
  BY <1>6, <1>7, <1>8

\* A client that turns the pages up to the page count it is told is shown as many rows
\* as the query finds, in whatever order the store answers each page, and exactly those
\* rows where one order lasts for all of them, for every page size.
THEOREM PagesAlwaysAddUp == Spec => []PagesAddUp
BY Invariant, IInvPagesAddUp, PTL
==============================================================================
