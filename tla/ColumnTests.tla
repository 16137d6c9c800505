---------------------------- MODULE ColumnTests ----------------------------
(***************************************************************************)
(* One test of a column of the target topic, from the "by" of an action to *)
(* the rows of a store: parse_on_parameter.py makes it a where from a      *)
(* factor of the target and a value, and each of the three topic storages  *)
(* (mysql, oracle, mongo) turns the where into a query of its store.       *)
(* Criteria has the conditions that are joined from such tests.            *)
(*                                                                         *)
(* A where is [is |-> "test", col, op, v].  A row is a function from       *)
(* column names to values; None is NULL, and on Mongo also a key the       *)
(* document does not have.  The conversion to JSON columns, the operators  *)
(* no "by" can ask for (like, between), empty lists and the order of texts *)
(* are left out.                                                           *)
(***************************************************************************)
EXTENDS Factors

Dialects == {"mysql", "oracle", "mongo"}

IsSql(dialect) == dialect \in {"mysql", "oracle"}

-----------------------------------------------------------------------------
(***************************************************************************)
(* From a test to a where                                                  *)
(***************************************************************************)
Right(v) == IF v = Raised THEN Raised ELSE [k |-> "right", v |-> v]

\* A value is on the right, the name of a factor of the target topic on the left.
ByFactor(p, data) ==
    IF p.of = "target" THEN [k |-> "left", name |-> p.path[1], type |-> p.type]
    ELSE Right(FactorValue(p, data))

\* The value is converted as the factor wants it, a list element by element.
Adapted(type, v) ==
    IF v.k = "list" /\ type # "array"
    THEN LET s == [i \in DOMAIN v.s |-> Convert(type, v.s[i])]
         IN  IF Raised \in Range(s) THEN Raised ELSE [v EXCEPT !.s = s]
    ELSE Convert(type, v)

WhereOp ==
    [op \in {"equals", "not-equals", "less", "less-equals", "more", "more-equals",
             "in", "not-in", "empty"} |->
        CASE op = "equals" -> "=" [] op = "not-equals" -> "!=" [] op = "less" -> "<"
          [] op = "less-equals" -> "<=" [] op = "more" -> ">" [] op = "more-equals" -> ">="
          [] op = "empty" -> "=" [] OTHER -> op]

\* Mutant of WhereTest: the value is compared as it was given.
WhereTestRaw(op, name, type, v) ==
    IF op \notin DOMAIN WhereOp THEN Raised
    ELSE [k |-> "where", is |-> "test", col |-> name, op |-> WhereOp[op],
          v |-> IF op = "empty" THEN None ELSE v]

\* Which side the column was on makes no difference: 3 < column asks for column < 3.
WhereTest(op, name, type, v) ==
    LET value == Adapted(type, v)
    IN  IF op \notin DOMAIN WhereOp \/ value = Raised THEN Raised
        ELSE [k |-> "where", is |-> "test", col |-> name, op |-> WhereOp[op],
              v |-> IF op = "empty" THEN None ELSE value]

\* A test has the column on one of its sides and a value on the other.
ByFilter(op, l, r) ==
    IF Raised \in {l, r} \/ l.k = r.k THEN Raised
    ELSE IF l.k = "left" THEN WhereTest(op, l.name, l.type, r.v)
    ELSE WhereTest(op, r.name, r.type, l.v)

-----------------------------------------------------------------------------
(***************************************************************************)
(* From a where to the rows of a store                                     *)
(***************************************************************************)
\* Two values of one column: Decimals are compared by value.
Same(a, b) == IF a.k = "num" /\ b.k = "num" THEN a.n = b.n ELSE a = b

IsOneOf(a, list) == \E i \in DOMAIN list : Same(a, list[i])

Compares(op, a, b) ==
    /\ a.k = "num" /\ b.k = "num"
    /\ CASE op = "<" -> a.n < b.n [] op = "<=" -> a.n <= b.n
         [] op = ">" -> a.n > b.n [] op = ">=" -> a.n >= b.n

\* Mutant of SqlTest: = None is compared with NULL, which nothing equals.
SqlTestNull(dialect, op, a, v) ==
    LET list == IF v.k = "list" THEN v.s ELSE SetToSeq({Str(t) : t \in Options(v)})
    IN  CASE op = "in" -> Truth(a # None /\ IsOneOf(a, list))
          [] op = "not-in" -> Truth(a # None /\ ~IsOneOf(a, list))
          [] op = "=" -> Truth(a # None /\ Same(a, v))
          [] op = "!=" -> Truth(a # None /\ ~Same(a, v))
          [] OTHER     -> Truth(Compares(op, a, v))

\* What a row must have in the column for SQL to return it.  A comparison with NULL is
\* unknown; = None and != None are IS NULL and IS NOT NULL.  A text that stands for a
\* list is split, but mysql's not-in joins its characters instead, which the driver
\* refuses, as it refuses other values.
SqlTest(dialect, op, a, v) ==
    LET list == IF v.k = "list" THEN v.s ELSE SetToSeq({Str(t) : t \in Options(v)})
    IN  IF op \in {"in", "not-in"}
        THEN IF v.k \notin {"list", "str"} \/ (v.k = "str" /\ op = "not-in" /\ dialect = "mysql")
             THEN Raises
             ELSE IF op = "in" THEN Truth(a # None /\ IsOneOf(a, list))
             ELSE Truth(a # None /\ None \notin Range(list) /\ ~IsOneOf(a, list))
        ELSE IF v.k = "list" THEN Raises
        ELSE IF op = "="  THEN Truth(IF v = None THEN a = None ELSE Same(a, v))
        ELSE IF op = "!=" THEN Truth(a # None /\ ~Same(a, v))
        ELSE IF v = None  THEN Raises
        ELSE Truth(Compares(op, a, v))

\* What a document must have under the key for Mongo to return it.
MongoTest(op, a, v) ==
    IF op \in {"in", "not-in"}
    THEN IF v.k # "list" THEN Raises ELSE Truth((op = "in") <=> IsOneOf(a, v.s))
    ELSE IF op = "="  THEN Truth(Same(a, v))
    ELSE IF op = "!=" THEN Truth(~Same(a, v))
    ELSE IF v = None  THEN Truth(a = None /\ op \in {"<=", ">="})
    ELSE Truth(Compares(op, a, v))

\* Does the row meet the test, or does the store refuse the query?
MeetsTest(dialect, where, row) ==
    IF where = Raised THEN Raises
    ELSE IF IsSql(dialect) THEN SqlTest(dialect, where.op, row[where.col], where.v)
    ELSE MongoTest(where.op, row[where.col], where.v)

=============================================================================
