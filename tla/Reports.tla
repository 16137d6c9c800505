------------------------------- MODULE Reports -------------------------------
(***************************************************************************)
(* The queries behind subjects, reports and their consumers: the filters   *)
(* of the console (parser/console_paramter_parser.py), the dataset of a    *)
(* subject with its joins and the filters of its space                     *)
(* (report/engine/dataset_engine.py), and three more builders of tests on  *)
(* a dataset's columns: the funnels of a chart, the where of a consumer    *)
(* and the conditions of /subject/query.  The code builds SQL; here the    *)
(* query is applied to the rows at once.                                   *)
(*                                                                         *)
(* A term is a value with the type the parser infers for it, and whether   *)
(* it is a wrapped constant.  A scope says what the fields stand for:      *)
(* rows of topics, or one row of a dataset.  Filters and parameters are    *)
(* those of Parameters; a topic parameter also says of which topic it is,  *)
(* and under a dataset its path is the id of a column.  The date           *)
(* differences in constants, the day of the week and the order of texts    *)
(* are left out.                                                           *)
(***************************************************************************)
EXTENDS Parameters

Term(v, type) == [k |-> "term", v |-> v, type |-> type, wrapped |-> FALSE]
Wrapped(t) == [k |-> "term", v |-> Str(t), type |-> "text", wrapped |-> TRUE]

InTopics(rows) == [is |-> "topics", rows |-> rows]
InDataset(values, columns) == [is |-> "dataset", values |-> values, columns |-> columns]

\* The types of the store.
SqlType(type) == CASE type = "number" -> "decimal" [] type = "date" -> "date" [] OTHER -> "varchar"

-----------------------------------------------------------------------------
(***************************************************************************)
(* Parameters                                                              *)
(***************************************************************************)
\* A topic that is in no FROM has no rows in scope.
TopicField(p, scope) ==
    IF p.of \in DOMAIN scope.rows THEN Term(Get(scope.rows[p.of], p.path[1]), p.type) ELSE Raised

ColumnIn(columns, id) == SelectInSeq(columns, LAMBDA column : column.columnId = id)

DatasetField(p, scope) ==
    LET i == ColumnIn(scope.columns, p.path[1])
    IN  IF i = 0 THEN Raised ELSE scope.values[scope.columns[i].alias]

\* Every constant is a text: no variables are looked for.
ConstantTerm(parts) ==
    IF parts = <<>> THEN Wrapped(<<"">>)
    ELSE IF Len(parts) = 1 /\ parts[1].is = "text" THEN Wrapped(parts[1].t)
    ELSE Wrapped(<<"braces", parts>>)

\* transform_value_str_to_number: an integer, or nothing at all.
AsNumber(term) ==
    IF ~term.wrapped THEN term.v
    ELSE IF IsNumber(term.v.t) /\ term.v.t[3] # "point" THEN Num(term.v.t[2]) ELSE None

\* The first operand is converted once for every other one, and the second time a
\* number is no text any more: nothing is left of a constant.
FirstOperand(terms) == IF Len(terms) > 2 /\ terms[1].wrapped THEN None ELSE AsNumber(terms[1])

InSql(type, v, w) ==
    IF None \in {v, w} THEN Term(None, "number")
    ELSE IF Apply(type, v, w) = Raised THEN Raised
    ELSE Term(Apply(type, v, w), "number")

Varchar(term) == ~term.wrapped /\ SqlType(term.type) # "decimal"

\* Mutant of Arithmetic: the operands are swapped.
ArithmeticSwapped(type, terms) ==
    IF Len(terms) < 2 \/ Varchar(terms[1]) \/ Varchar(Last(terms)) THEN Raised
    ELSE InSql(type, AsNumber(Last(terms)), FirstOperand(terms))

\* Every operand after the first is applied to the first; the last result counts.
Arithmetic(type, terms) ==
    IF Len(terms) < 2 \/ Varchar(terms[1]) \/ Varchar(Last(terms)) THEN Raised
    ELSE InSql(type, FirstOperand(terms), AsNumber(Last(terms)))

\* The other parts raise, week-of-year by a slip in presto_fn.
ComputedFunction(type, term) ==
    IF type \notin {"year-of", "quarter-of", "month-of", "day-of-month"} \/ term.type # "date" THEN Raised
    ELSE Term(IF term.v = None THEN None ELSE DatePart(type, term.v), "number")

\* The first case that holds, else the last without a condition.  Case() needs a when.
CaseTerm(conditions, terms) ==
    LET whens == {i \in DOMAIN terms : conditions[i] # "none"}
        holds == {i \in whens : conditions[i] = "true"}
        defaults == DOMAIN terms \ whens
        type == Last(terms).type
    IN  IF \/ whens = {} \/ \E i \in whens : conditions[i] \in {Raises, "empty"}
           \/ \E i \in DOMAIN terms : SqlType(terms[i].type) # SqlType(type)
        THEN Raised
        ELSE IF holds # {} THEN Term(terms[Min(holds)].v, type)
        ELSE IF defaults # {} THEN Term(terms[Max(defaults)].v, type)
        ELSE Term(None, type)

-----------------------------------------------------------------------------
(***************************************************************************)
(* Criterions                                                              *)
(***************************************************************************)
Lists == {"in", "not-in"}
Emptiness == {"empty", "not-empty"}

Parts(t) == IF t[1] = "commas" THEN t[2] ELSE <<t>>
Texts(t) == [i \in DOMAIN Parts(t) |-> Str(Parts(t)[i])]
\* Of a list for a number only the parts made of digits are kept.
Digits(t) ==
    LET kept == SelectSeq(Parts(t), IsDigit) IN [i \in DOMAIN kept |-> Num(kept[i][2])]

Listing(s, type) == [k |-> "list", s |-> s, type |-> type]

\* What the right side becomes for the type of the left one.
TypeInference(op, l, r) ==
    LET number == l.type = "number"
    IN  IF op \in Emptiness THEN r
        ELSE IF op \in Lists /\ (l.type = r.type \/ (number /\ r.type = "text"))
        THEN IF ~r.wrapped THEN Raised
             ELSE IF number THEN Listing(Digits(r.v.t), "number") ELSE Listing(Texts(r.v.t), "text")
        ELSE IF number /\ r.wrapped
        THEN IF IsNumber(r.v.t) THEN Term(Num(r.v.t[2]), "number") ELSE Raised
        ELSE IF l.type = "date" /\ r.type = "text"
        THEN IF r.wrapped /\ ReadsAsDay(r.v) THEN Term([k |-> "date", d |-> DayOf(r.v)], "date")
             ELSE Raised
        ELSE r

SameValue(a, b) == IF a.k = "num" /\ b.k = "num" THEN a.n = b.n ELSE a = b
Size(v) == IF v.k = "date" THEN v.d ELSE v.n

\* SQL: a comparison with NULL is not true, IN takes a list that is not empty, and both
\* sides have one type.
Criterion(op, l, r) ==
    LET a == l.v
        b == r.v
        among == \E i \in DOMAIN r.s : SameValue(a, r.s[i])
    IN  CASE op = "empty"     -> Truth(a = None)
          [] op = "not-empty" -> Truth(a # None)
          [] op \in Lists ->
                IF r.k # "list" THEN Raises
                ELSE IF SqlType(r.type) # SqlType(l.type) \/ r.s = <<>> THEN Raises
                ELSE Truth(a # None /\ (among <=> op = "in"))
          [] op \notin Lists \cup Emptiness ->
                IF r.k = "list" THEN Raises
                ELSE IF SqlType(r.type) # SqlType(l.type) THEN Raises
                ELSE IF None \in {a, b} THEN "false"
                ELSE CASE op = "equals"      -> Truth(SameValue(a, b))
                       [] op = "not-equals"  -> Truth(~SameValue(a, b))
                       [] op = "less"        -> Truth(Size(a) < Size(b))
                       [] op = "less-equals" -> Truth(Size(a) <= Size(b))
                       [] op = "more"        -> Truth(Size(a) > Size(b))
                       [] op = "more-equals" -> Truth(Size(a) >= Size(b))

\* A criterion of two terms, the right one as TypeInference made it.
Tested(op, l, r) == IF r = Raised THEN Raises ELSE Criterion(op, l, r)

\* Criterion.all and Criterion.any: a joint of nothing is no criterion, whatever it is.
AllOrAny(type, results) ==
    LET met == results \ {"empty"}
    IN  IF met = {} THEN "empty" ELSE Join(type, met)

RECURSIVE ReportParameter(_, _), ReportJoint(_, _)

\* In a dataset the conditions of a case are still those of topics, which are out of scope.
ReportParameter(p, scope) ==
    CASE p.kind = "topic" ->
            IF scope.is = "topics" THEN TopicField(p, scope) ELSE DatasetField(p, scope)
      [] p.kind = "constant" -> ConstantTerm(p.parts)
      [] p.kind = "computed" ->
            LET terms == [i \in DOMAIN p.parameters |-> ReportParameter(p.parameters[i], scope)]
            IN  IF Raised \in Range(terms) THEN Raised
                ELSE IF p.type \in Arithmetics THEN Arithmetic(p.type, terms) ELSE ComputedFunction(p.type, terms[1])
      [] p.kind = "case-then" ->
            LET outer == IF scope.is = "topics" THEN scope ELSE InTopics(<<>>)
                conditions == [i \in DOMAIN p.cases |->
                                  IF p.cases[i].on = None THEN "none"
                                  ELSE ReportJoint(p.cases[i].on, outer)]
                terms == [i \in DOMAIN p.cases |-> ReportParameter(p.cases[i].value, scope)]
            IN  IF Raised \in Range(terms) THEN Raised ELSE CaseTerm(conditions, terms)

ReportJoint(joint, scope) ==
    IF joint.k = "joint"
    THEN AllOrAny(joint.type, {ReportJoint(joint.filters[i], scope) : i \in DOMAIN joint.filters})
    ELSE LET l == ReportParameter(joint.left, scope)
             r == ReportParameter(joint.right, scope)
         IN  IF Raised \in {l, r} THEN Raises
             ELSE Tested(joint.op, l, TypeInference(joint.op, l, r))

Keeps(result) == result \in {"true", "empty"}

-----------------------------------------------------------------------------
(***************************************************************************)
(* The dataset of a subject                                                *)
(*                                                                         *)
(* db is a function from topics to sequences of dicts, space one from the  *)
(* topics with an enabled filter to the filter.  A query that is refused   *)
(* is Refused.                                                             *)
(***************************************************************************)
Refused == <<Raised>>

Nulls(db, topic) == [k |-> "dict", m |-> [name \in {} |-> None]]

\* The rows that a test keeps, if it refuses none of them and of some others.
KeptBy(rows, others, Test(_)) ==
    IF rows = Refused THEN Refused
    ELSE IF Raises \in {Test(row) : row \in Range(rows) \cup others} THEN Refused
    ELSE SelectSeq(rows, LAMBDA row : Keeps(Test(row)))

\* Rows of a topic as a query of the space reads them: from a sub-query named like it.
TopicTable(topic, db, space) ==
    KeptBy(db[topic], {Nulls(db, topic)},
           LAMBDA row : IF topic \in DOMAIN space
                        THEN ReportJoint(space[topic], InTopics(topic :> row)) ELSE "empty")

\* The rows of the left side with those of a further topic.
On(join, rows, row) ==
    LET a == Get(rows[join.topic], join.factor)
    IN  a # None /\ SameValue(a, Get(row, join.secondaryFactor))

\* One row of the left side with each of its partners on the right, or with nulls.
WithPartners(rows, join, partners, db) ==
    IF partners = <<>> /\ join.type = "left"
    THEN <<rows @@ (join.secondary :> Nulls(db, join.secondary))>>
    ELSE [j \in DOMAIN partners |-> rows @@ (join.secondary :> partners[j])]

\* The rows of the right side that no row of the left side meets.
Alone(lone, join, db) ==
    IF join.type # "right" THEN <<>>
    ELSE [j \in DOMAIN lone |-> (join.secondary :> lone[j]) @@ [topic \in DOMAIN db |-> Nulls(db, topic)]]

\* A left topic that is not joined yet makes the query refused; any type but left and
\* right is an inner join.
JoinRows(scopes, join, right, db) ==
    IF Refused \in {scopes, right} \/ \E i \in DOMAIN scopes : join.topic \notin DOMAIN scopes[i]
    THEN Refused
    ELSE FlattenSeq([i \in DOMAIN scopes |->
             WithPartners(scopes[i], join, SelectSeq(right, LAMBDA row : On(join, scopes[i], row)), db)])
         \o Alone(SelectSeq(right, LAMBDA row : \A i \in DOMAIN scopes : ~On(join, scopes[i], row)), join, db)

\* Mutant of JoinTo: the filter of the joined topic is forgotten.
JoinToUnfiltered(scopes, join, db, space) == JoinRows(scopes, join, db[join.secondary], db)

JoinTo(scopes, join, db, space) ==
    JoinRows(scopes, join, TopicTable(join.secondary, db, space), db)

\* The first topic is that of the first join, or of the first column.
FirstTopic(subject) ==
    IF subject.joins # <<>> THEN subject.joins[1].topic ELSE subject.columns[1].parameter.of

AsScopes(topic, rows) == IF rows = Refused THEN Refused ELSE [i \in DOMAIN rows |-> topic :> rows[i]]

\* FROM and JOIN.
Joined(subject, db, space) ==
    FoldLeft(LAMBDA scopes, join : JoinTo(scopes, join, db, space),
             AsScopes(FirstTopic(subject), TopicTable(FirstTopic(subject), db, space)), subject.joins)

\* A row a column cannot be read of is refused, whatever the condition.
RowTest(subject, rows) ==
    IF \E i \in DOMAIN subject.columns :
          ReportParameter(subject.columns[i].parameter, InTopics(rows)) = Raised
    THEN Raises ELSE ReportJoint(subject.filters, InTopics(rows))

\* WHERE.  A condition or a column is refused for every row there is, also for none.
Scopes(subject, db, space) ==
    LET topics == {subject.joins[i].secondary : i \in DOMAIN subject.joins} \cup {FirstTopic(subject)}
    IN  KeptBy(Joined(subject, db, space), {[topic \in topics |-> Nulls(db, topic)]},
               LAMBDA rows : RowTest(subject, rows))

\* SELECT: each row of the dataset under the aliases of the columns.
Selected(subject, rows) ==
    [alias \in {subject.columns[i].alias : i \in DOMAIN subject.columns} |->
        LET i == SelectInSeq(subject.columns, LAMBDA column : column.alias = alias)
        IN  [ReportParameter(subject.columns[i].parameter, InTopics(rows)) EXCEPT !.wrapped = FALSE]]

SelectedAll(subject, scopes) ==
    IF scopes = Refused THEN Refused ELSE [i \in DOMAIN scopes |-> Selected(subject, scopes[i])]

Dataset(subject, db, space) == SelectedAll(subject, Scopes(subject, db, space))

CountOf(subject, db, space) == Len(Scopes(subject, db, space))

\* A page is the query again, with a limit and an offset and in whatever order the rows
\* come this time: nothing sorts them.
DatasetPage(rows, size, number) ==
    LET offset == size * (number - 1)
    IN  SubSeq(rows, offset + 1, Min({offset + size, Len(rows)}))

-----------------------------------------------------------------------------
(***************************************************************************)
(* What is asked of a dataset                                              *)
(***************************************************************************)
\* A funnel: all of its values are given, or it is none.
Given(funnel) ==
    /\ Len(funnel.values) = IF funnel.range THEN 2 ELSE 1
    /\ \A i \in DOMAIN funnel.values : funnel.values[i] \notin {None, Str(<<"">>)}

FunnelTerm(funnel, field) ==
    CASE funnel.type \in {"numeric", "date"} -> field
      [] funnel.type = "year"  -> ComputedFunction("year-of", field)
      [] funnel.type = "month" -> ComputedFunction("month-of", field)

\* The values of a funnel are texts: days of a date, numbers of anything else.
FunnelBound(funnel, field, t) ==
    TypeInference("equals", [field EXCEPT !.type = IF funnel.type = "date" THEN "date" ELSE "number"],
                  Wrapped(t))

WithinBounds(funnel, field, bounds) ==
    IF Raised \in Range(bounds) THEN Raises
    ELSE IF funnel.range
    THEN Join("and", {Criterion("more-equals", field, bounds[1]), Criterion("less-equals", field, bounds[2])})
    ELSE Criterion("equals", field, bounds[1])

InFunnel(funnel, field) ==
    IF field = Raised THEN Raises
    ELSE WithinBounds(funnel, field, [j \in DOMAIN funnel.values |-> FunnelBound(funnel, field, funnel.values[j].t)])

FunnelTest(funnel, row, columns) ==
    LET i == ColumnIn(columns, funnel.columnId)
    IN  IF ~funnel.enabled THEN "empty"
        ELSE IF i = 0 THEN Raises
        ELSE IF ~Given(funnel) THEN "empty"
        ELSE InFunnel(funnel, FunnelTerm(funnel, row[columns[i].alias]))

Funnels(funnels, row, columns) ==
    AllOrAny("and", {FunnelTest(funnels[i], row, columns) : i \in DOMAIN funnels})

\* The rows a chart is drawn of, of those of its subject.
ChartRows(report, columns, dataset) ==
    KeptBy(KeptBy(dataset, {}, LAMBDA row : ReportJoint(report.filters, InDataset(row, columns))), {},
           LAMBDA row : Funnels(report.funnels, row, columns))

RECURSIVE ConsumeTest(_, _)
\* The where of a consumer: a value is what JSON makes it, only dates are converted.
ConsumeTest(where, row) ==
    LET l == row[where.name]
        day(v) == [k |-> "date", d |-> DayOf(v)]
        v == where.value
    IN  IF where.op = "between"
        THEN IF v.k # "list" THEN Raises
             ELSE Join("and", {ConsumeTest([where EXCEPT !.op = "more-equals", !.value = v.s[1]], row),
                               ConsumeTest([where EXCEPT !.op = "less-equals", !.value = v.s[2]], row)})
        ELSE IF where.type = "date"
        THEN IF v.k = "list" THEN Criterion(where.op, l, Listing([i \in DOMAIN v.s |-> day(v.s[i])], "date"))
             ELSE Criterion(where.op, l, Term(day(v), "date"))
        ELSE IF v.k = "list"
        THEN Criterion(where.op, l, Listing(v.s, IF v.s # <<>> /\ v.s[1].k = "num" THEN "number" ELSE "text"))
        ELSE Criterion(where.op, l, Term(v, IF v.k = "num" THEN "number" ELSE "text"))

RECURSIVE ConsumeWhere(_, _)
ConsumeWhere(where, row) ==
    IF where.k = "joint"
    THEN AllOrAny(where.type, {ConsumeWhere(where.filters[i], row) : i \in DOMAIN where.filters})
    ELSE ConsumeTest(where, row)

ConsumeRows(where, dataset) == KeptBy(dataset, {}, LAMBDA row : ConsumeWhere(where, row))

\* Mutant of SubjectOp: less-equals leaves the bound out.
SubjectOpStrict(op) == CASE op = "not-in" -> "in" [] op = "less-equals" -> "less" [] OTHER -> op

\* sql_builder answers not-in with isin.
SubjectOp(op) == IF op = "not-in" THEN "in" ELSE op

\* A column is written as "topic name".factor, which only names something where the
\* topic has been given that name as a sub-query.  Lists are split for numbers alone.
SubjectTest(test, rows, subject, space) ==
    LET i == SelectInSeq(subject.columns, LAMBDA column : column.alias = test.name)
        p == subject.columns[i].parameter
        l == ReportParameter(p, InTopics(rows))
    IN  IF p.kind # "topic" THEN Raises
        ELSE IF p.of \notin DOMAIN space THEN Raises
        ELSE IF test.op \in Lists /\ l.type # "number" THEN Raises
        ELSE Tested(SubjectOp(test.op), l, TypeInference(test.op, l, Wrapped(test.t)))

\* "and" is folded with &; Union[...] of two criterions is no criterion.
SubjectTests(type, tests, rows, subject, space) ==
    LET results == {SubjectTest(tests[i], rows, subject, space) : i \in DOMAIN tests}
    IN  IF tests = <<>> THEN "empty"
        ELSE IF type = "or" /\ Len(tests) > 1 THEN Raises
        ELSE Join("and", results)

\* /subject/query: the rows of the dataset its conditions keep.
SubjectRows(type, tests, subject, space, scopes) ==
    SelectedAll(subject, KeptBy(scopes, {}, LAMBDA rows : SubjectTests(type, tests, rows, subject, space)))

=============================================================================
