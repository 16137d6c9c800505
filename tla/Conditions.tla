----------------------------- MODULE Conditions -----------------------------
(***************************************************************************)
(* What the parameters and comparisons of a pipeline promise, and the      *)
(* queries that subjects and reports make of the same conditions.  They    *)
(* are pure functions: a behaviour takes one task and answers it.          *)
(***************************************************************************)
EXTENDS Reports, ComparisonTasks

CONSTANTS
    Instance,   \* the trigger data, a dict
    Variables,  \* the variables of the pipeline: a function from names
    Db          \* the rows of the topics that subjects query

-----------------------------------------------------------------------------
EvaluateCondition == Answer("condition", ParseJoint(task.joint, Instance, Variables))
EvaluateParameter == Answer("parameter", ParseParameter(task.parameter, Instance, Variables))
ReadFactor == Answer("path", CalFactorValue(task.data, task.path))

\* A filter of the console, for one row of a topic.
EvaluateFilter == Answer("filter", ReportJoint(task.joint, InTopics(task.topic :> task.row)))

\* The orders a database may return rows in.
Orders(rows) == {[i \in DOMAIN rows |-> rows[f[i]]] : f \in SetToSeqs(DOMAIN rows)}

\* One page of a subject, and the number of its rows.
LoadDataset ==
    task.ask = "dataset" /\ \E rows \in Orders(Dataset(task.subject, Db, task.space)) :
        Answer("dataset",
               IF rows = Refused THEN [page |-> Refused, count |-> 0]
               ELSE [page |-> DatasetPage(rows, task.size, task.number),
                     count |-> CountOf(task.subject, Db, task.space)])

\* One test of a column, by everything that can ask for it.
ColumnQueries(column, dataset, scopes) ==
    LET right == [kind |-> "constant", parts |-> <<[is |-> "text", t |-> task.t]>>]
        test(left) == [k |-> "filter", left |-> left, op |-> task.op, right |-> right]
        field == [kind |-> "topic", of |-> column.parameter.of, path |-> <<task.columnId>>]
        all == [k |-> "joint", type |-> "and", filters |-> <<>>]
        funnel(values) == [enabled |-> TRUE, columnId |-> task.columnId, values |-> values,
                           range |-> Len(values) = 2, type |-> task.funnel]
        charts == [report |-> [filters |-> test(field), funnels |-> <<>>],
                   point  |-> [filters |-> all, funnels |-> <<funnel(<<Str(task.t)>>)>>],
                   range  |-> [filters |-> all, funnels |-> <<funnel(<<Str(task.t), Str(task.t)>>)>>]]
    IN  [chart \in DOMAIN charts |-> ChartRows(charts[chart], task.subject.columns, dataset)]
        @@ [subject |-> Dataset([task.subject EXCEPT !.filters = test(column.parameter)], Db, task.space),
            consume |-> ConsumeRows([k |-> "test", name |-> column.alias, type |-> column.parameter.type,
                                     op |-> task.op, value |-> task.value], dataset),
            query   |-> SubjectRows("and", <<[name |-> column.alias, op |-> task.op, t |-> task.t]>>,
                                    task.subject, task.space, scopes)]

QueryColumn ==
    Answer("column",
        ColumnQueries(task.subject.columns[ColumnIn(task.subject.columns, task.columnId)],
                      Dataset(task.subject, Db, task.space), Scopes(task.subject, Db, task.space)))

Next ==
    \/ Compare \/ EvaluateCondition \/ EvaluateParameter \/ ReadFactor
    \/ EvaluateFilter \/ LoadDataset \/ QueryColumn

Spec == Init /\ [][Next]_vars

-----------------------------------------------------------------------------
(***************************************************************************)
(* Properties                                                              *)
(***************************************************************************)
\* Everything at the end of a path, in the order of the data.
RECURSIVE Leaves(_, _)
Leaves(v, path) ==
    IF v = None THEN <<>>
    ELSE IF v.k = "list" THEN FlattenSeq([i \in DOMAIN v.s |-> Leaves(v.s[i], path)])
    ELSE IF path = <<>> THEN <<v>>
    ELSE Leaves(Get(v, Head(path)), Tail(path))

\* A factor read along a path through nested lists is all that the path leads to, in
\* order and without the gaps; one leaf stands for itself, none for null.  (A path
\* through a value that has nothing below it raises.)
PathFindsAllLeaves ==
    Answered("path") /\ answer # Raised =>
        answer = Unwrap([k |-> "list", s |-> Leaves(task.data, task.path)])

RowsOf(v) == CASE v.k = "list" -> v.s [] v.k = "dict" -> <<v>> [] OTHER -> <<>>

\* A factor of rows kept in a variable is read as the same factor of trigger data is,
\* though by other code, if no row has an empty value or a zero there.
RowsAreReadAlike ==
    Answered("path") /\ Len(task.path) = 2 /\ Flattens(task.data)
      /\ (\A i \in DOMAIN RowsOf(Get(task.data, task.path[1])) :
             LET row == RowsOf(Get(task.data, task.path[1]))[i]
                 v == Get(row, task.path[2])
             IN  task.path[2] \in DOMAIN row.m => v.k \in Scalars /\ Truthy(v)) =>
        DotPattern(task.path, task.data.m) = answer

\* Numbers in their plain form, and no value missing or empty.
Plain(row) ==
    \A name \in DOMAIN row.m :
        LET v == row.m[name]
        IN  v.k \in Scalars /\ ~IsEmpty(v) /\ (v.k = "num" => v.f = "plain")

RECURSIVE WithoutEmptyJoints(_)
WithoutEmptyJoints(joint) ==
    joint.k = "joint" =>
        joint.filters # <<>> /\ \A i \in DOMAIN joint.filters : WithoutEmptyJoints(joint.filters[i])

\* A constant that a condition of a pipeline compares as a text is written as the value
\* it is compared with prints: not 3.0 or 03 for a number, not 20200101 for a day.  In a
\* list for a number there are digits only, for a report skips other parts.
WrittenAsPrinted(op, p, type) ==
    p.kind = "constant" /\ type \in {"number", "date"} =>
        \A i \in DOMAIN p.parts : LET t == p.parts[i].t IN
            /\ op \in {"equals", "not-equals"} =>
                   IF type = "date" THEN ~IsNumber(t) ELSE IsNumber(t) => t[3] = "plain"
            /\ op \in Lists =>
                   \A j \in DOMAIN Parts(t) : IsDigit(Parts(t)[j]) /\ Parts(t)[j][3] = "plain"

\* A report loses a constant that is the first of three operands or more.
KeepsItsOperands(p) ==
    p.kind = "computed" /\ Len(p.parameters) > 2 => p.parameters[1].kind # "constant"

\* What a parameter is compared as; a computed one is taken to be a number.
TypeOfParameter(p) ==
    CASE p.kind = "topic" -> p.type
      [] p.kind = "constant" -> "text"
      [] p.kind \in {"computed", "case-then"} -> "number"

RECURSIVE WrittenForBoth(_)
WrittenForBoth(joint) ==
    IF joint.k = "joint" THEN \A i \in DOMAIN joint.filters : WrittenForBoth(joint.filters[i])
    ELSE /\ WrittenAsPrinted(joint.op, joint.left, TypeOfParameter(joint.right))
         /\ WrittenAsPrinted(joint.op, joint.right, TypeOfParameter(joint.left))
         /\ KeepsItsOperands(joint.left) /\ KeepsItsOperands(joint.right)

\* A filter is drawn in the editor in which conditions of pipelines are drawn, and is
\* evaluated by other code: where both answer for a row without gaps they agree.  Left
\* out are an "or" of nothing, which is met by every row of a report and by none in a
\* pipeline, and what WrittenForBoth names: there the two do disagree.
ReportMeansCondition ==
    Answered("filter") /\ Plain(task.row)
      /\ WithoutEmptyJoints(task.joint) /\ WrittenForBoth(task.joint) =>
        LET inMemory == ParseJoint(task.joint, task.row, <<>>)
        IN  Raises \notin {answer, inMemory} => answer = inMemory

\* What a subject is to show: the combinations of rows for which the conditions of the
\* space and its own hold, in memory.
AllowedRows(topic) ==
    {row \in Range(Db[topic]) :
        topic \in DOMAIN task.space => ParseJoint(task.space[topic], row, <<>>) = "true"}
Id(row) == Get(row, "id")
Meets(join, l, r) ==
    Get(l, join.factor) # None /\ SameValue(Get(l, join.factor), Get(r, join.secondaryFactor))
AllowedPairs(join) ==
    LET left == AllowedRows(join.topic)
        right == AllowedRows(join.secondary)
        holds(l, r) == ParseJoint(task.subject.filters, [k |-> "dict", m |-> l.m @@ r.m], <<>>) = "true"
        none == Nulls(Db, join.topic)
        lonely(l) == join.type = "left" /\ ~\E r \in right : Meets(join, l, r)
        alone(r) == join.type = "right" /\ ~\E l \in left : Meets(join, l, r)
    IN  {<<Id(p[1]), Id(p[2])>> : p \in {q \in left \X right : Meets(join, q[1], q[2]) /\ holds(q[1], q[2])}}
        \cup {<<Id(l), None>> : l \in {l \in left : lonely(l) /\ holds(l, none)}}
        \cup {<<None, Id(r)>> : r \in {r \in right : alone(r) /\ holds(none, r)}}

\* A page of a subject shows combinations of rows that its filters and those of the
\* space allow, none of them twice, and as many as the page has room for: all of them
\* where it has room for all.  The count is of them, too.  (From one page to the next the
\* order may change, so that a client may miss some and see others again.)
DatasetIsWhatTheSpaceAllows ==
    Answered("dataset") /\ answer.page # Refused /\ Len(task.subject.joins) = 1 =>
        LET shown == [i \in DOMAIN answer.page |-> <<answer.page[i]["left"].v, answer.page[i]["right"].v>>]
            allowed == AllowedPairs(task.subject.joins[1])
            before == task.size * (task.number - 1)
        IN  /\ IsInjective(shown) /\ Range(shown) \subseteq allowed
            /\ answer.count = Cardinality(allowed)
            /\ Len(shown) = Max({0, Min({task.size, answer.count - before})})

\* A subject, a chart's filter, a chart's funnel, a consumer and /subject/query build the
\* same test of one column in five places: those that answer return the same rows.  Left
\* out are not-in of /subject/query, which returns what "in" should, and lists for a
\* number with parts that are not all digits, which only a consumer looks for.
QueriesAgree ==
    Answered("column") =>
        LET asked == {"subject", "report", "consume"}
                     \cup (IF task.op = "equals" THEN {"point", "range"} ELSE {})
                     \cup (IF task.op = "not-in" THEN {} ELSE {"query"})
        IN  Cardinality({answer[builder] : builder \in asked} \ {Refused}) <= 1

\* "Multiple variables in one constant is allowed" (doc/guide/doll-guide.md:131), and
\* their values and the texts between them are joined.
ConstantsSubstituteEveryVariable ==
    Answered("parameter") /\ task.parameter.kind = "constant" /\ Len(task.parameter.parts) > 1 =>
        LET values == [i \in DOMAIN task.parameter.parts |->
                          PartValue(task.parameter.parts[i], Instance, Variables)]
        IN  answer = Str(<<"joined", [i \in DOMAIN values |->
                                         IF values[i] = None THEN <<"">> ELSE TextOf(values[i])]>>)

=============================================================================
