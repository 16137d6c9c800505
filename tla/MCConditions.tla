---------------------------- MODULE MCConditions ----------------------------
(* Conditions for TLC: values of every kind, conditions of two levels over *)
(* them, data nested in dicts and lists, two topics with gaps to query, the  *)
(* filters of five spaces, and subjects that join the topics or do not.      *)
EXTENDS Conditions

D == 20200101
List(s) == [k |-> "list", s |-> s]
Dict(m) == [k |-> "dict", m |-> m]
Word(w) == Str(<<"word", w>>)
Text(n, f) == Str(<<"number", n, f>>)

MCDays == {D}

Values ==
    {None, Str(<<"">>), Word("a"), Word("None"), Text(1, "plain"), Text(2, "plain"),
     Text(1, "point"), Text(1, "zero"), Text(-1, "plain"), Text(D, "plain"), Str(<<"day", D>>),
     Str(<<"commas", <<<<"number", 1, "plain">>, <<"word", "a">>>>>>),
     Num(1), Num(2), Num(-1), Num(D), [k |-> "num", n |-> 1, f |-> "point"],
     [k |-> "float", x |-> 1], [k |-> "date", d |-> D], [k |-> "date", d |-> 20200102],
     Dict([a |-> Num(1)]), List(<<>>), List(<<Num(1), Word("a")>>),
     List(<<Text(2, "plain"), [k |-> "date", d |-> D], None>>), List(<<Num(2), Num(D)>>)}

Comparisons == [ask: {"comparison"}, left: Values, right: Values]

-----------------------------------------------------------------------------
MCInstance ==
    Dict([a |-> Num(1), b |-> Str(<<"">>), c |-> List(<<Dict([d |-> Num(1)]), Dict([d |-> Num(2)])>>)])
MCVariables ==
    [x |-> Num(2), y |-> Word("John"), z |-> Word("Doe"), l |-> List(<<Num(1), Num(2)>>),
     r |-> List(<<Dict([d |-> Num(1)]), Dict([d |-> Num(2)])>>)]

Factor(path, type) == [kind |-> "topic", path |-> path, type |-> type]
Constant(parts) == [kind |-> "constant", parts |-> parts]
Lit(t) == [is |-> "text", t |-> t]
Var(name) == [is |-> "name", name |-> name]
A == Factor(<<"a">>, "number")
B == Factor(<<"b">>, "text")
C == Factor(<<"c", "d">>, "list")
One == Constant(<<Lit(<<"number", 1, "plain">>)>>)
X == Constant(<<Var("x")>>)
Missing == Constant(<<Var("nothing")>>)

Cond(l, op, r) == [k |-> "filter", left |-> l, op |-> op, right |-> r]
Filters ==
    {Cond(A, "equals", One), Cond(A, "less", X), Cond(A, "more-equals", X), Cond(B, "empty", One),
     Cond(A, "in", C), Cond(Missing, "more", One), Cond(Constant(<<Var("y")>>), "less", X),
     Cond(C, "not-equals", A), Cond(X, "not-equals", One), Cond(B, "not-empty", One)}

Joint(type, filters) == [k |-> "joint", type |-> type, filters |-> filters]
Types == {"and", "or"}
Inner == {Joint(t, <<f, g>>) : t \in Types, f, g \in Filters} \cup {Joint(t, <<>>) : t \in Types}
Joints == Inner \cup {Joint(t, <<f, j>>) : t \in Types, f \in Filters, j \in Inner}

-----------------------------------------------------------------------------
CaseOf(c, v) == [on |-> c, value |-> v]
Computation(type, ps) == [kind |-> "computed", type |-> type, parameters |-> ps]
Constants ==
    {<<>>, <<Var("x")>>, <<Lit(<<"word", "a">>)>>, <<Var("y"), Lit(<<"word", "-">>), Var("z")>>,
     <<Lit(<<"word", "no ">>), Var("x")>>, <<Var("nothing")>>, <<[is |-> "key"]>>,
     <<[is |-> "&", name |-> "a"]>>, <<[is |-> "dot", path |-> <<"r", "d">>]>>,
     <<[is |-> "dot", path |-> <<"l", "d">>]>>, <<[is |-> "func", name |-> "x", func |-> "sum"]>>}
    \cup {<<[is |-> "func", name |-> "l", func |-> f]>> : f \in {"sum", "count"}}
Simple == {A, B, C, X, One, Missing, [kind |-> "null"]} \cup {Constant(ps) : ps \in Constants}
Parameters ==
    Simple
    \cup {Computation(t, ps) : t \in {"add", "subtract", "multiply", "divide", "modulus"},
                               ps \in {<<A>>, <<A, X>>, <<X, One>>, <<X, A, Missing>>, <<X, Missing>>}}
    \cup {[kind |-> "case-then", cases |-> <<CaseOf(f, A), CaseOf(None, B), CaseOf(g, X)>>] :
             f, g \in Filters}

-----------------------------------------------------------------------------
Leaf == {None, Num(0), Num(1), Num(2)}
Row == {Dict([d |-> v]) : v \in Leaf} \cup {Dict([e |-> Num(1)])}
Table == {List(<<>>)} \cup {List(<<r>>) : r \in Row} \cup {List(<<r, s>>) : r, s \in Row}
Tree == Table \cup Row \cup {None, List(<<Num(1), Num(2)>>)}
Data == {Dict([c |-> t]) : t \in Tree}
        \cup {Dict([c |-> List(<<Dict([d |-> t]), Dict([d |-> u])>>)]) : t, u \in Table}

Paths == [ask: {"path"}, data: Data, path: {<<"c">>, <<"c", "d">>, <<"c", "d", "d">>}]

-----------------------------------------------------------------------------
PlainText(n) == <<"number", n, "plain">>
Day(d) == [k |-> "date", d |-> d]
P(id, n, w, d, ref) == Dict([id |-> Num(id), n |-> n, w |-> w, d |-> d, ref |-> ref])
Q(key, m) == Dict([key |-> key, m |-> m, id |-> key])
MCDb ==
    [left |-> <<P(1, Num(1), Word("a"), Day(D), Num(7)), P(2, Num(-1), Word("b"), Day(20200102), Num(8)),
                P(3, Num(3), Word("a"), Day(20200102), None), P(4, None, Word("c"), Day(D), Num(7))>>,
     right |-> <<Q(Num(7), Num(1)), Q(Num(8), Num(3)), Q(Num(9), Num(1))>>]

F(topic, name, type) == [kind |-> "topic", of |-> topic, path |-> <<name>>, type |-> type]
N == F("left", "n", "number")
W == F("left", "w", "text")
Date == F("left", "d", "date")
M == F("right", "m", "number")
Txt(t) == Constant(<<Lit(t)>>)
N3 == Txt(PlainText(3))
Both == Txt(<<"commas", <<PlainText(1), PlainText(3)>>>>)
N1Point == Txt(<<"number", 1, "point">>)
Negative == Txt(<<"commas", <<PlainText(-1), PlainText(3)>>>>)
Year == Computation("year-of", <<Date>>)
Case == [kind |-> "case-then", cases |-> <<CaseOf(Cond(N, "more", N3), N), CaseOf(None, M)>>]
Switch == [kind |-> "case-then", cases |-> <<CaseOf(None, N), CaseOf(Cond(W, "equals", Txt(<<"word", "a">>)), Year)>>]

Orderings == {"less", "less-equals", "more", "more-equals"}
Equalities == {"equals", "not-equals"}
ReportFilters ==
    {Cond(N, op, N3) : op \in Orderings \cup Equalities} \cup {Cond(N, op, Both) : op \in {"in", "not-in"}}
    \cup {Cond(W, op, Txt(<<"word", "a">>)) : op \in Equalities \cup {"in", "not-in", "empty", "not-empty"}}
    \cup {Cond(Date, op, Txt(<<"day", D>>)) : op \in Orderings \cup Equalities}
    \cup {Cond(N, op, N1Point) : op \in {"equals", "less", "more-equals"}}
    \cup {Cond(Date, op, Txt(PlainText(D))) : op \in {"equals", "less-equals"}}
    \cup {Cond(N, "in", Negative), Cond(Computation("add", <<N3, N, N>>), "more", N),
          Cond(Computation("add", <<N, N, N3>>), "more", N)}
    \cup {Cond(Computation(part, <<Date>>), "less-equals", Txt(PlainText(1))) :
              part \in {"month-of", "quarter-of", "day-of-month", "half-year-of"}}
    \cup {Cond(Year, "equals", Txt(PlainText(2020)))}
    \cup {Cond(N3, "more", N), Cond(Switch, "less", N3), Cond(Year, "equals", N3), Cond(W, "in", N),
          Cond(N, "equals", Txt(<<"word", "a">>))}
    \cup {Cond(Computation(t, <<N, N3>>), "more", N) : t \in {"add", "subtract", "multiply", "modulus"}}

MCRows == Range(MCDb["left"])
Nothing == Joint("and", <<>>)
Filtering ==
    [ask: {"filter"}, topic: {"left"}, row: MCRows,
     joint: ReportFilters \cup {Joint(t, <<f, g>>) : t \in Types, f, g \in ReportFilters}
            \cup {Joint("or", <<>>), Joint("and", <<Joint("or", <<>>), Cond(N, "more", N3)>>)}]

JoinOf(type) == [topic |-> "left", factor |-> "ref", secondary |-> "right", secondaryFactor |-> "key", type |-> type]
Column(id, alias, p) == [columnId |-> id, alias |-> alias, parameter |-> p]
Columns ==
    <<Column("c1", "left", F("left", "id", "number")), Column("c2", "right", F("right", "id", "number")),
      Column("c3", "n", N), Column("c4", "w", W), Column("c5", "d", Date)>>
Subject(joins, filters) ==
    [joins |-> joins, filters |-> filters,
     columns |-> IF joins = <<>> THEN <<Columns[1], Columns[3], Columns[4], Columns[5]>> ELSE Columns]
Backwards == [JoinOf("inner") EXCEPT !.topic = "right", !.factor = "key", !.secondary = "left", !.secondaryFactor = "ref"]

Spaces ==
    {<<>>, [left |-> Cond(N, "less", N3)], [right |-> Cond(M, "equals", Txt(PlainText(1)))],
     [left |-> Cond(W, "equals", Txt(<<"word", "a">>)), right |-> Cond(M, "more", Txt(PlainText(0)))],
     [right |-> Cond(W, "empty", N3)]}
Loading ==
    [ask: {"dataset"}, space: Spaces, size: {1, 3, 5}, number: {1, 2},
     subject: {Subject(<<JoinOf(type)>>, f) : type \in {"inner", "left", "right", ""},
                                             f \in {Joint("and", <<Cond(N, "not-empty", N3)>>),
                                                    Joint("or", <<Cond(W, "in", Txt(<<"word", "a">>)), Cond(M, "more", Txt(PlainText(1)))>>),
                                                    Joint("and", <<Cond(Case, "less-equals", N3)>>)}}
              \cup {Subject(<<>>, Cond(N, "more", N3)),
                    Subject(<<JoinOf("left"), [Backwards EXCEPT !.topic = "other"]>>, Nothing)}]

Test(id, op, t, v, funnel) == [columnId |-> id, op |-> op, t |-> t, value |-> v, funnel |-> funnel]
ColumnTests ==
    {Test("c3", op, PlainText(1), Num(1), "numeric") : op \in Orderings \cup Equalities}
    \cup {Test("c3", op, Both.parts[1].t, List(<<Num(1), Num(3)>>), "numeric") : op \in {"in", "not-in"}}
    \cup {Test("c4", op, <<"word", "a">>, Word("a"), "numeric") : op \in Equalities}
    \cup {Test("c4", op, <<"word", "a">>, List(<<Word("a")>>), "numeric") : op \in {"in", "not-in"}}
    \cup {Test("c5", op, <<"day", D>>, Day(D), "date") : op \in Orderings \cup Equalities}
Querying ==
    {[ask |-> "column", subject |-> Subject(joins, Nothing), space |-> space] @@ test :
        joins \in {<<>>, <<JoinOf("left")>>}, space \in Spaces, test \in ColumnTests}

MCTasks ==
    Comparisons \cup Paths \cup Filtering \cup Loading \cup Querying
    \cup [ask: {"condition"}, joint: Filters \cup Joints]
    \cup [ask: {"parameter"}, parameter: Parameters]
=============================================================================
