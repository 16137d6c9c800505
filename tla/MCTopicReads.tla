---------------------------- MODULE MCTopicReads ----------------------------
(* TopicReads for TLC: two source rows of two keys, one of them missing,   *)
(* three mappings and conditions of every operator on either side.          *)
EXTENDS TopicReads

Dict(m) == [k |-> "dict", m |-> m]
Text(n, f) == Str(<<"number", n, f>>)

MCDatas ==
    {Dict([k |-> Num(1), a |-> Num(1)]), Dict([k |-> Num(1), a |-> None]),
     Dict([k |-> Text(1, "point"), a |-> Text(3, "plain")]), Dict([k |-> Str(<<"">>), a |-> Num(2)]),
     Dict([k |-> Num(1), a |-> Str(<<"word", "x">>)])}

A == [kind |-> "topic", of |-> "source", path |-> <<"a">>, type |-> "number"]
MCSourceFactors == {SourceKey, A}

Map(col, arithmetic) ==
    [col |-> col, arithmetic |-> arithmetic, source |-> IF col = "key" THEN SourceKey ELSE A]

MCMappings ==
    {<<Map("key", "none"), Map("total", "sum"), Map("times", "count")>>,
     <<Map("key", "none"), Map("other", "avg"), Map("times", "count"), Map("total", "sum")>>,
     <<Map("total", "sum"), Map("other", "sum"), Map("key", "none")>>}

MCDefaultSets == {<<>>, [total |-> Num(0), times |-> Num(0)], [key |-> Num(1)]}

-----------------------------------------------------------------------------
Target(col) == [kind |-> "topic", of |-> "target", path |-> <<col>>, type |-> "number"]
Constant(parts) == [kind |-> "constant", parts |-> parts]
Lit(t) == Constant(<<[is |-> "text", t |-> t]>>)
One == Lit(<<"number", 1, "plain">>)
Three == Lit(<<"number", 3, "plain">>)
Some == Lit(<<"commas", <<<<"number", 1, "plain">>, <<"number", 3, "plain">>>>>>)
V == Constant(<<[is |-> "name", name |-> "v"]>>)
Compute(type, parameters) == [kind |-> "computed", type |-> type, parameters |-> parameters]

Cond(l, op, r) == [k |-> "filter", left |-> l, op |-> op, right |-> r]
Joint(type, filters) == [k |-> "joint", type |-> type, filters |-> filters]

Ops == {"equals", "not-equals", "less", "less-equals", "more", "more-equals"}
Tests ==
    {Cond(Target("total"), op, A) : op \in Ops}
    \cup {Cond(Target("key"), op, V) : op \in {"equals", "in"}}
    \cup {Cond(Target("total"), op, Some) : op \in {"in", "not-in"}}
    \cup {Cond(Three, op, Target("total")) : op \in {"equals", "more"}}
    \cup {Cond(Target("total"), op, Compute("add", parameters)) :
             op \in {"equals", "less"},
             parameters \in {<<A, A>>, <<A, One>>, <<One, One>>, <<A, A, A>>, <<A>>, <<>>}}
    \cup {Cond(Target("total"), "less", Compute("year-of", <<A>>)),
          Cond(Target("total"), "more", Compute("subtract", <<A, A>>)),
          Cond(Target("key"), "empty", One),
          Cond(Target("key"), "in", One), Cond(Target("key"), "not-empty", One)}

MCOns ==
    Tests \cup {Joint(t, <<Cond(Target("key"), "equals", One), Cond(Target("total"), op, A)>>) :
                  t \in {"and", "or"}, op \in {"not-equals"}}

MCReads ==
    [kind: {"read-factors", "read-rows", "sum"}, on: {Cond(Target("key"), "equals", One)}]
    \cup [kind: {"read-factor"}, on: {Cond(Target("total"), "more", One)}]

Symmetry == Permutations(Sources)
=============================================================================
