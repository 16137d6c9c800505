----------------------------- MODULE MCRawSchema -----------------------------
(* Samples of up to two records and rows up to four levels deep. *)
EXTENDS RawSchema

MCNames == {"a", "b", "ba", "a_b", "root"}
MCUnderscores == [n \in MCNames |-> IF n = "a_b" THEN 1 ELSE 0]
MCWithin == {<<n, n>> : n \in MCNames} \cup {<<"a", "ba">>, <<"b", "ba">>, <<"a", "a_b">>, <<"b", "a_b">>}
MCAtEnd == MCWithin \ {<<"b", "ba">>, <<"a", "a_b">>}

Num == Scalar("number")
Null == Scalar("any")
One(n, v) == Object(n :> v)
Two(n, v, m, w) == Object((n :> v) @@ (m :> w))

\* What a key holds.
Flat == {Num, Scalar("boolean"), Scalar("text"), Null, List(<<>>), List(<<Num>>)}
Pairs == {One("b", Num), List(<<One("b", Num), Two("b", Null, "a", Num)>>), List(<<One("b", Null), Num>>),
          List(<<List(<<One("b", Num)>>)>>)}

\* Nested objects whose names meet, at three and four levels.
Deep ==
  {One("a", One(m, One(n, One("ba", Num)))) : m, n \in MCNames \ {"root"}}
    \cup {One("a", List(<<One("b", One(n, One("b", Num))), One("b", List(<<One(n, One("b", Num))>>))>>)) : n \in MCNames \ {"root"}}

\* The key the code queues the records under.
Rooted == {One("root", v) : v \in {Num, One("a", Num), List(<<One("b", One("a", Null))>>)}}

Records ==
  {One("a", v) : v \in Flat \cup Pairs} \cup {Two("a", v, "ba", Null) : v \in Pairs}
    \cup {One("ba", Two("a", Num, "b", One("a_b", v))) : v \in {Num, Null}}

MCSamples ==
  {<<>>, <<Num>>} \cup {<<r>> : r \in Rooted} \cup {<<One("a", Null), r>> : r \in Rooted} \cup {<<r>> : r \in Deep} \cup {<<r1, r2>> : r1, r2 \in Records}
    \cup {<<r1, r2>> : r1 \in Deep, r2 \in {One("a", Null), One("b", One("b", One("b", Num)))}}

MCRows ==
  Deep \cup {Two("root", One("a", One("b", One("b", Num))), "a", One("b", One("b", One("ba", Num))))}
    \cup {One("a", List(<<List(<<r>>), One("b", One("b", Num))>>)) : r \in Pairs}
==============================================================================
