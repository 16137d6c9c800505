------------------------------ MODULE Criteria ------------------------------
(***************************************************************************)
(* The "by" of an action: which rows of the target topic it is about.      *)
(* pipeline/core/by/parse_on_parameter.py turns a condition and the        *)
(* trigger data into a where dict, and each of the three topic storages    *)
(* turns the dict into a query of its store.  The tests the condition is   *)
(* joined from are those of ColumnTests.                                   *)
(*                                                                         *)
(* A where is one of ColumnTests or [is |-> "joint", type, parts].         *)
(***************************************************************************)
EXTENDS ColumnTests, Parameters

\* The parts of a text between its commas are numbers where they consist of digits.
Listed(t) ==
    [k |-> "list",
     s |-> [i \in DOMAIN t[2] |-> IF IsDigit(t[2][i]) THEN Num(t[2][i][2]) ELSE Str(t[2][i])]]

\* A constant that begins with a variable is that variable's name as a whole, any other
\* is a text, whatever variables stand further on.
ByConstant(parts, variables) ==
    LET p == parts[1]
        text(t) == IF Len(parts) > 1 THEN Str(<<"braces", parts>>)
                   ELSE IF t[1] = "commas" THEN Listed(t)
                   ELSE IF t = <<"">> THEN None ELSE Str(t)
    IN  IF parts = <<>> THEN None
        ELSE IF p.is = "text" THEN text(p.t)
        ELSE IF Len(parts) = 1 /\ p.is \in {"func", "dot", "name"} THEN PartValue(p, None, variables)
        ELSE None

\* Every operand is applied to the result of those before it, as it is: no text is made
\* a number first, and of None there is no sum.
Fold(type, values) ==
    IF values = <<>> THEN Raised
    ELSE FoldLeft(LAMBDA result, v : Apply(type, result, v), values[1], Tail(values))

RECURSIVE ByParameter(_, _, _)
ByParameter(p, data, variables) ==
    CASE p.kind = "topic"    -> ByFactor(p, data)
      [] p.kind = "constant" -> Right(ByConstant(p.parts, variables))
      [] p.kind = "computed" ->
            LET operands == [i \in DOMAIN p.parameters |->
                                ByParameter(p.parameters[i], data, variables)]
                values == [i \in DOMAIN operands |-> operands[i].v]
            IN  IF \E i \in DOMAIN operands : operands[i].k # "right" THEN Raised
                ELSE Right(IF p.type \in Arithmetics THEN Fold(p.type, values)
                           ELSE DatePart(p.type, values[1]))
      [] OTHER -> Raised   \* a case-then ends as the name of a column, a dict

RECURSIVE ByJoint(_, _, _)
ByJoint(joint, data, variables) ==
    IF joint.k = "joint"
    THEN LET parts == [i \in DOMAIN joint.filters |-> ByJoint(joint.filters[i], data, variables)]
         IN  IF Raised \in Range(parts) THEN Raised
             ELSE [k |-> "where", is |-> "joint", type |-> joint.type, parts |-> parts]
    ELSE ByFilter(joint.op, ByParameter(joint.left, data, variables),
                            ByParameter(joint.right, data, variables))

-----------------------------------------------------------------------------
\* Does the store return the row for the where, or refuse the query?
RECURSIVE Matches(_, _, _)
Matches(dialect, where, row) ==
    IF where # Raised /\ where.is = "joint"
    THEN Join(where.type, {Matches(dialect, where.parts[i], row) : i \in DOMAIN where.parts})
    ELSE MeetsTest(dialect, where, row)

=============================================================================
