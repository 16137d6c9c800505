----------------------------- MODULE Parameters -----------------------------
(***************************************************************************)
(* The parameters and conditions of pipelines                              *)
(* (pipeline/core/parameter/parse_parameter.py): a constant with variables *)
(* in it, arithmetic, case-then, and joints of comparisons.                *)
(*                                                                         *)
(* Values and paths are those of Factors.  A constant is a sequence of     *)
(* parts, a text or a variable.  Divisions are exact, and arithmetic is    *)
(* that of numbers and texts: dates, lists and floats, a text times a      *)
(* number, and the weeks of a date and the days of a week are left out.    *)
(***************************************************************************)
EXTENDS Factors

Absent == [k |-> "absent"]
Key    == Str(<<"word", "surrogate key">>)

Truthy(v) == ~IsEmpty(v) /\ (v.k = "num" => v.n # 0) /\ (v.k = "list" => v.s # <<>>)

-----------------------------------------------------------------------------
(***************************************************************************)
(* Flattened rows                                                          *)
(***************************************************************************)
\* Mutant of MergeFlat: a second value takes the place of the first.
MergeFlatLast(old, new) ==
    IF new = Absent THEN old
    ELSE IF old = Absent \/ ~Truthy(old) THEN new
    ELSE IF old.k = "list" THEN [old EXCEPT !.s = @ \o (IF new.k = "list" THEN new.s ELSE <<new>>)]
    ELSE new

\* One more value under a key of a flattened dict.
MergeFlat(old, new) ==
    IF new = Absent THEN old
    ELSE IF old = Absent \/ ~Truthy(old) THEN new
    ELSE IF old.k = "list" THEN [old EXCEPT !.s = @ \o (IF new.k = "list" THEN new.s ELSE <<new>>)]
    ELSE [k |-> "list", s |-> <<old, new>>]

RECURSIVE Flattens(_)
Flattens(v) ==
    CASE v.k = "dict" -> \A name \in DOMAIN v.m : Flattens(v.m[name])
      [] v.k = "list" -> \A i \in DOMAIN v.s : v.s[i].k = "dict" /\ Flattens(v.s[i])
      [] OTHER -> TRUE

\* What flatten leaves under the key that path spells, in the dict v or its rows.
RECURSIVE FlattenedAt(_, _)
FlattenedAt(v, path) ==
    LET below == IF Head(path) \in DOMAIN v.m THEN v.m[Head(path)] ELSE Absent
        rows == IF below.k = "dict" THEN <<below>> ELSE IF below.k = "list" THEN below.s ELSE <<>>
    IN  IF below.k \notin {"dict", "list"}
        THEN IF Len(path) = 1 THEN below ELSE Absent
        ELSE IF Len(path) = 1 THEN Absent
        ELSE FoldLeft(LAMBDA out, row : MergeFlat(out, FlattenedAt(row, Tail(path))), Absent, rows)

DotPattern(path, variables) ==
    LET value == IF Head(path) \in DOMAIN variables
                 THEN FlattenedAt([k |-> "dict", m |-> variables], path) ELSE Absent
    IN  IF Head(path) \in DOMAIN variables /\ ~Flattens(variables[Head(path)]) THEN Raised
        ELSE IF value = Absent THEN None
        ELSE value

-----------------------------------------------------------------------------
(***************************************************************************)
(* Constants and arithmetic                                                *)
(***************************************************************************)
\* The value of one part of a constant.
PartValue(part, instance, variables) ==
    CASE part.is = "text" -> Str(part.t)
      [] part.is = "key"  -> Key
      [] part.is = "&"    -> Get(instance, part.name)
      [] part.is = "func" -> FuncPattern(part.name, part.func, variables)
      [] part.is = "dot"  -> DotPattern(part.path, variables)
      [] part.is = "name" -> IF part.name \in DOMAIN variables THEN variables[part.name] ELSE None

\* The value of the first variable is returned from within the loop over the parts.
ConstantValue(parts, instance, variables) ==
    LET first == SelectInSeq(parts, LAMBDA part : part.is # "text")
    IN  CASE parts = <<>> -> Str(<<"">>)
          [] first # 0    -> PartValue(parts[first], instance, variables)
          [] OTHER        -> Str(parts[1].t)

\* One text after the other: 1 and 12 are 112.
Concatenated(s, t) ==
    LET shift == Min({k \in {10, 100, 1000, 10000, 100000} : t[2] < k})
    IN  IF IsDigit(s) /\ IsDigit(t) /\ "zero" \notin {s[3], t[3]}
        THEN <<"number", s[2] * shift + t[2], "plain">> ELSE <<"joined", <<s, t>>>>

Calculated(type, a, b) ==
    CASE type = "add"      -> Num(a + b)
      [] type = "subtract" -> Num(a - b)
      [] type = "multiply" -> Num(a * b)
      [] type = "divide"   -> IF b = 0 THEN Raised ELSE Num(a \div b)
      [] type = "modulus"  -> IF b = 0 THEN Raised ELSE Num(a % b)

\* Python's operator for two values: of texts there are only sums.
Apply(type, v, w) ==
    CASE v.k = "num" /\ w.k = "num" -> Calculated(type, v.n, w.n)
      [] v.k = "str" /\ w.k = "str" /\ type = "add" -> Str(Concatenated(v.t, w.t))
      [] OTHER -> Raised

\* An operand: null is zero, a text of digits the number.
Number(v) ==
    CASE v = None -> Num(0)
      [] v.k = "str" /\ IsNumber(v.t) /\ v.t[3] # "point" -> Num(v.t[2])
      [] OTHER -> v

\* Every operand after the first is applied to the first; the last result counts.
Arithmetics == {"add", "subtract", "multiply", "divide", "modulus"}
Computed(type, values) ==
    IF Raised \in Range(values) THEN Raised
    ELSE IF \E i \in 2..Len(values) : Apply(type, Number(values[1]), Number(values[i])) = Raised
    THEN Raised
    ELSE IF Len(values) < 2 THEN None
    ELSE Apply(type, Number(values[1]), Number(Last(values)))

Month(d) == (d \div 100) % 100

\* The part of a day that parsing_and_formatting of watchmen_boot stands for, taken to
\* be a number.
PartOfDay(type, d) ==
    CASE type = "year-of"      -> d \div 10000
      [] type = "half-year-of" -> (Month(d) - 1) \div 6 + 1
      [] type = "quarter-of"   -> (Month(d) - 1) \div 3 + 1
      [] type = "month-of"     -> Month(d)
      [] type = "day-of-month" -> d % 100

\* Of no day there is no part.
DatePart(type, v) ==
    LET day == IF IsEmpty(v) THEN Raised ELSE Convert("date", v)
    IN  IF day = Raised THEN Raised ELSE Num(PartOfDay(type, day.d))

\* Only the year and the month look whether there is a day.
ComputedPart(type, v) ==
    IF v = None /\ type \in {"year-of", "month-of"} THEN None ELSE DatePart(type, v)

-----------------------------------------------------------------------------
(***************************************************************************)
(* Parameters and joints                                                   *)
(***************************************************************************)
\* All filters of a joint have been evaluated, so that any of them may raise.
Join(type, results) ==
    IF Raises \in results THEN Raises ELSE
    CASE type = "and" -> Truth("false" \notin results)
      [] type = "or"  -> Truth("true" \in results)

RECURSIVE ParseParameter(_, _, _), ParseJoint(_, _, _), CaseThen(_, _, _, _)

ParseParameter(p, instance, variables) ==
    CASE p.kind = "topic"     -> FactorValue(p, instance)
      [] p.kind = "null"      -> None
      [] p.kind = "constant"  -> ConstantValue(p.parts, instance, variables)
      [] p.kind = "case-then" -> CaseThen(p.cases, None, instance, variables)
      [] p.kind = "computed"  ->
            LET values == [i \in DOMAIN p.parameters |->
                              ParseParameter(p.parameters[i], instance, variables)]
            IN  IF p.type \in Arithmetics THEN Computed(p.type, values)
                ELSE ComputedPart(p.type, values[1])

\* The first case whose condition holds, or the last default met before.
CaseThen(cases, default, instance, variables) ==
    IF cases = <<>> THEN default
    ELSE LET c == Head(cases)
             value == ParseParameter(c.value, instance, variables)
             rest(d) == CaseThen(Tail(cases), d, instance, variables)
             holds == IF c.on = None THEN "false" ELSE ParseJoint(c.on, instance, variables)
         IN  CASE c.on = None      -> IF value = Raised THEN Raised ELSE rest(value)
               [] holds = Raises   -> Raised
               [] holds = "true"   -> value
               [] OTHER            -> rest(default)

ParseJoint(joint, instance, variables) ==
    IF joint.k = "joint"
    THEN Join(joint.type, {ParseJoint(joint.filters[i], instance, variables) :
                              i \in DOMAIN joint.filters})
    ELSE Filter(joint.op, ParseParameter(joint.left, instance, variables),
                          ParseParameter(joint.right, instance, variables))

=============================================================================
