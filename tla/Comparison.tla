----------------------------- MODULE Comparison -----------------------------
(***************************************************************************)
(* The comparisons of pipeline conditions                                  *)
(* (pipeline/core/parameter/operator), as operators on values.             *)
(*                                                                         *)
(* A value is a record with its kind: [k |-> "none"], [k |-> "str", t |->  *)
(* text], [k |-> "num", n |-> int, f |-> form] for an int or a Decimal,    *)
(* [k |-> "float", x |-> int], [k |-> "date", d |-> day] for a date or a   *)
(* datetime, whose time of day no comparison looks at, [k |-> "dict", m    *)
(* |-> ...] and [k |-> "list", s |-> sequence of values].                  *)
(*                                                                         *)
(* A text is <<"">>, <<"word", w>>, <<"day", d>> for YYYY-MM-DD, <<"commas",*)
(* sequence of texts>>, or <<"number", n, form>>: "plain" for 5, "point"   *)
(* for 5.0, "zero" for 05.  A day is the integer that is written YYYYMMDD. *)
(***************************************************************************)
EXTENDS Integers, Sequences

CONSTANT Days   \* the integers that are the YYYYMMDD of a day

None == [k |-> "none"]
Str(t) == [k |-> "str", t |-> t]
Num(n) == [k |-> "num", n |-> n, f |-> "plain"]
Scalars == {"str", "num", "date"}

\* What the evaluation of a parameter comes to that raises.
Raised == [k |-> "raises"]

\* The texts and values of the header.
IsText(t) ==
    \/ t = <<"">>
    \/ t[1] \in {"word", "commas"} /\ t = <<t[1], t[2]>>
    \/ t[1] = "day" /\ t = <<t[1], t[2]>> /\ t[2] \in Int
    \/ t[1] = "number" /\ t = <<t[1], t[2], t[3]>> /\ t[2] \in Int /\ t[3] \in {"plain", "point", "zero"}

IsValue(v) ==
    \/ v = None
    \/ v.k = "str" /\ v = Str(v.t) /\ IsText(v.t)
    \/ v.k = "num" /\ v = [k |-> "num", n |-> v.n, f |-> v.f] /\ v.n \in Int /\ v.f \in {"plain", "point", "zero"}
    \/ v.k = "float" /\ v = [k |-> "float", x |-> v.x] /\ v.x \in Int
    \/ v.k = "date" /\ v = [k |-> "date", d |-> v.d] /\ v.d \in Int
    \/ v.k = "dict" /\ v = [k |-> "dict", m |-> v.m]
    \/ v.k = "list" /\ v = [k |-> "list", s |-> v.s]

\* What a comparison answers, for it may also raise.
Truth(b) == IF b THEN "true" ELSE "false"
Raises == "raises"

\* str(value), and arrow's YYYY-MM-DD of a date.
TextOf(v) ==
    CASE v.k = "str"  -> v.t
      [] v.k = "num"  -> <<"number", v.n, v.f>>
      [] v.k = "date" -> <<"day", v.d>>
      [] OTHER        -> <<"repr", v>>

IsEmpty(v) == v = None \/ v = Str(<<"">>)

-----------------------------------------------------------------------------
\* Mutant of Equals: numbers are compared by value.
EqualsByValue(l, r) ==
    IF None \in {l, r} THEN Truth(IsEmpty(l) /\ IsEmpty(r))
    ELSE IF "float" \in {l.k, r.k} THEN Truth(l = r)
    ELSE IF {l.k, r.k} = {"num", "date"} THEN Raises
    ELSE IF l.k = "num" /\ r.k = "num" THEN Truth(l.n = r.n)
    ELSE IF {l.k, r.k} \subseteq Scalars THEN Truth(TextOf(l) = TextOf(r))
    ELSE IF l.k = r.k THEN Truth(l = r)
    ELSE Raises

FloatIs(l, r) ==
    \/ l = r
    \/ l.k = "float" /\ r.k = "num" /\ l.x = r.n
    \/ l.k = "num" /\ r.k = "float" /\ l.n = r.x

\* Scalars are compared as texts, containers of a kind as such; a float is compared
\* by Python's own rules with whatever it meets.
Equals(l, r) ==
    IF None \in {l, r} THEN Truth(IsEmpty(l) /\ IsEmpty(r))
    ELSE IF "float" \in {l.k, r.k} THEN Truth(FloatIs(l, r))
    ELSE IF {l.k, r.k} = {"num", "date"} THEN Raises
    ELSE IF {l.k, r.k} \subseteq Scalars THEN Truth(TextOf(l) = TextOf(r))
    ELSE IF l.k = r.k THEN Truth(l = r)
    ELSE Raises

\* Mutant of NotEquals: that null equals empty is forgotten.
NotEqualsOfNone(l, r) ==
    IF None \in {l, r} THEN Truth(l # r)
    ELSE IF "float" \in {l.k, r.k} THEN Truth(~FloatIs(l, r))
    ELSE IF {l.k, r.k} = {"num", "date"} THEN Raises
    ELSE IF {l.k, r.k} \subseteq Scalars THEN Truth(TextOf(l) # TextOf(r))
    ELSE IF l.k = r.k THEN Truth(l # r)
    ELSE Raises

\* Written out once more in not_equals.py, with every answer turned round.
NotEquals(l, r) ==
    IF None \in {l, r} THEN Truth(~(IsEmpty(l) /\ IsEmpty(r)))
    ELSE IF "float" \in {l.k, r.k} THEN Truth(~FloatIs(l, r))
    ELSE IF {l.k, r.k} = {"num", "date"} THEN Raises
    ELSE IF {l.k, r.k} \subseteq Scalars THEN Truth(TextOf(l) # TextOf(r))
    ELSE IF l.k = r.k THEN Truth(l # r)
    ELSE Raises

-----------------------------------------------------------------------------
IsNumber(t) == t[1] = "number"
IsDigit(t)  == IsNumber(t) /\ t[2] >= 0 /\ t[3] # "point"

\* arrow.get of a text, and of a number by its text.
ReadsAsDay(v) ==
    \/ v.k = "date"
    \/ v.k \in {"str", "num"} /\ LET t == TextOf(v) IN
           \/ t[1] = "day"
           \/ IsNumber(t) /\ t[2] \in Days /\ t[3] = "plain"
DayOf(v) == IF v.k = "date" THEN v.d ELSE TextOf(v)[2]

\* Can l and r be compared as numbers?  The text on the left of a number may be any
\* number, the text on its right must consist of digits, as two texts must.
ReadAsNumbers(l, r) ==
    CASE l.k = "str" /\ r.k = "str" -> IsDigit(l.t) /\ IsDigit(r.t)
      [] l.k = "str" /\ r.k = "num" -> IsNumber(l.t)
      [] l.k = "num" /\ r.k = "str" -> IsDigit(r.t)
      [] OTHER -> {l.k, r.k} \subseteq {"num", "float"}
ReadAsDays(l, r) ==
    "date" \in {l.k, r.k} /\ ReadsAsDay(l) /\ ReadsAsDay(r)

NumberOf(v) == CASE v.k = "str" -> v.t[2] [] v.k = "num" -> v.n [] v.k = "float" -> v.x

\* The one shape of less.py, less_equals.py, more.py and more_equals.py.
Ordered(l, r, Op(_, _)) ==
    IF None \in {l, r} THEN "false"
    ELSE IF ReadAsNumbers(l, r) THEN Truth(Op(NumberOf(l), NumberOf(r)))
    ELSE IF ReadAsDays(l, r) THEN Truth(Op(DayOf(l), DayOf(r)))
    ELSE Raises

Less(l, r)       == Ordered(l, r, LAMBDA a, b : a < b)
\* Mutant of LessEquals: the bound is left out.
LessEqualsStrict(l, r) == Ordered(l, r, LAMBDA a, b : a < b)
LessEquals(l, r) == Ordered(l, r, LAMBDA a, b : a <= b)
More(l, r)       == Ordered(l, r, LAMBDA a, b : a > b)
MoreEquals(l, r) == Ordered(l, r, LAMBDA a, b : a >= b)

-----------------------------------------------------------------------------
\* The texts an option list stands for: the parts between the commas of a text, or
\* str of every element of a list.
Options(r) ==
    CASE r.k = "list"                        -> {TextOf(r.s[i]) : i \in DOMAIN r.s}
      [] r.k = "str" /\ r.t[1] = "commas"    -> {r.t[2][i] : i \in DOMAIN r.t[2]}
      [] r.k = "str" /\ r.t[1] # "commas"    -> {r.t}
      [] OTHER                               -> {}

\* A left side that is not a text or a number is in nothing.
In(l, r) ==
    Truth(l # None /\ ~IsEmpty(r) /\ l.k \in {"str", "num"} /\ TextOf(l) \in Options(r))

NotIn(l, r) ==
    IF l = None \/ IsEmpty(r) THEN "true"
    ELSE Truth(~(l.k \in {"str", "num"} /\ TextOf(l) \in Options(r)))

-----------------------------------------------------------------------------
\* One comparison, by its operator.
Filter(op, l, r) ==
    IF Raised \in {l, r} THEN Raises ELSE
    CASE op = "equals"       -> Equals(l, r)
      [] op = "not-equals"   -> NotEquals(l, r)
      [] op = "empty"        -> Truth(IsEmpty(l))
      [] op = "not-empty"    -> Truth(~IsEmpty(l))
      [] op = "less"         -> Less(l, r)
      [] op = "less-equals"  -> LessEquals(l, r)
      [] op = "more"         -> More(l, r)
      [] op = "more-equals"  -> MoreEquals(l, r)
      [] op = "in"           -> In(l, r)
      [] op = "not-in"       -> NotIn(l, r)

=============================================================================
