------------------------------ MODULE Factors ------------------------------
(***************************************************************************)
(* Factors of the trigger data: reading one along a path and converting    *)
(* what is read to the type of the factor                                  *)
(* (pipeline/core/parameter/utils.py), and what the arithmetic of          *)
(* parameters and mappings makes of a value.                               *)
(*                                                                         *)
(* Values are those of Comparison, and [k |-> "raises"] for a call that    *)
(* raises.  A path is a sequence of names; trigger data is a dict, the     *)
(* variables are a function from names.                                    *)
(***************************************************************************)
EXTENDS Comparison, SequencesExt

Get(dict, name) == IF name \in DOMAIN dict.m THEN dict.m[name] ELSE None

-----------------------------------------------------------------------------
(***************************************************************************)
(* Paths                                                                   *)
(***************************************************************************)
\* Mutant of Spread: an element that is a list stays one.
SpreadNested(v) == IF v = None THEN <<>> ELSE <<v>>

\* What one element adds to the list of a level.
Spread(v) ==
    CASE v = None     -> <<>>
      [] v.k = "list" -> v.s
      [] OTHER        -> <<v>>

GetFactorValue(data, name) ==
    CASE data \in {None, Raised} -> data
      [] data.k = "dict" -> Get(data, name)
      [] data.k = "list" ->
            IF \E i \in DOMAIN data.s : data.s[i].k # "dict" THEN Raised
            ELSE [k |-> "list",
                  s |-> FlattenSeq([i \in DOMAIN data.s |-> Spread(Get(data.s[i], name))])]
      [] OTHER -> Raised

\* A list of one is that one, a list of none is None.
Unwrap(v) ==
    IF v.k # "list" \/ Len(v.s) > 1 THEN v ELSE IF v.s = <<>> THEN None ELSE v.s[1]

\* Level after level, from the data down.
CalFactorValue(data, path) ==
    LET at[n \in 0..Len(path)] == IF n = 0 THEN data ELSE GetFactorValue(at[n - 1], path[n])
    IN  Unwrap(at[Len(path)])

\* check_and_convert_value_by_factor.  A number is taken for a timestamp by a date
\* factor, which makes it some day in 1970.
Convert(type, v) ==
    IF v = Raised THEN Raised ELSE IF IsEmpty(v) THEN None ELSE
    CASE type = "text"   -> Str(TextOf(v))
      [] type = "number" -> IF v.k = "num" THEN v
                            ELSE IF v.k = "str" /\ IsNumber(v.t)
                            THEN [k |-> "num", n |-> v.t[2],
                                  f |-> IF v.t[3] = "point" THEN "point" ELSE "plain"]
                            ELSE IF v.k = "float" THEN [k |-> "num", n |-> v.x, f |-> "point"]
                            ELSE Raised
      [] type = "date"   -> IF v.k = "float" \/ (v.k = "num" /\ v.f = "plain") THEN [k |-> "date", d |-> 19700101]
                            ELSE IF v.k # "num" /\ ReadsAsDay(v) THEN [k |-> "date", d |-> DayOf(v)]
                            ELSE Raised
      [] OTHER           -> v

\* A factor of the trigger data.
FactorValue(p, data) == Convert(p.type, CalFactorValue(data, p.path))

-----------------------------------------------------------------------------
(***************************************************************************)
(* Arithmetic                                                              *)
(***************************************************************************)
Operand(v) == CASE v = None -> 0 [] v.k = "num" -> v.n [] v.k = "str" -> v.t[2]

SumOf(s) == FoldLeft(LAMBDA sum, v : sum + v.n, 0, s)

\* The aggregates of a variable that holds a list.
FuncPattern(name, func, variables) ==
    IF name \notin DOMAIN variables THEN None
    ELSE IF variables[name].k # "list" THEN Raised
    ELSE IF func = "count" THEN Num(Len(variables[name].s))
    ELSE IF \E i \in DOMAIN variables[name].s : variables[name].s[i].k # "num" THEN Raised
    ELSE Num(SumOf(variables[name].s))

=============================================================================
