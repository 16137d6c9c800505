----------------------------- MODULE TopicReads -----------------------------
(***************************************************************************)
(* The read actions that follow in a pipeline what TopicStore's pipelines  *)
(* wrote: exists, read-row, read-rows, read-factor and read-factors ask    *)
(* the target topic by a condition over the trigger data, and set a        *)
(* variable.  The steps of TopicStore are taken as they are, with the      *)
(* trigger data and the variables of the run beside them; a read leaves    *)
(* the state of TopicStore as it is.                                       *)
(***************************************************************************)
EXTENDS TopicStore, Criteria

CONSTANTS
    Ons,      \* conditions on the target topic
    Reads     \* the read actions that are tried

VARIABLES
    data,     \* the trigger data of the last run
    memory    \* the variables of that run

allVars == <<vars, data, memory>>

ReadsInit == Init /\ data = None /\ memory = <<>>

NewRun(d) == data' = d /\ memory' = <<>>

\* Whether a query is refused depends on no row.
Refused(where) == Matches(topic.dialect, where, [col \in Columns |-> None]) = Raises
FoundRows(where) == SelectSeq(rows, LAMBDA row : Matches(topic.dialect, where, row) = "true")

Answers(kind, where) == IF Refused(where) THEN {Raised} ELSE AnswersOf(kind, FoundRows(where))

\* One that raises ends the run; any other sets its variable.
Read(read) ==
    /\ data # None /\ memory = <<>>
    /\ \E v \in Answers(read.kind, ByJoint(read.on, data, memory)) :
          memory' = IF v = Raised THEN [failed |-> None] ELSE [v |-> v]
    /\ UNCHANGED <<vars, data>>

ReadsNext ==
    \/ \E s \in Sources, d \in Datas : Put(s, d) /\ NewRun(d)
    \/ \E d \in Datas : MergeKey(d) /\ NewRun(d)
    \/ \E read \in Reads : Read(read)

ReadsSpec == ReadsInit /\ [][ReadsNext]_allVars

-----------------------------------------------------------------------------
\* A condition over the trigger data and a target row together, evaluated in memory.
Both(row) == [k |-> "dict", m |-> data.m @@ row]

SideValue(p, row) == ParseParameter(p, Both(row), memory)
OnTarget(p) == p.kind = "topic" /\ p.of = "target"
PlainNumbers(v) ==
    CASE v.k = "num" -> v.f = "plain"
      [] v.k = "list" -> \A i \in DOMAIN v.s : v.s[i].k = "num" /\ v.s[i].f = "plain"
      [] v.k = "str" -> \/ v.t[1] = "number" /\ v.t[3] = "plain"
                        \/ v.t[1] = "commas" /\ \A i \in DOMAIN v.t[2] : IsDigit(v.t[2][i])
      [] OTHER -> v = None

\* Where the two readings of a computed parameter differ: a query joins texts that the
\* condition adds as numbers, and it sums up all the operands, not the first and last.
RECURSIVE ComputedAlike(_, _)
ComputedAlike(p, row) ==
    p.kind = "computed" =>
        /\ \A i \in DOMAIN p.parameters : ComputedAlike(p.parameters[i], row)
        /\ p.type \in Arithmetics =>
              /\ Len(p.parameters) = 2
              /\ \A i \in 1..2 : SideValue(p.parameters[i], row).k # "str"

\* And those of a filter: a NULL (SQL's != and not-in, orderings), a column on the right
\* of an ordering or of "in", and numbers not in their plain form, which only the store
\* takes for equal to others.
RECURSIVE ReadAlike(_, _)
ReadAlike(on, row) ==
    IF on.k = "joint" THEN \A i \in DOMAIN on.filters : ReadAlike(on.filters[i], row)
    ELSE LET l == SideValue(on.left, row)
             r == SideValue(on.right, row)
         IN  /\ ComputedAlike(on.left, row) /\ ComputedAlike(on.right, row)
             /\ PlainNumbers(l) /\ PlainNumbers(r)
             /\ on.op \in {"not-equals", "not-in"} => None \notin {l, r}
             /\ on.op \in {"in", "less", "less-equals", "more", "more-equals"} =>
                    None \notin {l, r} /\ OnTarget(on.left)

\* "by" and "on" are written in the same editor and evaluated by different code, one as
\* a query and one in memory: where the store answers it returns exactly the rows for
\* which the condition holds in memory, in all three stores.
QueryMeansCondition ==
    data # None =>
        \A on \in Ons :
            LET where == ByJoint(on, data, memory)
            IN  \A i \in DOMAIN rows :
                    ReadAlike(on, rows[i]) =>
                        Matches(topic.dialect, where, rows[i]) \in {Raises, ParseJoint(on, Both(rows[i]), memory)}

=============================================================================
