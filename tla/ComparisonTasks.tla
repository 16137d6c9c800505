-------------------------- MODULE ComparisonTasks --------------------------
(***************************************************************************)
(* The comparisons of a pipeline's conditions with each other.  They are   *)
(* pure functions: a behaviour takes one task, two values to compare, and  *)
(* answers it for every operator.  Conditions has the other tasks.         *)
(***************************************************************************)
EXTENDS Comparison

CONSTANTS
    Tasks,      \* what may be asked
    Pending     \* the answer to a task not done yet

ASSUME TasksAssumption ==
    \A t \in Tasks : t.ask = "comparison" => IsValue(t.left) /\ IsValue(t.right)

VARIABLES task, answer
vars == <<task, answer>>

-----------------------------------------------------------------------------
Init == task \in Tasks /\ answer = Pending

Answer(kind, value) ==
    /\ answer = Pending /\ task.ask = kind
    /\ answer' = value
    /\ UNCHANGED task

\* All comparisons of two values.
Compare ==
    Answer("comparison",
        [op \in {"equals", "not-equals", "less", "less-equals", "more", "more-equals",
                 "in", "not-in"} |-> Filter(op, task.left, task.right)])

ComparisonSpec == Init /\ [][Compare]_vars

-----------------------------------------------------------------------------
(***************************************************************************)
(* Properties                                                              *)
(***************************************************************************)
Answered(kind) == task.ask = kind /\ answer # Pending

Opposite(result) ==
    CASE result = "true" -> "false" [] result = "false" -> "true" [] OTHER -> result

\* The eight comparisons are written in eight files.  Those that deny each other must
\* do so for every pair of values, of whatever kinds: both answer or both raise.
ComparisonsDenyEachOther ==
    Answered("comparison") =>
        /\ answer["not-equals"] = Opposite(answer["equals"])
        /\ answer["not-in"] = Opposite(answer["in"])
        /\ None \notin {task.left, task.right} =>
               /\ answer["more-equals"] = Opposite(answer["less"])
               /\ answer["less-equals"] = Opposite(answer["more"])

\* equals may be used to match rows: where it answers it is an equivalence, null and
\* the empty text being alike, as long as no float takes part.
EqualsIsEquivalence ==
    Answered("comparison") /\ "float" \notin {task.left.k, task.right.k} =>
        /\ task.left = task.right => answer["equals"] = "true"
        /\ Equals(task.right, task.left) = answer["equals"]
        /\ \A t \in Tasks :
              t.ask = "comparison" /\ t.left = task.right /\ t.right.k # "float"
                /\ answer["equals"] = "true" /\ Equals(t.left, t.right) = "true" =>
                    Equals(task.left, t.right) = "true"

\* Swapping the sides of an ordering mirrors it.  The one exception is a number with a
\* text that reads as a number and is not all digits: 3 < "5.0" raises, "5.0" > 3 answers.
OrderingsMirror ==
    Answered("comparison")
      /\ ~(\E v, w \in {task.left, task.right} :
               v.k = "num" /\ w.k = "str" /\ IsNumber(w.t) /\ ~IsDigit(w.t)) =>
        /\ answer["less"] = More(task.right, task.left)
        /\ answer["less-equals"] = MoreEquals(task.right, task.left)

=============================================================================
