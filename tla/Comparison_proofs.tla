-------------------------- MODULE Comparison_proofs --------------------------
(***************************************************************************)
(* Proofs about Comparison, for all values: TLC compares some values of    *)
(* every kind with each other, these theorems say the same of any two or   *)
(* three, and of every behaviour of ComparisonTasks.                       *)
(***************************************************************************)
EXTENDS ComparisonTasks, ColumnTests, TLAPS

-----------------------------------------------------------------------------
(* Comparisons that deny each other.                                       *)

\* equals.py and not_equals.py deny each other for any two values: where one answers
\* the other gives the opposite answer, and where one raises so does the other.
THEOREM NotEqualsDeniesEquals ==
    ASSUME NEW l, NEW r
    PROVE  NotEquals(l, r) = Opposite(Equals(l, r))
BY DEF NotEquals, Equals, Opposite, Truth, Raises

\* not_in.py answers the opposite of in.py, on any two values.
THEOREM NotInDeniesIn ==
    ASSUME NEW l, NEW r
    PROVE  NotIn(l, r) = Opposite(In(l, r))
BY DEF NotIn, In, Opposite, Truth

-----------------------------------------------------------------------------
(* equals is an equivalence as long as no float takes part.                *)

\* Which side is the left one makes no difference, even to a float.
THEOREM EqualsIsSymmetric ==
    ASSUME NEW l, NEW r
    PROVE  Equals(l, r) = Equals(r, l)
<1>1. FloatIs(l, r) <=> FloatIs(r, l)
  BY DEF FloatIs
<1>2. {l.k, r.k} = {r.k, l.k} /\ {l, r} = {r, l}
  OBVIOUS
<1>3. (IsEmpty(l) /\ IsEmpty(r)) <=> (IsEmpty(r) /\ IsEmpty(l))
  OBVIOUS
<1> QED
  BY <1>1, <1>2, <1>3 DEF Equals, Truth

\* Only null and a text are empty, and null is no scalar.
LEMMA EmptyKinds ==
    ASSUME NEW v
    PROVE  /\ IsEmpty(v) => v.k \in {"none", "str"}
           /\ v = None => v.k = "none" /\ IsEmpty(v)
<1>1. None.k = "none"
  BY DEF None
<1>2. Str(<<"">>).k = "str"
  BY DEF Str
<1> QED
  BY <1>1, <1>2 DEF IsEmpty

\* What equality of two values that are no floats amounts to.
LEMMA EqualsAmountsTo ==
    ASSUME NEW l, NEW r, "float" \notin {l.k, r.k}
    PROVE  Equals(l, r) = "true" <=>
               \/ IsEmpty(l) /\ IsEmpty(r)
               \/ {l.k, r.k} \subseteq Scalars /\ TextOf(l) = TextOf(r)
               \/ l = r
<1> USE EmptyKinds
<1>1. CASE None \in {l, r}
  <2>1. Equals(l, r) = Truth(IsEmpty(l) /\ IsEmpty(r))
    BY <1>1 DEF Equals
  <2>2. ~({l.k, r.k} \subseteq Scalars) /\ (l = r => IsEmpty(l) /\ IsEmpty(r))
    BY <1>1 DEF Scalars
  <2> QED
    BY <2>1, <2>2 DEF Truth
<1>2. CASE None \notin {l, r} /\ {l.k, r.k} \subseteq Scalars /\ {l.k, r.k} # {"num", "date"}
  <2>1. Equals(l, r) = Truth(TextOf(l) = TextOf(r))
    BY <1>2 DEF Equals
  <2>2. IsEmpty(l) /\ IsEmpty(r) => TextOf(l) = TextOf(r)
    BY <1>2 DEF IsEmpty
  <2> QED
    BY <1>2, <2>1, <2>2 DEF Truth
<1>3. CASE None \notin {l, r} /\ {l.k, r.k} = {"num", "date"}
  <2>1. TextOf(l) # TextOf(r) /\ l # r
    BY <1>3 DEF TextOf
  <2>2. ~(IsEmpty(l) /\ IsEmpty(r))
    BY <1>3
  <2> QED
    BY <1>3, <2>1, <2>2 DEF Equals, Raises
<1>4. CASE None \notin {l, r} /\ ~({l.k, r.k} \subseteq Scalars)
  <2>1. ~(IsEmpty(l) /\ IsEmpty(r))
    BY <1>4 DEF IsEmpty, Str, Scalars
  <2>2. {l.k, r.k} # {"num", "date"}
    BY <1>4 DEF Scalars
  <2>3. Equals(l, r) = IF l.k = r.k THEN Truth(l = r) ELSE Raises
    BY <1>4, <2>2 DEF Equals
  <2> QED
    BY <1>4, <2>1, <2>3 DEF Truth, Raises
<1> QED
  BY <1>1, <1>2, <1>3, <1>4

\* The text of a scalar is empty only if the scalar is.
LEMMA EmptyText ==
    ASSUME NEW v, IsValue(v), v.k \in Scalars
    PROVE  TextOf(v) = <<"">> <=> IsEmpty(v)
<1>1. CASE v = None
  BY <1>1, EmptyKinds DEF Scalars
<1>2. ASSUME NEW t, IsText(t), v = Str(t) PROVE TextOf(v) = <<"">> <=> IsEmpty(v)
  <2>1. v.k = "str" /\ v.t = t
    BY <1>2 DEF Str
  <2>2. Str(<<"">>).t = <<"">>
    BY DEF Str
  <2>3. v # None
    BY <2>1, EmptyKinds
  <2> QED
    BY <1>2, <2>1, <2>2, <2>3 DEF TextOf, IsEmpty
<1>3. CASE v.k \in {"num", "date"}
  <2>1. TextOf(v) # <<"">>
    BY <1>3 DEF TextOf
  <2> QED
    BY <1>3, <2>1, EmptyKinds
<1>4. CASE v.k = "str"
  <2>1. \E t : IsText(t) /\ v = Str(t)
    BY <1>4, EmptyKinds DEF IsValue
  <2> QED
    BY <1>2, <2>1
<1> QED
  BY <1>3, <1>4 DEF Scalars

\* Where no float takes part equals is transitive, so that it may be used to match
\* rows: whatever mixture of texts, numbers, dates and nothing is compared.
THEOREM EqualsIsTransitive ==
    ASSUME NEW l, NEW r, NEW t, IsValue(l), IsValue(r), IsValue(t),
           "float" \notin {l.k, r.k, t.k},
           Equals(l, r) = "true", Equals(r, t) = "true"
    PROVE  Equals(l, t) = "true"
<1> DEFINE Both(v, w) == {v.k, w.k} \subseteq Scalars /\ TextOf(v) = TextOf(w)
           Alike(v, w) == (IsEmpty(v) /\ IsEmpty(w)) \/ Both(v, w) \/ v = w
<1>1. Alike(l, r) /\ Alike(r, t)
  BY EqualsAmountsTo
<1>2. Alike(l, t) => Equals(l, t) = "true"
  BY EqualsAmountsTo
<1>3. Both(l, r) => (IsEmpty(l) <=> IsEmpty(r))
  BY EmptyText
<1>4. Both(r, t) => (IsEmpty(r) <=> IsEmpty(t))
  BY EmptyText
<1> QED
  BY <1>1, <1>2, <1>3, <1>4

-----------------------------------------------------------------------------
(* Orderings.                                                              *)

\* The texts of numbers and days have an integer in them.
LEMMA NumberTexts ==
    ASSUME NEW t, IsText(t), t[1] \in {"number", "day"}
    PROVE  t[2] \in Int
<1>1. CASE t = <<"">>
  <2>1. t[1] = ""
    BY <1>1
  <2> QED
    BY <2>1
<1>2. ASSUME NEW w, t = <<"word", w>> \/ t = <<"commas", w>> PROVE FALSE
  <2>1. t[1] \in {"word", "commas"}
    BY <1>2
  <2> QED
    BY <2>1
<1>3. ASSUME NEW d \in Int, t = <<"day", d>> PROVE t[2] \in Int
  BY <1>3
<1>4. ASSUME NEW n \in Int, NEW form, t = <<"number", n, form>> PROVE t[2] \in Int
  BY <1>4
<1> QED
  BY <1>1, <1>2, <1>3, <1>4 DEF IsText

\* What is read as a number is one.
LEMMA NumbersAreIntegers ==
    ASSUME NEW v, IsValue(v), v.k \in {"num", "float"} \/ (v.k = "str" /\ IsNumber(v.t))
    PROVE  NumberOf(v) \in Int
<1>1. CASE v.k = "num"
  <2>1. v.n \in Int
    BY <1>1, EmptyKinds DEF IsValue, Str
  <2> QED
    BY <1>1, <2>1 DEF NumberOf
<1>2. CASE v.k = "float"
  <2>1. v.x \in Int
    BY <1>2, EmptyKinds DEF IsValue, Str
  <2> QED
    BY <1>2, <2>1 DEF NumberOf
<1>3. CASE v.k = "str" /\ IsNumber(v.t)
  <2>1. IsText(v.t)
    BY <1>3, EmptyKinds DEF IsValue, Str
  <2>2. v.t[2] \in Int
    BY <1>3, <2>1, NumberTexts DEF IsNumber
  <2> QED
    BY <1>3, <2>2 DEF NumberOf
<1> QED
  BY <1>1, <1>2, <1>3

\* What is read as a day is an integer.
LEMMA DaysAreIntegers ==
    ASSUME NEW v, IsValue(v), ReadsAsDay(v)
    PROVE  DayOf(v) \in Int
<1>1. CASE v.k = "date"
  <2>1. v.d \in Int
    BY <1>1, EmptyKinds DEF IsValue, Str
  <2> QED
    BY <1>1, <2>1 DEF DayOf
<1>2. CASE v.k = "num"
  <2>1. v.n \in Int
    BY <1>2, EmptyKinds DEF IsValue, Str
  <2> QED
    BY <1>2, <2>1 DEF DayOf, TextOf
<1>3. CASE v.k = "str"
  <2>1. IsText(v.t)
    BY <1>3, EmptyKinds DEF IsValue, Str
  <2>2. v.t[2] \in Int
    BY <1>3, <2>1, NumberTexts DEF ReadsAsDay, TextOf, IsNumber
  <2> QED
    BY <1>3, <2>2 DEF DayOf, TextOf
<1> QED
  BY <1>1, <1>2, <1>3 DEF ReadsAsDay

\* Of two values that are there, one is at least the other exactly where it is not less,
\* and at most the other where it is not more: four files agree, or all of them raise.
THEOREM OrderingsDenyEachOther ==
    ASSUME NEW l, NEW r, IsValue(l), IsValue(r), None \notin {l, r}
    PROVE  MoreEquals(l, r) = Opposite(Less(l, r)) /\ LessEquals(l, r) = Opposite(More(l, r))
<1>1. CASE ReadAsNumbers(l, r)
  <2>1. NumberOf(l) \in Int /\ NumberOf(r) \in Int
    BY <1>1, NumbersAreIntegers DEF ReadAsNumbers, IsDigit
  <2> QED
    BY <1>1, <2>1 DEF MoreEquals, Less, LessEquals, More, Ordered, Truth, Opposite
<1>2. CASE ~ReadAsNumbers(l, r) /\ ReadAsDays(l, r)
  <2>1. DayOf(l) \in Int /\ DayOf(r) \in Int
    BY <1>2, DaysAreIntegers DEF ReadAsDays
  <2> QED
    BY <1>2, <2>1 DEF MoreEquals, Less, LessEquals, More, Ordered, Truth, Opposite
<1>3. CASE ~ReadAsNumbers(l, r) /\ ~ReadAsDays(l, r)
  BY <1>3 DEF MoreEquals, Less, LessEquals, More, Ordered, Raises, Opposite
<1> QED
  BY <1>1, <1>2, <1>3

\* A number with a text that reads as a number and is not all digits.
HalfRead(v, w) == v.k = "num" /\ w.k = "str" /\ IsNumber(w.t) /\ ~IsDigit(w.t)

\* Swapping the sides mirrors an ordering, unless a number meets a text that reads as a
\* number and is not all digits: the text may stand on the left of it and not on the right.
THEOREM OrderingsAreMirrored ==
    ASSUME NEW l, NEW r, IsValue(l), IsValue(r), ~HalfRead(l, r), ~HalfRead(r, l)
    PROVE  Less(l, r) = More(r, l) /\ LessEquals(l, r) = MoreEquals(r, l)
<1>1. ReadAsNumbers(l, r) <=> ReadAsNumbers(r, l)
  BY DEF ReadAsNumbers, HalfRead, IsDigit
<1>2. ReadAsDays(l, r) <=> ReadAsDays(r, l)
  BY DEF ReadAsDays
<1>3. CASE ReadAsNumbers(l, r)
  <2>1. NumberOf(l) \in Int /\ NumberOf(r) \in Int
    BY <1>3, NumbersAreIntegers DEF ReadAsNumbers, IsDigit
  <2> QED
    BY <1>1, <1>3, <2>1 DEF MoreEquals, Less, LessEquals, More, Ordered, Truth
<1>4. CASE ~ReadAsNumbers(l, r) /\ ReadAsDays(l, r)
  <2>1. DayOf(l) \in Int /\ DayOf(r) \in Int
    BY <1>4, DaysAreIntegers DEF ReadAsDays
  <2> QED
    BY <1>1, <1>2, <1>4, <2>1 DEF MoreEquals, Less, LessEquals, More, Ordered, Truth
<1>5. CASE ~ReadAsNumbers(l, r) /\ ~ReadAsDays(l, r)
  BY <1>1, <1>2, <1>5 DEF MoreEquals, Less, LessEquals, More, Ordered
<1> QED
  BY <1>3, <1>4, <1>5

-----------------------------------------------------------------------------
(* What is answered.                                                       *)

Operators == {"equals", "not-equals", "less", "less-equals", "more", "more-equals", "in", "not-in"}

\* A task stays the one that was taken, and is answered operator by operator.
AnswersOfTheTask ==
    /\ task \in Tasks
    /\ Answered("comparison") =>
          answer = [op \in Operators |-> Filter(op, task.left, task.right)]

\* No value stands for a parameter that raised.
LEMMA ValuesAreNotRaised ==
    ASSUME NEW v, IsValue(v)
    PROVE  v # Raised
<1>1. Raised.k = "raises" /\ None.k = "none"
  BY DEF Raised, None
<1> QED
  BY <1>1 DEF IsValue

\* The answers to a task are those of the eight comparisons of two values.
LEMMA AnswersAreComparisons ==
    ASSUME AnswersOfTheTask, Answered("comparison")
    PROVE  /\ IsValue(task.left) /\ IsValue(task.right)
           /\ answer["equals"] = Equals(task.left, task.right)
           /\ answer["not-equals"] = NotEquals(task.left, task.right)
           /\ answer["less"] = Less(task.left, task.right)
           /\ answer["less-equals"] = LessEquals(task.left, task.right)
           /\ answer["more"] = More(task.left, task.right)
           /\ answer["more-equals"] = MoreEquals(task.left, task.right)
           /\ answer["in"] = In(task.left, task.right)
           /\ answer["not-in"] = NotIn(task.left, task.right)
<1>1. IsValue(task.left) /\ IsValue(task.right)
  BY TasksAssumption DEF AnswersOfTheTask, Answered
<1>2. Raised \notin {task.left, task.right}
  BY <1>1, ValuesAreNotRaised
<1>3. \A op \in Operators : answer[op] = Filter(op, task.left, task.right)
  BY DEF AnswersOfTheTask
<1>4. /\ answer["equals"] = Filter("equals", task.left, task.right)
      /\ answer["not-equals"] = Filter("not-equals", task.left, task.right)
      /\ answer["less"] = Filter("less", task.left, task.right)
      /\ answer["less-equals"] = Filter("less-equals", task.left, task.right)
      /\ answer["more"] = Filter("more", task.left, task.right)
      /\ answer["more-equals"] = Filter("more-equals", task.left, task.right)
      /\ answer["in"] = Filter("in", task.left, task.right)
      /\ answer["not-in"] = Filter("not-in", task.left, task.right)
  BY <1>3 DEF Operators
<1>5. /\ Filter("equals", task.left, task.right) = Equals(task.left, task.right)
      /\ Filter("not-equals", task.left, task.right) = NotEquals(task.left, task.right)
      /\ Filter("less", task.left, task.right) = Less(task.left, task.right)
      /\ Filter("less-equals", task.left, task.right) = LessEquals(task.left, task.right)
      /\ Filter("more", task.left, task.right) = More(task.left, task.right)
      /\ Filter("more-equals", task.left, task.right) = MoreEquals(task.left, task.right)
      /\ Filter("in", task.left, task.right) = In(task.left, task.right)
      /\ Filter("not-in", task.left, task.right) = NotIn(task.left, task.right)
  BY <1>2 DEF Filter
<1> QED
  BY <1>1, <1>4, <1>5

LEMMA TasksAreAnswered == ComparisonSpec => []AnswersOfTheTask
<1>1. Init => AnswersOfTheTask
  BY DEF Init, AnswersOfTheTask, Answered
<1>2. AnswersOfTheTask /\ [Compare]_vars => AnswersOfTheTask'
  <2> SUFFICES ASSUME AnswersOfTheTask, [Compare]_vars PROVE AnswersOfTheTask'
    OBVIOUS
  <2>1. CASE Compare
    BY <2>1 DEF Compare, Answer, AnswersOfTheTask, Operators
  <2>2. CASE UNCHANGED vars
    BY <2>2 DEF vars, AnswersOfTheTask, Answered
  <2> QED
    BY <2>1, <2>2
<1> QED
  BY <1>1, <1>2, PTL DEF ComparisonSpec

\* Comparisons that deny each other do so for every two values: both answer or both raise.
THEOREM ComparisonsAlwaysDeny == ComparisonSpec => []ComparisonsDenyEachOther
<1>1. AnswersOfTheTask => ComparisonsDenyEachOther
  <2> SUFFICES ASSUME AnswersOfTheTask, Answered("comparison")
               PROVE  /\ answer["not-equals"] = Opposite(answer["equals"])
                      /\ answer["not-in"] = Opposite(answer["in"])
                      /\ None \notin {task.left, task.right} =>
                            /\ answer["more-equals"] = Opposite(answer["less"])
                            /\ answer["less-equals"] = Opposite(answer["more"])
    BY DEF ComparisonsDenyEachOther
  <2> QED
    BY AnswersAreComparisons, NotEqualsDeniesEquals, NotInDeniesIn, OrderingsDenyEachOther
<1> QED
  BY <1>1, TasksAreAnswered, PTL

\* equals is an equivalence wherever no float takes part, so that it may match rows.
THEOREM EqualsIsAlwaysEquivalence == ComparisonSpec => []EqualsIsEquivalence
<1>1. AnswersOfTheTask => EqualsIsEquivalence
  <2> SUFFICES ASSUME AnswersOfTheTask, Answered("comparison"),
                      "float" \notin {task.left.k, task.right.k}
               PROVE  /\ task.left = task.right => answer["equals"] = "true"
                      /\ Equals(task.right, task.left) = answer["equals"]
                      /\ \A t \in Tasks :
                            t.ask = "comparison" /\ t.left = task.right /\ t.right.k # "float"
                              /\ answer["equals"] = "true" /\ Equals(t.left, t.right) = "true" =>
                                  Equals(task.left, t.right) = "true"
    BY DEF EqualsIsEquivalence
  <2>1. answer["equals"] = Equals(task.left, task.right)
    BY AnswersAreComparisons
  <2>2. task.left = task.right => Equals(task.left, task.right) = "true"
    BY EqualsAmountsTo
  <2>3. Equals(task.right, task.left) = Equals(task.left, task.right)
    BY EqualsIsSymmetric
  <2>4. ASSUME NEW t \in Tasks, t.ask = "comparison", t.left = task.right, t.right.k # "float",
               Equals(task.left, task.right) = "true", Equals(t.left, t.right) = "true"
        PROVE  Equals(task.left, t.right) = "true"
    <3>1. IsValue(t.right)
      BY <2>4, TasksAssumption
    <3>2. IsValue(task.left) /\ IsValue(task.right)
      BY AnswersAreComparisons
    <3> QED
      BY <2>4, <3>1, <3>2, EqualsIsTransitive
  <2> QED
    BY <2>1, <2>2, <2>3, <2>4
<1> QED
  BY <1>1, TasksAreAnswered, PTL

\* Swapping the sides of an ordering mirrors it, but for a number with a text that reads
\* as a number and is not all digits.
THEOREM OrderingsAlwaysMirror == ComparisonSpec => []OrderingsMirror
<1>1. AnswersOfTheTask => OrderingsMirror
  <2> SUFFICES ASSUME AnswersOfTheTask, Answered("comparison"),
                      ~(\E v, w \in {task.left, task.right} :
                            v.k = "num" /\ w.k = "str" /\ IsNumber(w.t) /\ ~IsDigit(w.t))
               PROVE  /\ answer["less"] = More(task.right, task.left)
                      /\ answer["less-equals"] = MoreEquals(task.right, task.left)
    BY DEF OrderingsMirror
  <2>1. ~HalfRead(task.left, task.right) /\ ~HalfRead(task.right, task.left)
    BY DEF HalfRead
  <2> QED
    BY <2>1, AnswersAreComparisons, OrderingsAreMirrored
<1> QED
  BY <1>1, TasksAreAnswered, PTL
-----------------------------------------------------------------------------
(* A test of a column, as a query of a store and in memory.                *)

\* What a column of a type holds: nothing, or a value of that type.
OfType(type, a) ==
    \/ a = None
    \/ type = "number" /\ a.k = "num" /\ a.f = "plain"
    \/ type = "text" /\ a.k = "str" /\ ~IsEmpty(a)

PlainForm(v) ==
    /\ v.k = "num" => v.f = "plain"
    /\ v.k = "str" /\ IsNumber(v.t) => v.t[3] = "plain"

IsOrdering(op) == op \in {"less", "less-equals", "more", "more-equals"}

\* Where the two readings of a test are meant to be alike.  They are not for a list or a
\* dict that is not asked with "in", for numbers in another form, for NULL with
\* not-equals, not-in and orderings, for orderings of texts, which the models leave out,
\* and for a text that is a number but not all digits, which an ordering does not take.
TestReadAlike(op, type, a, v) ==
    /\ op \in {"in", "not-in"} =>
           /\ v.k = "list"
           /\ \A i \in DOMAIN v.s :
                 IsValue(v.s[i]) /\ v.s[i].k \in Scalars /\ ~IsEmpty(v.s[i]) /\ PlainForm(v.s[i])
    /\ op \notin {"in", "not-in"} => v.k \in Scalars \cup {"none", "float"} /\ PlainForm(v)
    /\ op \in {"not-equals", "not-in"} \/ IsOrdering(op) => None \notin {a, v}
    /\ IsOrdering(op) => type = "number" /\ ~IsEmpty(v) /\ ~HalfRead(a, v)

\* What a number factor makes of a value.
LEMMA NumberConverted ==
    ASSUME NEW v, IsValue(v), v.k # "list", Convert("number", v) # Raised
    PROVE  /\ IsEmpty(v) => Convert("number", v) = None
           /\ ~IsEmpty(v) =>
                 /\ v.k \in {"num", "str", "float"}
                 /\ v.k = "str" => IsNumber(v.t)
                 /\ v.k = "num" => Convert("number", v) = v
                 /\ v.k = "str" => Convert("number", v).k = "num" /\ Convert("number", v).n = v.t[2]
                 /\ v.k = "float" => Convert("number", v).k = "num" /\ Convert("number", v).n = v.x
<1>1. v # Raised
  BY ValuesAreNotRaised
<1>2. CASE IsEmpty(v)
  BY <1>1, <1>2 DEF Convert
<1>3. CASE ~IsEmpty(v)
  <2>1. Convert("number", v) =
            IF v.k = "num" THEN v
            ELSE IF v.k = "str" /\ IsNumber(v.t)
            THEN [k |-> "num", n |-> v.t[2], f |-> IF v.t[3] = "point" THEN "point" ELSE "plain"]
            ELSE IF v.k = "float" THEN [k |-> "num", n |-> v.x, f |-> "point"]
            ELSE Raised
    BY <1>1, <1>3 DEF Convert
  <2> QED
    BY <1>3, <2>1
<1> QED
  BY <1>2, <1>3

\* What a text factor makes of a value.
LEMMA TextConverted ==
    ASSUME NEW v, IsValue(v)
    PROVE  Convert("text", v) = IF IsEmpty(v) THEN None ELSE Str(TextOf(v))
BY ValuesAreNotRaised DEF Convert

\* A value that is there, converted for its column, is the same as the one the column
\* holds exactly where equals says so, which does not raise.
LEMMA SameMeansEquals ==
    ASSUME NEW type \in {"number", "text"}, NEW a, NEW v, IsValue(a), IsValue(v), OfType(type, a), a # None,
           v.k \in Scalars \cup {"float"}, ~IsEmpty(v), PlainForm(v), Convert(type, v) # Raised
    PROVE  Equals(a, v) = Truth(Same(a, Convert(type, v)))
<1>0. a # None /\ v # None
  BY DEF IsEmpty
<1>1. CASE type = "number"
  <2> DEFINE w == Convert("number", v)
  <2>1. a.k = "num" /\ a.f = "plain" /\ TextOf(a) = <<"number", a.n, "plain">>
    BY <1>0, <1>1 DEF OfType, TextOf
  <2>2. v.k \in {"num", "str", "float"} /\ (v.k = "str" => IsNumber(v.t))
    BY <1>1, NumberConverted DEF Scalars
  <2>3. CASE v.k = "num"
    <3>1. w = v /\ TextOf(v) = <<"number", v.n, "plain">>
      BY <1>1, <2>3, NumberConverted DEF TextOf, PlainForm
    <3>2. Equals(a, v) = Truth(TextOf(a) = TextOf(v))
      BY <1>0, <2>1, <2>3 DEF Equals, Scalars
    <3> QED
      BY <1>1, <2>1, <2>3, <3>1, <3>2 DEF Same, Truth
  <2>4. CASE v.k = "str"
    <3>1. w.k = "num" /\ w.n = v.t[2]
      BY <1>1, <2>4, NumberConverted DEF Scalars
    <3>2. TextOf(v) = <<"number", v.t[2], "plain">>
      <4>1. TextOf(v) = v.t /\ v.t[1] = "number" /\ v.t[3] = "plain" /\ IsText(v.t)
        BY <2>2, <2>4, <1>0 DEF TextOf, PlainForm, IsValue, IsNumber
      <4>2. v.t # <<"">>
        <5>1. <<"">>[1] = ""
          OBVIOUS
        <5> QED
          BY <4>1, <5>1
      <4> QED
        BY <4>1, <4>2 DEF IsText
    <3>3. Equals(a, v) = Truth(TextOf(a) = TextOf(v))
      BY <1>0, <2>1, <2>4 DEF Equals, Scalars
    <3> QED
      BY <1>1, <2>1, <3>1, <3>2, <3>3 DEF Same, Truth
  <2>5. CASE v.k = "float"
    <3>1. w.k = "num" /\ w.n = v.x
      BY <1>1, <2>5, NumberConverted DEF Scalars
    <3>2. Equals(a, v) = Truth(FloatIs(a, v))
      BY <1>0, <2>5 DEF Equals
    <3>3. FloatIs(a, v) <=> a.n = v.x
      BY <2>1, <2>5 DEF FloatIs
    <3> QED
      BY <1>1, <2>1, <3>1, <3>2, <3>3 DEF Same, Truth
  <2> QED
    BY <2>2, <2>3, <2>4, <2>5
<1>2. CASE type = "text"
  <2>1. Convert("text", v) = Str(TextOf(v))
    BY TextConverted
  <2>2. a.k = "str" /\ a = Str(a.t) /\ IsText(a.t) /\ TextOf(a) = a.t
    BY <1>0, <1>2 DEF OfType, IsValue, TextOf
  <2>3. Same(a, Convert("text", v)) <=> a.t = TextOf(v)
    BY <2>1, <2>2 DEF Same, Str
  <2>4. CASE v.k # "float"
    <3>1. Equals(a, v) = Truth(TextOf(a) = TextOf(v))
      BY <1>0, <2>2, <2>4 DEF Equals, Scalars
    <3> QED
      BY <1>2, <2>2, <2>3, <3>1 DEF Truth
  <2>5. CASE v.k = "float"
    <3>1. TextOf(v) = <<"repr", v>>
      BY <2>5 DEF TextOf
    <3>2. TextOf(v)[1] = "repr"
      BY <3>1
    <3>3. a.t[1] # "repr"
      <4>1. <<"">>[1] = ""
        OBVIOUS
      <4> QED
        BY <2>2, <4>1 DEF IsText
    <3>4. Equals(a, v) = Truth(FloatIs(a, v)) /\ ~FloatIs(a, v)
      BY <1>0, <2>2, <2>5 DEF Equals, FloatIs
    <3> QED
      BY <1>2, <2>3, <3>1, <3>3, <3>4, <3>2 DEF Truth
  <2> QED
    BY <2>4, <2>5
<1> QED
  BY <1>1, <1>2
\* What the converted value of a test is, where the conversion does not raise.
LEMMA OneValueAdapted ==
    ASSUME NEW type \in {"number", "text"}, NEW a, NEW v, IsValue(a), IsValue(v), OfType(type, a),
           v.k \in Scalars \cup {"none", "float"}, PlainForm(v), Convert(type, v) # Raised
    PROVE  /\ Adapted(type, v) = Convert(type, v)
           /\ Convert(type, v) = None <=> IsEmpty(v)
           /\ Convert(type, v).k # "list"
           /\ IsEmpty(a) <=> a = None
<1>1. v.k # "list" /\ Adapted(type, v) = Convert(type, v)
  BY DEF Adapted, Scalars
<1>2. None.k = "none" /\ Str(TextOf(v)).k = "str"
  BY DEF None, Str
<1>3. IsEmpty(a) <=> a = None
  BY EmptyKinds DEF OfType, IsEmpty
<1>4. CASE type = "number"
  BY <1>1, <1>2, <1>3, <1>4, NumberConverted
<1>5. CASE type = "text"
  BY <1>1, <1>2, <1>3, <1>5, TextConverted
<1> QED
  BY <1>4, <1>5

\* equals, not-equals and empty.
LEMMA EqualityReadAlike ==
    ASSUME NEW dialect, NEW op \in {"equals", "not-equals", "empty"}, NEW type \in {"number", "text"},
           NEW a, NEW v, IsValue(a), IsValue(v), OfType(type, a), TestReadAlike(op, type, a, v),
           Convert(type, v) # Raised,
           NEW x, x = IF op = "empty" THEN None ELSE Convert(type, v)
    PROVE  (IF IsSql(dialect) THEN SqlTest(dialect, WhereOp[op], a, x) ELSE MongoTest(WhereOp[op], a, x))
               = Filter(op, a, v)
<1> DEFINE answer1 == IF IsSql(dialect) THEN SqlTest(dialect, WhereOp[op], a, x) ELSE MongoTest(WhereOp[op], a, x)
<1>1. Filter("equals", a, v) = Equals(a, v) /\ Filter("not-equals", a, v) = NotEquals(a, v)
      /\ Filter("empty", a, v) = Truth(IsEmpty(a))
  BY ValuesAreNotRaised DEF Filter
<1>2. v.k \in Scalars \cup {"none", "float"} /\ PlainForm(v)
  BY DEF TestReadAlike
<1>3. /\ Convert(type, v) = None <=> IsEmpty(v)
      /\ Convert(type, v).k # "list"
      /\ IsEmpty(a) <=> a = None
  BY <1>2, OneValueAdapted
<1>4. None.k = "none"
  BY DEF None
<1>5. x.k # "list"
  BY <1>3, <1>4
<1>6. Same(a, None) <=> a = None
  BY <1>4 DEF Same
<1>7. x # None => (Same(None, x) <=> FALSE)
  BY <1>4 DEF Same
<1>8. ~IsEmpty(v) => v.k \in Scalars \cup {"float"}
  BY <1>2, EmptyKinds DEF IsValue, Scalars
<1>9. CASE op = "empty"
  <2>1. x = None /\ WhereOp[op] = "="
    BY <1>9 DEF WhereOp
  <2>2. answer1 = Truth(a = None)
    BY <1>5, <1>6, <2>1 DEF SqlTest, MongoTest, Truth
  <2> QED
    BY <1>1, <1>3, <1>9, <2>2 DEF Truth
<1>10. CASE op = "equals"
  <2>1. x = Convert(type, v) /\ WhereOp[op] = "="
    BY <1>10 DEF WhereOp
  <2>2. answer1 = Truth(Same(a, x))
    BY <1>5, <1>6, <2>1 DEF SqlTest, MongoTest, Truth
  <2>3. CASE a # None /\ ~IsEmpty(v)
    BY <1>1, <1>2, <1>8, <1>10, <2>1, <2>2, <2>3, SameMeansEquals
  <2>4. CASE a = None \/ IsEmpty(v)
    <3>1. Same(a, x) <=> a = None /\ IsEmpty(v)
      BY <1>3, <1>6, <1>7, <2>1, <2>4
    <3>2. Equals(a, v) = Truth(a = None /\ IsEmpty(v))
      <4>1. CASE None \in {a, v}
        BY <1>3, <4>1 DEF Equals, Truth
      <4>2. CASE None \notin {a, v}
        <5>1. v = Str(<<"">>) /\ a # None /\ v.k = "str" /\ v.t = <<"">>
          <6>1. v = Str(<<"">>) /\ a # None
            BY <2>4, <4>2 DEF IsEmpty
          <6>2. Str(<<"">>).k = "str" /\ Str(<<"">>).t = <<"">>
            BY DEF Str
          <6> QED
            BY <6>1, <6>2
        <5>2. a.k \in Scalars
          BY <5>1 DEF OfType, Scalars
        <5>3. Equals(a, v) = Truth(TextOf(a) = TextOf(v))
          BY <4>2, <5>1, <5>2 DEF Equals, Scalars
        <5>4. TextOf(v) = <<"">>
          BY <5>1 DEF TextOf
        <5>5. TextOf(a) # <<"">>
          BY <1>3, <5>1, <5>2, EmptyText
        <5> QED
          BY <5>1, <5>3, <5>4, <5>5 DEF Truth
      <4> QED
        BY <4>1, <4>2
    <3> QED
      BY <1>1, <1>10, <2>2, <3>1, <3>2 DEF Truth
  <2> QED
    BY <2>3, <2>4
<1>11. CASE op = "not-equals"
  <2>1. x = Convert(type, v) /\ WhereOp[op] = "!=" /\ a # None /\ v # None
    BY <1>11 DEF WhereOp, TestReadAlike
  <2>2. answer1 = Truth(~Same(a, x))
    BY <1>5, <2>1 DEF SqlTest, MongoTest, Truth
  <2>3. NotEquals(a, v) = Opposite(Equals(a, v))
    BY NotEqualsDeniesEquals
  <2>4. CASE ~IsEmpty(v)
    <3>1. Equals(a, v) = Truth(Same(a, x))
      BY <1>2, <1>8, <2>1, <2>4, SameMeansEquals
    <3> QED
      BY <1>1, <1>11, <2>2, <2>3, <3>1 DEF Truth, Opposite
  <2>5. CASE IsEmpty(v)
    <3>1. v = Str(<<"">>) /\ v.k = "str" /\ v.t = <<"">>
      <4>1. v = Str(<<"">>)
        BY <2>1, <2>5 DEF IsEmpty
      <4>2. Str(<<"">>).k = "str" /\ Str(<<"">>).t = <<"">>
        BY DEF Str
      <4> QED
        BY <4>1, <4>2
    <3>2. a.k \in Scalars
      BY <2>1 DEF OfType, Scalars
    <3>3. NotEquals(a, v) = Truth(TextOf(a) # TextOf(v))
      BY <2>1, <3>1, <3>2 DEF NotEquals, Scalars
    <3>4. TextOf(v) = <<"">>
      BY <3>1 DEF TextOf
    <3>5. TextOf(a) # <<"">>
      BY <1>3, <2>1, <3>2, EmptyText
    <3>6. ~Same(a, x)
      BY <1>3, <1>6, <2>1, <2>5
    <3> QED
      BY <1>1, <1>11, <2>2, <3>3, <3>4, <3>5, <3>6 DEF Truth
  <2> QED
    BY <2>4, <2>5
<1> QED
  BY <1>9, <1>10, <1>11

\* The four orderings, of numbers.
LEMMA OrderingReadAlike ==
    ASSUME NEW dialect, NEW op, IsOrdering(op), NEW a, NEW v, IsValue(a), IsValue(v),
           OfType("number", a), TestReadAlike(op, "number", a, v), Convert("number", v) # Raised,
           NEW x, x = Convert("number", v)
    PROVE  (IF IsSql(dialect) THEN SqlTest(dialect, WhereOp[op], a, x) ELSE MongoTest(WhereOp[op], a, x))
               = Filter(op, a, v)
<1>1. /\ a # None /\ v # None /\ ~IsEmpty(v) /\ ~HalfRead(a, v)
      /\ v.k \in Scalars \cup {"none", "float"} /\ PlainForm(v)
  BY DEF TestReadAlike, IsOrdering
<1>2. a.k = "num" /\ NumberOf(a) = a.n
  BY <1>1 DEF OfType, NumberOf
<1>3. /\ v.k \in {"num", "str", "float"} /\ (v.k = "str" => IsNumber(v.t))
      /\ x.k = "num" /\ x.n = NumberOf(v)
  <2>1. v.k # "list"
    BY <1>1 DEF Scalars
  <2>2. v.k \in {"num", "str", "float"} /\ (v.k = "str" => IsNumber(v.t))
    BY <1>1, <2>1, NumberConverted
  <2>3. x.k = "num" /\ x.n = NumberOf(v)
    BY <1>1, <2>1, <2>2, NumberConverted DEF NumberOf
  <2> QED
    BY <2>2, <2>3
<1>4. ReadAsNumbers(a, v)
  BY <1>1, <1>2, <1>3 DEF ReadAsNumbers, HalfRead
<1>5. x # None /\ x.k # "list"
  <2>1. None.k = "none"
    BY DEF None
  <2> QED
    BY <1>3, <2>1
<1>6. Raised \notin {a, v}
  BY ValuesAreNotRaised
<1>7. CASE op = "less"
  <2>1. Filter(op, a, v) = Truth(a.n < x.n)
    BY <1>1, <1>2, <1>3, <1>4, <1>6, <1>7 DEF Filter, Less, Ordered
  <2>2. WhereOp[op] = "<"
    BY <1>7 DEF WhereOp
  <2> QED
    BY <1>2, <1>3, <1>5, <2>1, <2>2 DEF SqlTest, MongoTest, Compares, Truth
<1>8. CASE op = "less-equals"
  <2>1. Filter(op, a, v) = Truth(a.n <= x.n)
    BY <1>1, <1>2, <1>3, <1>4, <1>6, <1>8 DEF Filter, LessEquals, Ordered
  <2>2. WhereOp[op] = "<="
    BY <1>8 DEF WhereOp
  <2> QED
    BY <1>2, <1>3, <1>5, <2>1, <2>2 DEF SqlTest, MongoTest, Compares, Truth
<1>9. CASE op = "more"
  <2>1. Filter(op, a, v) = Truth(a.n > x.n)
    BY <1>1, <1>2, <1>3, <1>4, <1>6, <1>9 DEF Filter, More, Ordered
  <2>2. WhereOp[op] = ">"
    BY <1>9 DEF WhereOp
  <2> QED
    BY <1>2, <1>3, <1>5, <2>1, <2>2 DEF SqlTest, MongoTest, Compares, Truth
<1>10. CASE op = "more-equals"
  <2>1. Filter(op, a, v) = Truth(a.n >= x.n)
    BY <1>1, <1>2, <1>3, <1>4, <1>6, <1>10 DEF Filter, MoreEquals, Ordered
  <2>2. WhereOp[op] = ">="
    BY <1>10 DEF WhereOp
  <2> QED
    BY <1>2, <1>3, <1>5, <2>1, <2>2 DEF SqlTest, MongoTest, Compares, Truth
<1> QED
  BY <1>7, <1>8, <1>9, <1>10 DEF IsOrdering
\* in and not-in of a list.
LEMMA ListReadAlike ==
    ASSUME NEW dialect, NEW op \in {"in", "not-in"}, NEW type \in {"number", "text"},
           NEW a, NEW v, IsValue(a), IsValue(v), OfType(type, a), TestReadAlike(op, type, a, v),
           Adapted(type, v) # Raised,
           NEW x, x = Adapted(type, v)
    PROVE  (IF IsSql(dialect) THEN SqlTest(dialect, WhereOp[op], a, x) ELSE MongoTest(WhereOp[op], a, x))
               = Filter(op, a, v)
<1> DEFINE s == [i \in DOMAIN v.s |-> Convert(type, v.s[i])]
<1>1. /\ v.k = "list" /\ v = [k |-> "list", s |-> v.s]
      /\ \A i \in DOMAIN v.s :
            IsValue(v.s[i]) /\ v.s[i].k \in Scalars /\ ~IsEmpty(v.s[i]) /\ PlainForm(v.s[i])
  BY EmptyKinds DEF TestReadAlike, IsValue
<1>2. x = [v EXCEPT !.s = s] /\ Raised \notin Range(s)
  BY <1>1 DEF Adapted
<1>3. x.k = "list" /\ x.s = s
  BY <1>1, <1>2
<1>4. \A i \in DOMAIN v.s : s[i] # Raised /\ s[i] # None
  <2> SUFFICES ASSUME NEW i \in DOMAIN v.s PROVE s[i] # Raised /\ s[i] # None
    OBVIOUS
  <2>1. s[i] # Raised
    BY <1>2 DEF Range
  <2>2. Convert(type, v.s[i]) # Raised /\ v.s[i].k \in Scalars \cup {"none", "float"}
    BY <1>1, <2>1
  <2>3. Convert(type, v.s[i]) = None <=> IsEmpty(v.s[i])
    BY <1>1, <2>2, OneValueAdapted
  <2> QED
    BY <1>1, <2>1, <2>3
<1>5. ASSUME a # None, NEW i \in DOMAIN v.s
      PROVE  Same(a, s[i]) <=> TextOf(a) = TextOf(v.s[i])
  <2>1. Convert(type, v.s[i]) # Raised /\ s[i] = Convert(type, v.s[i])
    BY <1>4
  <2>2. Equals(a, v.s[i]) = Truth(Same(a, s[i]))
    BY <1>1, <1>5, <2>1, SameMeansEquals
  <2>3. a.k \in Scalars /\ a.k # "float" /\ v.s[i].k # "float" /\ v.s[i].k \in Scalars
    BY <1>1, <1>5 DEF OfType, Scalars
  <2>4. Equals(a, v.s[i]) = "true" <=> TextOf(a) = TextOf(v.s[i])
    BY <1>1, <2>3, EqualsAmountsTo
  <2> QED
    BY <2>2, <2>4 DEF Truth
<1>6. DOMAIN s = DOMAIN v.s
  OBVIOUS
<1>7. a # None => (IsOneOf(a, s) <=> TextOf(a) \in Options(v))
  <2> HIDE DEF s
  <2>1. Options(v) = {TextOf(v.s[i]) : i \in DOMAIN v.s}
    BY <1>1 DEF Options
  <2> QED
    BY <1>5, <1>6, <2>1 DEF IsOneOf
<1>8. None \notin Range(s)
  BY <1>4, <1>6 DEF Range
<1>9. a = None => ~IsOneOf(a, s)
  <2>1. None.k = "none"
    BY DEF None
  <2> HIDE DEF s
  <2> QED
    BY <1>4, <1>6, <2>1 DEF IsOneOf, Same
<1>10. a # None => a.k \in {"str", "num"}
  BY DEF OfType
<1>11. v # None /\ ~IsEmpty(v)
  BY <1>1, EmptyKinds
<1>12. Filter("in", a, v) = In(a, v) /\ Filter("not-in", a, v) = NotIn(a, v)
  BY ValuesAreNotRaised DEF Filter
<1> HIDE DEF s
<1>13. CASE op = "in"
  <2>1. WhereOp[op] = "in"
    BY <1>13 DEF WhereOp
  <2>2. SqlTest(dialect, WhereOp[op], a, x) = Truth(a # None /\ IsOneOf(a, s))
    BY <1>3, <2>1 DEF SqlTest
  <2>3. MongoTest(WhereOp[op], a, x) = Truth(IsOneOf(a, s))
    BY <1>3, <2>1 DEF MongoTest, Truth
  <2> QED
    BY <1>7, <1>9, <1>10, <1>11, <1>12, <1>13, <2>2, <2>3 DEF In, Truth
<1>14. CASE op = "not-in"
  <2>1. WhereOp[op] = "not-in" /\ a # None
    BY <1>14 DEF WhereOp, TestReadAlike
  <2>2. SqlTest(dialect, WhereOp[op], a, x) = Truth(~IsOneOf(a, s))
    BY <1>3, <1>8, <2>1 DEF SqlTest, Truth
  <2>3. MongoTest(WhereOp[op], a, x) = Truth(~IsOneOf(a, s))
    BY <1>3, <2>1 DEF MongoTest, Truth
  <2> QED
    BY <1>7, <1>10, <1>11, <1>12, <1>14, <2>1, <2>2, <2>3 DEF NotIn, Truth
<1> QED
  BY <1>13, <1>14

\* "by" is a query of a store and "on" a comparison in memory, written apart.  A test of a
\* column with any value is refused, or finds a row exactly if the comparison holds in
\* memory of what the row holds, in MySQL, Oracle and Mongo, where they are read alike.
THEOREM TestMeansComparison ==
    ASSUME NEW dialect \in Dialects, NEW op, NEW type \in {"number", "text"}, NEW name,
           NEW row, NEW v, IsValue(row[name]), IsValue(v), OfType(type, row[name]),
           TestReadAlike(op, type, row[name], v)
    PROVE  MeetsTest(dialect, WhereTest(op, name, type, v), row)
               \in {Raises, Filter(op, Convert(type, row[name]), v)}
<1> DEFINE a == row[name]
           w == Adapted(type, v)
           x == IF op = "empty" THEN None ELSE w
           where == [k |-> "where", is |-> "test", col |-> name, op |-> WhereOp[op], v |-> x]
<1>1. Convert(type, a) = a
  <2>1. a = None => IsEmpty(a)
    BY DEF IsEmpty
  <2>2. CASE a = None
    BY <2>1, <2>2, ValuesAreNotRaised DEF Convert
  <2>3. CASE a # None /\ type = "number"
    <3>1. a.k = "num" /\ ~IsEmpty(a)
      BY <2>3, EmptyKinds DEF OfType
    <3> QED
      BY <2>3, <3>1, ValuesAreNotRaised DEF Convert
  <2>4. CASE a # None /\ type = "text"
    <3>1. a.k = "str" /\ ~IsEmpty(a) /\ a = Str(a.t)
      BY <2>4 DEF OfType, IsValue
    <3> QED
      BY <2>4, <3>1, TextConverted DEF TextOf
  <2> QED
    BY <2>2, <2>3, <2>4
<1>2. CASE op \notin DOMAIN WhereOp \/ w = Raised
  BY <1>2 DEF WhereTest, MeetsTest
<1>3. CASE op \in DOMAIN WhereOp /\ w # Raised
  <2>1. WhereTest(op, name, type, v) = where
    BY <1>3 DEF WhereTest
  <2>2. where # Raised
    <3>1. where.k = "where" /\ Raised.k = "raises"
      BY DEF Raised
    <3> QED
      BY <3>1
  <2>3. MeetsTest(dialect, where, row) =
            IF IsSql(dialect) THEN SqlTest(dialect, WhereOp[op], a, x) ELSE MongoTest(WhereOp[op], a, x)
    BY <2>2 DEF MeetsTest
  <2>4. op \in {"in", "not-in"} \/ op \in {"equals", "not-equals", "empty"} \/ IsOrdering(op)
    BY <1>3 DEF WhereOp, IsOrdering
  <2>5. CASE op \in {"in", "not-in"}
    <3>1. x = w
      BY <2>5
    <3> QED
      BY <1>1, <1>3, <2>1, <2>3, <2>5, <3>1, ListReadAlike
  <2>6. CASE op \notin {"in", "not-in"}
    <3>1. v.k # "list"
      BY <2>6 DEF TestReadAlike, Scalars
    <3>2. w = Convert(type, v)
      BY <3>1 DEF Adapted
    <3>3. CASE op \in {"equals", "not-equals", "empty"}
      BY <1>1, <1>3, <2>1, <2>3, <3>2, <3>3, EqualityReadAlike
    <3>4. CASE IsOrdering(op)
      <4>1. type = "number" /\ x = w
        BY <3>4 DEF TestReadAlike, IsOrdering
      <4> QED
        BY <1>1, <1>3, <2>1, <2>3, <3>2, <3>4, <4>1, OrderingReadAlike
    <3> QED
      BY <2>4, <2>6, <3>3, <3>4
  <2> QED
    BY <2>5, <2>6
<1> QED
  BY <1>2, <1>3
==============================================================================
