------------------------- MODULE PipelineRun_proofs -------------------------
(***************************************************************************)
(* Proofs about PipelineRun, for any pipelines, any programs and any       *)
(* number of pushes, faults and crashes.                                   *)
(***************************************************************************)
EXTENDS PipelineRun, FiniteSetTheorems, SequenceTheorems, WellFoundedInduction, TLAPS

-----------------------------------------------------------------------------
(* Types.                                                                  *)

Kinds == {"insert", "update"}
Place == Nat \X Nat \X Nat \X Nat \X Nat
Event == [topic: STRING, type: Kinds, pk: Nat, new: SUBSET Nat, old: Nat]
Call  == [pipeline: Pipelines, event: Event, at: Place]
Row   == [topic: STRING, type: Kinds, pk: Nat, by: Int]
Run   == [pipeline: Pipelines, event: Event, parent: Nat, status: Statuses,
          log: {"none", "queued", "stored", "lost"}, at: Place]
Fram  == [run: Nat, step: {"stages", "cascade"}, writes: SUBSET Nat, queue: SUBSET Call]
Task  == [kind: {"pipelines", "monitor"}, id: Nat]

\* The types of the variables, and the range of what names a write or a run.
Types ==
    /\ program \in Programs
    /\ stored \in Seq(Row)
    /\ runs \in Seq(Run)
    /\ stack \in Seq(Fram)
    /\ ready \in Seq(Task)
    /\ pushes \in 0..MaxPushes /\ faults \in 0..MaxFaults /\ crashes \in 0..MaxCrashes

Ranges ==
    /\ \A n \in DOMAIN stored : stored[n].by \in Runs \cup {0, -1}
    /\ \A r \in Runs : runs[r].event.new \subseteq DOMAIN stored /\ runs[r].parent < r
    /\ \A i \in DOMAIN stack :
          /\ stack[i].run \in Runs \cup {0}
          /\ stack[i].writes \subseteq DOMAIN stored
          /\ \A c \in stack[i].queue : c.event.new \subseteq DOMAIN stored
    /\ \A i \in DOMAIN ready :
          /\ ready[i].kind = "pipelines" => ready[i].id \in DOMAIN stored
          /\ ready[i].kind = "monitor" => ready[i].id \in Runs

\* The frames are those of the runs in progress, and of the task at the bottom, each
\* called by the one below it.  Only the innermost can be in its stages.
Frames ==
    /\ \A i \in DOMAIN stack :
          /\ i = Len(stack) => stack[i].run = 0
          /\ i # Len(stack) => /\ stack[i].run \in Runs
                              /\ runs[stack[i].run].status = "running"
                              /\ runs[stack[i].run].parent = stack[i + 1].run
          /\ stack[i].step = "stages" => i = 1 /\ stack[i].run # 0
    /\ \A i, j \in DOMAIN stack : i < j => stack[i].run > stack[j].run
    /\ \A r \in Runs : runs[r].status = "running" =>
          \E i \in DOMAIN stack : stack[i].run = r

Base == Types /\ Ranges /\ Frames

\* What a run has written is what its frame says, all of it once it cascades; it has
\* triggered nothing before.
Writing ==
    /\ \A i \in DOMAIN stack : LET r == stack[i].run IN
          /\ stack[i].writes = IF r = 0 THEN {} ELSE WritesOf(r)
          /\ r # 0 /\ stack[i].step = "cascade" => AllWritten(r)
          /\ stack[i].step = "stages" => Children(r) = {}
    /\ CascadeSeesAllWrites

\* The tasks that wait to store a log are those of the runs whose log is queued, one
\* each, the child before the parent.
IsLog(i) == i \in DOMAIN ready /\ ready[i].kind = "monitor"
Logging ==
    /\ \A r \in Runs : runs[r].status = "running" => runs[r].log = "none"
    /\ \A r \in Runs : runs[r].log = "queued" => \E i \in DOMAIN ready : IsLog(i) /\ ready[i].id = r
    /\ \A i \in DOMAIN ready : IsLog(i) => runs[ready[i].id].log = "queued"
    /\ \A i, j \in DOMAIN ready : IsLog(i) /\ IsLog(j) =>
          /\ ready[i].id = ready[j].id => i = j
          /\ runs[ready[i].id].parent = ready[j].id => i < j
    /\ LogsComeChildrenFirst

\* Runs on system topics have neither logs nor children.
SystemRuns ==
    /\ \A r \in Runs : IsSystem(runs[r].pipeline) => Children(r) = {} /\ runs[r].log = "none"
    /\ \A i \in DOMAIN stack :
          stack[i].run # 0 /\ IsSystem(runs[stack[i].run].pipeline) => stack[i].queue = {}

\* The rows of the monitor are those of the runs whose log is stored, one each.
LogRows ==
    /\ \A n \in DOMAIN stored : stored[n].by = -1 =>
          stored[n].pk \in Runs /\ runs[stored[n].pk].log = "stored"
    /\ \A r \in Runs : runs[r].log = "stored" =>
          \E n \in DOMAIN stored : stored[n].by = -1 /\ stored[n].pk = r
    /\ \A m, n \in DOMAIN stored :
          stored[m].by = -1 /\ stored[n].by = -1 /\ stored[m].pk = stored[n].pk => m = n

Quiet == SystemRuns /\ LogRows

\* A run that called one that raised is an ERROR, and that was its last call.
Raising ==
    \A r \in Runs : \A d \in Children(r) : runs[d].status = "raised" =>
        /\ runs[r].status = "ERROR"
        /\ \A c \in Children(r) : c <= d

\* The rows lost were stored.
LostRows == lost \subseteq DOMAIN stored

\* A failure ends at most one run with ERROR.
Errors == {r \in Runs : runs[r].status = "ERROR"}
Counting == Cardinality(Errors) <= faults

\* The calls a run has made and those its frame has still to make are the calls of its
\* cascade, and they are made in order.
CallOf(c) == [pipeline |-> runs[c].pipeline, event |-> runs[c].event, at |-> runs[c].at]
Made(r)   == {CallOf(c) : c \in Children(r)}
InOrder(r) == \A c, d \in Children(r) : c < d => Before(runs[c].at, runs[d].at)
Pending(r, queue) ==
    /\ Made(r) \cup queue = Cascade(WritesOf(r))
    /\ \A c \in Children(r), d \in queue : Before(runs[c].at, d.at)
Cascades ==
    /\ \A i \in DOMAIN stack : LET r == stack[i].run IN
          r # 0 /\ stack[i].step = "cascade" /\ ~IsSystem(runs[r].pipeline) =>
             Pending(r, stack[i].queue)
    /\ \A r \in Runs : InOrder(r)
    /\ \A r \in Runs : runs[r].status = "FINISHED" /\ ~IsSystem(runs[r].pipeline) => Pending(r, {})

LEMMA PipelinesAreNat == Pipelines = 1..Len(PipelineList) /\ Len(PipelineList) \in Nat
  BY ConstantsAssumption DEF Pipelines

\* The calls an event makes.
LEMMA MatchingTyped ==
  ASSUME NEW e \in Event, NEW t \in Nat, NEW k \in Nat, NEW i \in Nat, NEW j \in Nat
  PROVE  /\ Matching(e, t, k, i, j) \subseteq Call
         /\ \A c \in Matching(e, t, k, i, j) : c.event = e
<1> SUFFICES ASSUME NEW q \in Pipelines
             PROVE  [pipeline |-> q, event |-> e, at |-> <<t, k, i, j, q>>] \in Call
  BY DEF Matching
<1> QED
  BY PipelinesAreNat DEF Call, Place

\* The calls of a task are about its row.
LEMMA TaskCallsTyped ==
  ASSUME NEW topic \in STRING, NEW pk \in Nat, NEW n \in Nat
  PROVE  /\ TaskCalls(topic, pk, n) \subseteq Call
         /\ \A c \in TaskCalls(topic, pk, n) : c.event.new = {n}
<1>1. InsertOf(topic, pk, n) \in Event /\ InsertOf(topic, pk, n).new = {n}
  BY DEF InsertOf, Event, Kinds
<1> QED
  BY <1>1, MatchingTyped DEF TaskCalls

\* The calls of a cascade are about writes of the run.
LEMMA CascadeTyped ==
  ASSUME stored \in Seq(Row), NEW W, W \subseteq DOMAIN stored
  PROVE  /\ Cascade(W) \subseteq Call
         /\ \A c \in Cascade(W) : c.event.new \subseteq W
<1>0. \A n \in W : n \in Nat /\ stored[n] \in Row
  OBVIOUS
<1>1. ASSUME NEW i \in W, NEW j \in W
      PROVE  /\ MergedUpdate(W, i, j) \in Event
             /\ MergedUpdate(W, i, j).new \subseteq W
  <2>1. {m \in OfType(W, "update") : m <= i /\ SameRow(m, j)} \in SUBSET Nat
    BY <1>0 DEF OfType
  <2>2. {m \in OfType(W, "update") : m <= i /\ SameRow(m, j)} \subseteq W
    BY DEF OfType
  <2> QED
    BY <1>0, <2>1, <2>2 DEF MergedUpdate, Event, Row, Kinds
<1>2. ASSUME NEW t \in W, NEW c \in UpdateCalls(W, t)
      PROVE  c \in Call /\ c.event.new \subseteq W
  <2>1. PICK i \in OfType(W, "update"), j \in OfType(W, "update") :
             c \in Matching(MergedUpdate(W, i, j), t, 0, i, j)
    BY <1>2 DEF UpdateCalls, UpdateEvents
  <2>2. i \in W /\ j \in W /\ t \in Nat /\ i \in Nat /\ j \in Nat
    BY <1>0 DEF OfType
  <2>3. /\ MergedUpdate(W, i, j) \in Event
        /\ MergedUpdate(W, i, j).new \subseteq W
    BY <1>1, <2>2
  <2>4. c \in Call /\ c.event = MergedUpdate(W, i, j)
    BY <2>1, <2>2, <2>3, MatchingTyped
  <2> QED
    BY <2>3, <2>4
<1>3. ASSUME NEW t \in W, NEW c \in InsertCalls(W, t)
      PROVE  c \in Call /\ c.event.new \subseteq W
  <2>1. PICK n \in OfType(W, "insert") :
             c \in Matching(InsertOf(stored[n].topic, stored[n].pk, n), t, 1, n, n)
    BY <1>3 DEF InsertCalls, InsertEvents
  <2>2. n \in W
    BY DEF OfType
  <2>3. /\ InsertOf(stored[n].topic, stored[n].pk, n) \in Event
        /\ InsertOf(stored[n].topic, stored[n].pk, n).new = {n}
    BY <1>0, <2>2 DEF InsertOf, Event, Row, Kinds
  <2> QED
    BY <1>0, <2>1, <2>2, <2>3, MatchingTyped
<1> QED
  BY <1>2, <1>3 DEF Cascade

-----------------------------------------------------------------------------
(* Sequences: a frame put on the stack, taken from it, replaced.           *)

LEMMA TailFacts ==
  ASSUME NEW S, NEW s \in Seq(S), s # <<>>
  PROVE  /\ Head(s) = s[1] /\ s[1] \in S /\ Len(s) \in Nat /\ Len(s) >= 1
         /\ Tail(s) \in Seq(S) /\ Len(Tail(s)) = Len(s) - 1
         /\ \A i \in 1..(Len(s) - 1) : Tail(s)[i] = s[i + 1]
  OBVIOUS

LEMMA ConsFacts ==
  ASSUME NEW S, NEW s \in Seq(S), NEW x \in S
  PROVE  /\ <<x>> \o s \in Seq(S) /\ Len(<<x>> \o s) = Len(s) + 1
         /\ (<<x>> \o s)[1] = x
         /\ \A i \in 1..Len(s) : (<<x>> \o s)[i + 1] = s[i]
  OBVIOUS

LEMMA AppendFacts ==
  ASSUME NEW S, NEW s \in Seq(S), NEW x \in S
  PROVE  /\ Append(s, x) \in Seq(S) /\ Len(Append(s, x)) = Len(s) + 1
         /\ Len(s) \in Nat
         /\ DOMAIN s = 1..Len(s) /\ DOMAIN Append(s, x) = 1..(Len(s) + 1)
         /\ Append(s, x)[Len(s) + 1] = x
         /\ \A i \in 1..Len(s) : Append(s, x)[i] = s[i]
  OBVIOUS

LEMMA ReplaceFacts ==
  ASSUME NEW S, NEW s \in Seq(S), NEW i \in DOMAIN s, NEW x \in S
  PROVE  /\ [s EXCEPT ![i] = x] \in Seq(S) /\ Len([s EXCEPT ![i] = x]) = Len(s)
         /\ DOMAIN [s EXCEPT ![i] = x] = DOMAIN s
  OBVIOUS

LEMMA ElementFacts ==
  ASSUME NEW S, NEW s \in Seq(S), NEW i \in DOMAIN s
  PROVE  s[i] \in S
  OBVIOUS

\* The innermost frame, and a call it makes.
LEMMA TopFacts ==
  ASSUME Types, stack # <<>>
  PROVE  /\ Top = stack[1] /\ Top \in Fram /\ 1 \in DOMAIN stack
         /\ Len(stack) \in Nat /\ DOMAIN stack = 1..Len(stack)
         /\ Tail(stack) \in Seq(Fram)
  BY TailFacts DEF Types, Top

LEMMA CallFacts ==
  ASSUME Types, NEW c, Calling(c)
  PROVE  /\ stack # <<>> /\ Top.step = "cascade"
         /\ c \in Top.queue /\ c \in Call
         /\ Called(c) \in Seq(Fram) /\ Len(Called(c)) = Len(stack)
         /\ Called(c)[1] = [stack[1] EXCEPT !.queue = @ \ {c}]
         /\ \A i \in DOMAIN stack : i # 1 => Called(c)[i] = stack[i]
         /\ \A status \in Statuses : NewRun(c, status) \in Run
<1>1. stack # <<>> /\ Top.step = "cascade" /\ c \in Top.queue
  BY DEF Calling, Cascading
<1>2. c \in Call /\ Top \in Fram /\ Top = stack[1] /\ 1 \in DOMAIN stack
  BY <1>1, TopFacts DEF Fram
<1>3. [stack[1] EXCEPT !.queue = @ \ {c}] \in Fram
  BY <1>2 DEF Fram
<1>4. Called(c) = [stack EXCEPT ![1] = [stack[1] EXCEPT !.queue = @ \ {c}]]
  BY DEF Called
<1>5. \A status \in Statuses : NewRun(c, status) \in Run
  BY <1>2 DEF NewRun, Run, Fram, Call
<1> QED
  BY <1>1, <1>2, <1>3, <1>4, <1>5 DEF Types

\* A run gets a status and a log.
LEMMA SetRunFacts ==
  ASSUME Types, NEW r \in Runs, NEW status \in Statuses,
         NEW log \in {"none", "queued", "stored", "lost"}
  PROVE  /\ [runs[r] EXCEPT !.status = status, !.log = log] \in Run
         /\ [runs[r] EXCEPT !.log = log] \in Run
         /\ r \in Nat /\ DOMAIN runs = 1..Len(runs) /\ Len(runs) \in Nat
         /\ r \in DOMAIN runs /\ runs \in Seq(Run)
<1>1. runs[r] \in Run /\ r \in Nat /\ r \in DOMAIN runs /\ runs \in Seq(Run)
  BY DEF Types, Runs
<1>2. /\ [runs[r] EXCEPT !.status = status, !.log = log] \in Run
      /\ [runs[r] EXCEPT !.log = log] \in Run
  BY <1>1 DEF Run
<1> QED
  BY <1>1, <1>2

\* What a run's end leaves of the runs and the tasks.
LEMMA FinallyFacts ==
  ASSUME Types, NEW r \in Runs, NEW status \in Statuses, Finally(r, status)
  PROVE  /\ runs' \in Seq(Run) /\ DOMAIN runs' = Runs /\ Len(runs') = Len(runs)
         /\ \E log \in {"none", "queued"} :
               /\ runs'[r] = [runs[r] EXCEPT !.status = status, !.log = log]
               /\ log = "queued" => /\ ~IsSystem(runs[r].pipeline)
                                    /\ ready' = Append(ready, [kind |-> "monitor", id |-> r])
               /\ log = "none" => ready' = ready
         /\ \A x \in Runs : x # r => runs'[x] = runs[x]
         /\ ready' \in Seq(Task)
<1> DEFINE log == IF MonitorOn /\ ~IsSystem(runs[r].pipeline) THEN "queued" ELSE "none"
<1>1. runs' = [runs EXCEPT ![r] = [runs[r] EXCEPT !.status = status, !.log = log]]
  BY DEF Finally
<1>2. log \in {"none", "queued"} /\ log \in {"none", "queued", "stored", "lost"}
  OBVIOUS
<1>3. [kind |-> "monitor", id |-> r] \in Task
  BY SetRunFacts DEF Task
<1>4. /\ log = "queued" => /\ ~IsSystem(runs[r].pipeline)
                           /\ ready' = Append(ready, [kind |-> "monitor", id |-> r])
      /\ log = "none" => ready' = ready
  BY DEF Finally
<1>5. ready' \in Seq(Task)
  BY <1>3 DEF Finally, Types
<1> HIDE DEF log
<1>6. /\ runs' = [runs EXCEPT ![r] = [runs[r] EXCEPT !.status = status, !.log = log]]
      /\ [runs[r] EXCEPT !.status = status, !.log = log] \in Run
      /\ r \in DOMAIN runs /\ runs \in Seq(Run)
  BY <1>1, <1>2, SetRunFacts
<1>7. /\ runs' \in Seq(Run) /\ DOMAIN runs' = DOMAIN runs /\ Len(runs') = Len(runs)
      /\ runs'[r] = [runs[r] EXCEPT !.status = status, !.log = log]
      /\ \A x \in DOMAIN runs : x # r => runs'[x] = runs[x]
  BY <1>6
<1> QED
  BY <1>2, <1>4, <1>5, <1>7 DEF Runs

\* The run that called c ends with it.
LEMMA RaiseInRunFacts ==
  ASSUME Base, NEW c, RaiseInRun(c)
  PROVE  /\ Top.run \in Runs /\ Top = stack[1]
         /\ runs' \in Seq(Run) /\ Len(runs') = Len(runs) + 1
         /\ DOMAIN runs' = 1..(Len(runs) + 1) /\ Runs = 1..Len(runs) /\ Len(runs) \in Nat
         /\ runs'[Len(runs) + 1] = NewRun(c, "raised")
         /\ \E log \in {"none", "queued"} :
               /\ runs'[Top.run] = [runs[Top.run] EXCEPT !.status = "ERROR", !.log = log]
               /\ log = "queued" =>
                     /\ ~IsSystem(runs[Top.run].pipeline)
                     /\ ready' = Append(ready, [kind |-> "monitor", id |-> Top.run])
               /\ log = "none" => ready' = ready
         /\ \A x \in Runs : x # Top.run => runs'[x] = runs[x]
         /\ ready' \in Seq(Task)
<1> DEFINE r   == Top.run
           log == IF MonitorOn /\ ~IsSystem(runs[r].pipeline) THEN "queued" ELSE "none"
           q   == [runs EXCEPT ![r] = [runs[r] EXCEPT !.status = "ERROR", !.log = log]]
<1> USE DEF Base
<1>1. NewRun(c, "raised") \in Run /\ stack # <<>> /\ r # 0
  BY CallFacts DEF RaiseInRun, Statuses
<1>2. Top = stack[1] /\ 1 \in DOMAIN stack
  BY <1>1, TopFacts
<1>3. r \in Runs
  BY <1>1, <1>2 DEF Ranges
<1>4. log \in {"none", "queued"} /\ log \in {"none", "queued", "stored", "lost"}
  OBVIOUS
<1>5. /\ log = "queued" => /\ ~IsSystem(runs[r].pipeline)
                           /\ ready' = Append(ready, [kind |-> "monitor", id |-> r])
      /\ log = "none" => ready' = ready
  BY DEF RaiseInRun
<1>6. r \in Nat /\ [kind |-> "monitor", id |-> r] \in Task
  <2>1. r \in Nat
    BY <1>3 DEF Types, Runs
  <2> QED
    BY <2>1 DEF Task
<1>7. ready' \in Seq(Task)
  BY <1>6 DEF RaiseInRun, Types
<1>8. runs' = Append(q, NewRun(c, "raised"))
  BY DEF RaiseInRun
<1>9. "ERROR" \in Statuses
  BY DEF Statuses
<1> HIDE DEF log
<1>10. /\ runs' = Append(q, NewRun(c, "raised"))
       /\ [runs[r] EXCEPT !.status = "ERROR", !.log = log] \in Run
       /\ r \in DOMAIN runs /\ runs \in Seq(Run)
  BY <1>3, <1>4, <1>8, <1>9, SetRunFacts
<1>11. /\ q \in Seq(Run) /\ DOMAIN q = DOMAIN runs /\ Len(q) = Len(runs)
       /\ q[r] = [runs[r] EXCEPT !.status = "ERROR", !.log = log]
       /\ \A x \in DOMAIN runs : x # r => q[x] = runs[x]
  BY <1>10
<1> HIDE DEF q
<1>12. /\ runs' \in Seq(Run) /\ Len(runs') = Len(runs) + 1 /\ Len(runs) \in Nat
       /\ DOMAIN runs' = 1..(Len(runs) + 1) /\ DOMAIN runs = 1..Len(runs)
       /\ runs'[Len(runs) + 1] = NewRun(c, "raised")
       /\ \A x \in DOMAIN runs : runs'[x] = q[x]
  BY <1>1, <1>10, <1>11, AppendFacts
<1> QED
  BY <1>2, <1>3, <1>4, <1>5, <1>7, <1>11, <1>12 DEF Runs

\* A run in its stages, and what it writes next.
LEMMA StagesFacts ==
  ASSUME Base, stack # <<>>, Top.step = "stages"
  PROVE  /\ Top = stack[1] /\ Top \in Fram /\ Top.run \in Runs /\ Top.run # 0
         /\ runs[Top.run] \in Run /\ runs[Top.run].pipeline \in Pipelines
         /\ runs[Top.run].status = "running"
<1>1. Top = stack[1] /\ Top \in Fram /\ 1 \in DOMAIN stack
  BY TopFacts DEF Base
<1>2. Top.run # 0 /\ Top.run \in Runs
  BY <1>1 DEF Base, Frames, Ranges
<1>3. runs[Top.run].status = "running"
  BY <1>1, <1>2 DEF Base, Frames
<1>4. runs[Top.run] \in Run
  BY <1>2 DEF Base, Types, Runs
<1> QED
  BY <1>1, <1>2, <1>3, <1>4 DEF Run

LEMMA WriteFacts ==
  ASSUME Base, Write
  PROVE  \E row \in Row : row.by = Top.run /\ stored' = Append(stored, row)
<1> DEFINE todo == program[runs[Top.run].pipeline]
           at == Cardinality(Top.writes) + 1
<1>1. /\ stack # <<>> /\ Top.step = "stages" /\ at \in DOMAIN todo
      /\ Store(todo[at].topic, todo[at].type, todo[at].pk, Top.run)
  BY DEF Write
<1>2. Top.run \in Nat /\ runs[Top.run].pipeline \in Pipelines
  BY <1>1, StagesFacts DEF Fram
<1>3. todo \in Seq([topic: STRING, type: {"insert", "update"}, pk: Nat])
  BY <1>2, ConstantsAssumption DEF Base, Types
<1> HIDE DEF todo, at
<1>4. todo[at] \in [topic: STRING, type: {"insert", "update"}, pk: Nat]
  BY <1>1, <1>3, ElementFacts
<1> DEFINE row == [topic |-> todo[at].topic, type |-> todo[at].type, pk |-> todo[at].pk, by |-> Top.run]
<1>5. row \in Row /\ row.by = Top.run
  BY <1>2, <1>4 DEF Row, Kinds
<1> QED
  BY <1>1, <1>5 DEF Store

LEMMA TypesInit == Init => Types
  BY ConstantsAssumption DEF Init, Types

\* Every step keeps the types.
LEMMA TypesStep ==
  ASSUME Base, [Next]_vars
  PROVE  Types'
<1> USE DEF Base
<1>1. CASE UNCHANGED vars
  BY <1>1 DEF Types, vars
<1>2. ASSUME NEW topic \in STRING, NEW pk \in Nat, NEW n \in Nat
      PROVE  <<Frame(0, "cascade", TaskCalls(topic, pk, n))>> \in Seq(Fram)
  <2>1. Frame(0, "cascade", TaskCalls(topic, pk, n)) \in Fram
    BY TaskCallsTyped DEF Frame, Fram
  <2> QED
    BY <2>1
<1>3. ASSUME NEW topic \in STRING, NEW type \in Kinds, NEW pk \in Nat, NEW by \in Int,
             Store(topic, type, pk, by)
      PROVE  stored' \in Seq(Row) /\ Len(stored') \in Nat
  BY <1>3 DEF Store, Row, Types
<1>4. CASE Push
  <2>1. pushes' \in 0..MaxPushes
    BY <1>4, ConstantsAssumption DEF Push, Types
  <2>2. stored' \in Seq(Row) /\ Len(stored') \in Nat
    BY <1>3, <1>4, <2>1, ConstantsAssumption DEF Push, Kinds
  <2> QED
    BY <1>2, <1>4, <2>1, <2>2, ConstantsAssumption DEF Push, Types
<1>5. CASE PushAsync
  <2>1. pushes' \in 0..MaxPushes
    BY <1>5, ConstantsAssumption DEF PushAsync, Types
  <2>2. stored' \in Seq(Row) /\ Len(stored') \in Nat
    BY <1>3, <1>5, <2>1, ConstantsAssumption DEF PushAsync, Kinds
  <2>3. [kind |-> "pipelines", id |-> Len(stored')] \in Task
    BY <2>2 DEF Task
  <2> QED
    BY <1>5, <2>1, <2>2, <2>3 DEF PushAsync, Types
<1>6. CASE TurnPipelines
  <2>1. Head(ready) = ready[1] /\ 1 \in DOMAIN ready /\ Tail(ready) \in Seq(Task)
    BY <1>6, TailFacts DEF TurnPipelines, Types
  <2>2. ready[1].id \in DOMAIN stored
    BY <1>6, <2>1 DEF TurnPipelines, Ranges
  <2>3. ready[1].id \in Nat /\ stored[ready[1].id] \in Row
    BY <2>2 DEF Types
  <2>4. stored[ready[1].id].pk \in Nat
    BY <2>3 DEF Row
  <2> QED
    BY <1>2, <1>6, <2>1, <2>3, <2>4, ConstantsAssumption DEF TurnPipelines, Types
<1>7. CASE TurnMonitor
  <2>1. Head(ready) = ready[1] /\ 1 \in DOMAIN ready /\ Tail(ready) \in Seq(Task)
    BY <1>7, TailFacts DEF TurnMonitor, Types
  <2>2. ready[1].id \in Runs
    BY <1>7, <2>1 DEF TurnMonitor, Ranges
  <2>3. ready[1].id \in Nat /\ runs[ready[1].id] \in Run
    BY <2>2 DEF Types, Runs
  <2>4. runs' = [runs EXCEPT ![ready[1].id] = [runs[ready[1].id] EXCEPT !.log = "stored"]]
    BY <1>7, <2>1 DEF TurnMonitor
  <2>5. [runs[ready[1].id] EXCEPT !.log = "stored"] \in Run
    BY <2>3 DEF Run
  <2>6. runs' \in Seq(Run)
    BY <2>2, <2>4, <2>5 DEF Types, Runs
  <2>7. stored' \in Seq(Row) /\ Len(stored') \in Nat
    BY <1>3, <1>7, <2>1, <2>3, ConstantsAssumption DEF TurnMonitor, Kinds
  <2> QED
    BY <1>2, <1>7, <2>1, <2>3, <2>6, <2>7, ConstantsAssumption DEF TurnMonitor, Types
<1>8. CASE TurnMonitorRaises
  <2>1. Head(ready) = ready[1] /\ 1 \in DOMAIN ready /\ Tail(ready) \in Seq(Task)
    BY <1>8, TailFacts DEF TurnMonitorRaises, Types
  <2>2. ready[1].id \in Runs
    BY <1>8, <2>1 DEF TurnMonitorRaises, Ranges
  <2>3. ready[1].id \in Nat /\ runs[ready[1].id] \in Run
    BY <2>2 DEF Types, Runs
  <2>4. runs' = [runs EXCEPT ![ready[1].id] = [runs[ready[1].id] EXCEPT !.log = "lost"]]
    BY <1>8, <2>1 DEF TurnMonitorRaises
  <2>5. [runs[ready[1].id] EXCEPT !.log = "lost"] \in Run
    BY <2>3 DEF Run
  <2>6. runs' \in Seq(Run)
    BY <2>2, <2>4, <2>5 DEF Types, Runs
  <2> QED
    BY <1>8, <2>1, <2>6, ConstantsAssumption DEF TurnMonitorRaises, Types
<1>9. ASSUME NEW c, SkipDisabled(c)
      PROVE  Types'
  <2>1. NewRun(c, "skipped") \in Run /\ Called(c) \in Seq(Fram)
    BY <1>9, CallFacts DEF SkipDisabled, Statuses
  <2> QED
    BY <1>9, <2>1 DEF SkipDisabled, Types
<1>10. ASSUME NEW c, SkipCondition(c)
      PROVE  Types'
  <2>1. NewRun(c, "skipped") \in Run /\ Called(c) \in Seq(Fram)
    BY <1>10, CallFacts DEF SkipCondition, Statuses
  <2> QED
    BY <1>10, <2>1, ConstantsAssumption DEF SkipCondition, Types
<1>11. ASSUME NEW c, Enter(c)
       PROVE  Types'
  <2>1. NewRun(c, "running") \in Run /\ Called(c) \in Seq(Fram)
    BY <1>11, CallFacts DEF Enter, Statuses
  <2>2. runs' \in Seq(Run)
    BY <1>11, <2>1 DEF Enter, Types
  <2>3. Frame(Len(runs'), "stages", {}) \in Fram
    BY <2>2 DEF Frame, Fram
  <2>4. stack' \in Seq(Fram)
    BY <1>11, <2>1, <2>3, ConsFacts DEF Enter
  <2> QED
    BY <1>11, <2>2, <2>4 DEF Enter, Types
<1>12. ASSUME NEW c, RaiseInTask(c)
       PROVE  Types'
  <2>1. NewRun(c, "raised") \in Run
    BY <1>12, CallFacts DEF RaiseInTask, Statuses
  <2> QED
    BY <1>12, <2>1, ConstantsAssumption DEF RaiseInTask, Types
<1>13. ASSUME NEW c, RaiseInRun(c)
       PROVE  Types'
  <2>1. Tail(stack) \in Seq(Fram)
    BY <1>13, CallFacts, TopFacts DEF RaiseInRun
  <2>2. runs' \in Seq(Run) /\ ready' \in Seq(Task)
    BY <1>13, RaiseInRunFacts
  <2>3. /\ stack' = Tail(stack) /\ faults' \in 0..MaxFaults
        /\ UNCHANGED <<program, stored, pushes, crashes>>
    BY <1>13, ConstantsAssumption DEF RaiseInRun, Types
  <2> QED
    BY <2>1, <2>2, <2>3 DEF Types
<1>14. CASE Write
  <2>1. stack # <<>>
    BY <1>14 DEF Write
  <2>2. Top = stack[1] /\ 1 \in DOMAIN stack /\ Top \in Fram /\ Top.run \in Nat
    BY <2>1, TopFacts DEF Fram
  <2>3. PICK row \in Row : stored' = Append(stored, row)
    BY <1>14, WriteFacts
  <2>4. stored' \in Seq(Row) /\ Len(stored') \in Nat
    BY <2>3 DEF Types
  <2>5. [Top EXCEPT !.writes = @ \cup {Len(stored')}] \in Fram
    BY <2>2, <2>4 DEF Fram
  <2>6. stack' = [stack EXCEPT ![1] = [Top EXCEPT !.writes = @ \cup {Len(stored')}]]
    BY <1>14, <2>2 DEF Write
  <2>7. stack' \in Seq(Fram)
    BY <2>2, <2>5, <2>6 DEF Types
  <2> QED
    BY <1>14, <2>4, <2>7 DEF Write, Types
<1>15. CASE WriteRaises
  <2>1. Tail(stack) \in Seq(Fram) /\ Top.run \in Runs
    BY <1>15, TopFacts, StagesFacts DEF WriteRaises
  <2>2. runs' \in Seq(Run) /\ ready' \in Seq(Task)
    BY <1>15, <2>1, FinallyFacts DEF WriteRaises, Statuses
  <2> QED
    BY <1>15, <2>1, <2>2, ConstantsAssumption DEF WriteRaises, Types
<1>16. CASE FinishStages
  <2>1. Top = stack[1] /\ 1 \in DOMAIN stack /\ Top \in Fram
    BY <1>16, TopFacts DEF FinishStages
  <2>2. Cascade(Top.writes) \subseteq Call
    BY <2>1, CascadeTyped DEF Ranges, Types
  <2> DEFINE queue == IF IsSystem(runs[Top.run].pipeline) THEN {} ELSE Cascade(Top.writes)
  <2>3. [Top EXCEPT !.step = "cascade", !.queue = queue] \in Fram
    BY <2>1, <2>2 DEF Fram
  <2>4. stack' = [stack EXCEPT ![1] = [Top EXCEPT !.step = "cascade", !.queue = queue]]
    BY <1>16, <2>1 DEF FinishStages
  <2> HIDE DEF queue
  <2>5. stack' \in Seq(Fram)
    BY <2>1, <2>3, <2>4 DEF Types
  <2> QED
    BY <1>16, <2>5 DEF FinishStages, Types
<1>17. CASE ReturnRun
  <2>1. Tail(stack) \in Seq(Fram) /\ Top.run \in Runs
    BY <1>17, TopFacts DEF ReturnRun, Cascading, Ranges
  <2>2. runs' \in Seq(Run) /\ ready' \in Seq(Task)
    BY <1>17, <2>1, FinallyFacts DEF ReturnRun, Statuses
  <2> QED
    BY <1>17, <2>1, <2>2 DEF ReturnRun, Types
<1>18. CASE ReturnTask
  BY <1>18 DEF ReturnTask, Types
<1>20. CASE LookupRaises
  <2>1. Tail(stack) \in Seq(Fram) /\ Top.run \in Runs
    BY <1>20, TopFacts DEF LookupRaises, Cascading, Ranges
  <2>2. runs' \in Seq(Run) /\ ready' \in Seq(Task)
    BY <1>20, <2>1, FinallyFacts DEF LookupRaises, Statuses
  <2> QED
    BY <1>20, <2>1, <2>2, ConstantsAssumption DEF LookupRaises, Types
<1>21. CASE LookupRaisesInTask
  BY <1>21, ConstantsAssumption DEF LookupRaisesInTask, Types
<1>19. CASE Crash
  <2>1. \A r \in Runs : runs[r] \in Run
    BY DEF Types, Runs
  <2>2. runs' \in [DOMAIN runs -> Run]
    <3> SUFFICES ASSUME NEW r \in Runs
                 PROVE  [runs[r] EXCEPT !.status = IF @ = "running" THEN "lost" ELSE @,
                                        !.log = IF @ = "queued" THEN "lost" ELSE @] \in Run
      BY <1>19 DEF Crash, Runs
    <3> QED
      BY <2>1 DEF Run, Statuses
  <2>3. runs' \in Seq(Run)
    <3>1. DOMAIN runs = 1..Len(runs) /\ Len(runs) \in Nat
      BY DEF Types
    <3> QED
      BY <2>2, <3>1
  <2>4. /\ stack' = <<>> /\ ready' = <<>> /\ crashes < MaxCrashes /\ crashes' = crashes + 1
        /\ UNCHANGED <<program, stored, pushes, faults>>
    BY <1>19 DEF Crash
  <2>5. crashes' \in 0..MaxCrashes
    BY <2>4, ConstantsAssumption DEF Types
  <2> QED
    BY <2>3, <2>4, <2>5 DEF Types
<1> QED
  BY <1>1, <1>4, <1>5, <1>6, <1>7, <1>8, <1>9, <1>10, <1>11, <1>12, <1>13, <1>14, <1>15,
     <1>16, <1>17, <1>18, <1>19, <1>20, <1>21 DEF Next, Engine

-----------------------------------------------------------------------------
(* What the steps do, position by position.                                *)

\* The stack: a task starts, the innermost frame makes a call, is covered by the
\* frame of a run, or is taken away.
StackStarts(n) ==
    /\ stack = <<>> /\ DOMAIN stack = {}
    /\ Len(stack') = 1 /\ DOMAIN stack' = {1}
    /\ stack'[1].run = 0 /\ stack'[1].step = "cascade" /\ stack'[1].writes = {}
    /\ \A c \in stack'[1].queue : c.event.new = {n}

StackMeasured ==
    /\ DOMAIN stack = 1..Len(stack) /\ Len(stack) \in Nat /\ Len(stack) >= 1
    /\ 1 \in DOMAIN stack /\ Top = stack[1]

StackCalls(c) ==
    /\ StackMeasured
    /\ Len(stack') = Len(stack) /\ DOMAIN stack' = DOMAIN stack
    /\ stack'[1].run = stack[1].run /\ stack'[1].step = stack[1].step
    /\ stack'[1].writes = stack[1].writes /\ stack'[1].queue = stack[1].queue \ {c}
    /\ \A i \in DOMAIN stack : i # 1 => stack'[i] = stack[i]

StackEnters(c, r) ==
    /\ StackMeasured
    /\ Len(stack') = Len(stack) + 1 /\ DOMAIN stack' = 1..(Len(stack) + 1)
    /\ stack'[1].run = r /\ stack'[1].step = "stages"
    /\ stack'[1].writes = {} /\ stack'[1].queue = {}
    /\ stack'[2].run = stack[1].run /\ stack'[2].step = stack[1].step
    /\ stack'[2].writes = stack[1].writes /\ stack'[2].queue = stack[1].queue \ {c}
    /\ \A i \in DOMAIN stack : i # 1 => stack'[i + 1] = stack[i]

StackPops ==
    /\ StackMeasured
    /\ Len(stack') = Len(stack) - 1 /\ DOMAIN stack' = 1..(Len(stack) - 1)
    /\ \A i \in DOMAIN stack' : stack'[i] = stack[i + 1]

StackClears == stack' = <<>> /\ DOMAIN stack' = {}

LEMMA StackStartsFacts ==
  ASSUME Base, stack = <<>>, NEW topic \in STRING, NEW pk \in Nat, NEW n \in Nat,
         stack' = <<Frame(0, "cascade", TaskCalls(topic, pk, n))>>
  PROVE  StackStarts(n)
<1>1. \A c \in TaskCalls(topic, pk, n) : c.event.new = {n}
  BY TaskCallsTyped
<1>2. stack'[1] = Frame(0, "cascade", TaskCalls(topic, pk, n)) /\ Len(stack') = 1 /\ DOMAIN stack' = {1}
  OBVIOUS
<1>3. DOMAIN stack = {}
  OBVIOUS
<1> QED
  BY <1>1, <1>2, <1>3 DEF StackStarts, Frame

LEMMA MeasuredFacts ==
  ASSUME Base, stack # <<>>
  PROVE  StackMeasured
  BY TopFacts DEF Base, StackMeasured, Types

LEMMA StackCallsFacts ==
  ASSUME Base, NEW c, Calling(c), stack' = Called(c)
  PROVE  StackCalls(c)
<1>1. StackMeasured /\ Top \in Fram
  BY CallFacts, MeasuredFacts, TopFacts DEF Base
<1>2. stack'[1] = [stack[1] EXCEPT !.queue = @ \ {c}]
  BY CallFacts DEF Base
<1>3. /\ stack'[1].run = stack[1].run /\ stack'[1].step = stack[1].step
      /\ stack'[1].writes = stack[1].writes /\ stack'[1].queue = stack[1].queue \ {c}
  BY <1>1, <1>2 DEF Fram, StackMeasured
<1>4. Len(stack') = Len(stack) /\ stack' \in Seq(Fram)
  BY CallFacts DEF Base
<1>5. \A i \in DOMAIN stack : i # 1 => stack'[i] = stack[i]
  BY CallFacts DEF Base
<1>6. DOMAIN stack' = DOMAIN stack
  BY <1>1, <1>4 DEF StackMeasured
<1> QED
  BY <1>1, <1>3, <1>4, <1>5, <1>6 DEF StackCalls

LEMMA StackEntersFacts ==
  ASSUME Base, NEW c, Calling(c), NEW r \in Nat, stack' = <<Frame(r, "stages", {})>> \o Called(c)
  PROVE  StackEnters(c, r)
<1> DEFINE f == Frame(r, "stages", {})
           s == Called(c)
<1>1. StackMeasured /\ Top \in Fram
  BY CallFacts, MeasuredFacts, TopFacts DEF Base
<1>2. /\ s[1] = [stack[1] EXCEPT !.queue = @ \ {c}] /\ s \in Seq(Fram) /\ Len(s) = Len(stack)
      /\ \A i \in DOMAIN stack : i # 1 => s[i] = stack[i]
  BY CallFacts DEF Base
<1>3. /\ s[1].run = stack[1].run /\ s[1].step = stack[1].step
      /\ s[1].writes = stack[1].writes /\ s[1].queue = stack[1].queue \ {c}
  BY <1>1, <1>2 DEF Fram, StackMeasured
<1>4. f \in Fram /\ f.run = r /\ f.step = "stages" /\ f.writes = {} /\ f.queue = {}
  BY DEF Frame, Fram
<1> HIDE DEF f, s
<1>5. /\ stack' \in Seq(Fram) /\ Len(stack') = Len(s) + 1 /\ stack'[1] = f
      /\ \A i \in 1..Len(s) : stack'[i + 1] = s[i]
  BY <1>2, <1>4, ConsFacts DEF f, s
<1>6. DOMAIN stack' = 1..(Len(stack) + 1)
  BY <1>2, <1>5
<1>7. stack'[2] = s[1]
  <2>1. 1 \in 1..Len(s) /\ 1 + 1 = 2
    BY <1>1, <1>2 DEF StackMeasured
  <2>2. stack'[1 + 1] = s[1]
    BY <1>5, <2>1
  <2> QED
    BY <2>1, <2>2
<1>8. \A i \in DOMAIN stack : i # 1 => stack'[i + 1] = stack[i]
  BY <1>1, <1>2, <1>5 DEF StackMeasured
<1> QED
  BY <1>1, <1>2, <1>3, <1>4, <1>5, <1>6, <1>7, <1>8 DEF StackEnters

LEMMA StackPopsFacts ==
  ASSUME Base, stack # <<>>, stack' = Tail(stack)
  PROVE  StackPops
<1>1. StackMeasured
  BY MeasuredFacts
<1>2. /\ stack' \in Seq(Fram) /\ Len(stack') = Len(stack) - 1
      /\ \A i \in 1..(Len(stack) - 1) : stack'[i] = stack[i + 1]
  BY TailFacts DEF Base, Types
<1> QED
  BY <1>1, <1>2 DEF StackPops

\* The rows: one more.
StoredAppends(by) ==
    /\ Len(stored) \in Nat /\ DOMAIN stored = 1..Len(stored)
    /\ Len(stored') = Len(stored) + 1 /\ DOMAIN stored' = 1..(Len(stored) + 1)
    /\ \A n \in DOMAIN stored : stored'[n] = stored[n]
    /\ stored'[Len(stored) + 1] \in Row /\ stored'[Len(stored) + 1].by = by

\* The tasks: one more, or the oldest gone.
ReadyAppends(kind, id) ==
    /\ Len(ready) \in Nat /\ DOMAIN ready = 1..Len(ready)
    /\ DOMAIN ready' = 1..(Len(ready) + 1)
    /\ \A i \in DOMAIN ready : ready'[i] = ready[i]
    /\ ready'[Len(ready) + 1].kind = kind /\ ready'[Len(ready) + 1].id = id

ReadyTails ==
    /\ Len(ready) \in Nat /\ DOMAIN ready = 1..Len(ready) /\ 1 \in DOMAIN ready
    /\ DOMAIN ready' = 1..(Len(ready) - 1)
    /\ \A i \in DOMAIN ready' : ready'[i] = ready[i + 1]

\* The runs: one more; one ends, and its log may become a task; one's log changes.
RunsMeasured == Len(runs) \in Nat /\ Runs = 1..Len(runs) /\ DOMAIN runs = 1..Len(runs)

IsNewRun(r, c, status) ==
    /\ runs'[r].pipeline = c.pipeline /\ runs'[r].event = c.event /\ runs'[r].at = c.at
    /\ runs'[r].parent = Top.run /\ runs'[r].status = status /\ runs'[r].log = "none"

RunsAppends(c, status) ==
    /\ RunsMeasured
    /\ Len(runs') = Len(runs) + 1 /\ Runs' = 1..(Len(runs) + 1)
    /\ \A x \in Runs : runs'[x] = runs[x]
    /\ IsNewRun(Len(runs) + 1, c, status)

SameCall(r) ==
    /\ runs'[r].pipeline = runs[r].pipeline /\ runs'[r].event = runs[r].event
    /\ runs'[r].parent = runs[r].parent /\ runs'[r].at = runs[r].at

Ends(r, status) ==
    /\ r \in Runs /\ SameCall(r) /\ runs'[r].status = status
    /\ \/ /\ runs'[r].log = "queued" /\ ~IsSystem(runs[r].pipeline)
          /\ ReadyAppends("monitor", r)
       \/ runs'[r].log = "none" /\ ready' = ready

RunsEnd(r, status) ==
    /\ RunsMeasured
    /\ Ends(r, status)
    /\ Len(runs') = Len(runs) /\ Runs' = Runs
    /\ \A x \in Runs : x # r => runs'[x] = runs[x]

RunsRaise(c, r) ==
    /\ RunsMeasured
    /\ Ends(r, "ERROR")
    /\ Len(runs') = Len(runs) + 1 /\ Runs' = 1..(Len(runs) + 1)
    /\ \A x \in Runs : x # r => runs'[x] = runs[x]
    /\ IsNewRun(Len(runs) + 1, c, "raised")

RunsLog(r, log) ==
    /\ RunsMeasured
    /\ r \in Runs /\ SameCall(r) /\ runs'[r].status = runs[r].status /\ runs'[r].log = log
    /\ Len(runs') = Len(runs) /\ Runs' = Runs
    /\ \A x \in Runs : x # r => runs'[x] = runs[x]

LEMMA StoredAppendsFacts ==
  ASSUME Base, NEW row \in Row, stored' = Append(stored, row)
  PROVE  StoredAppends(row.by) /\ stored'[Len(stored) + 1] = row
  BY AppendFacts DEF Base, Types, StoredAppends

LEMMA ReadyAppendsFacts ==
  ASSUME Base, NEW task \in Task, ready' = Append(ready, task)
  PROVE  ReadyAppends(task.kind, task.id)
  BY AppendFacts DEF Base, Types, ReadyAppends

LEMMA ReadyTailsFacts ==
  ASSUME Base, ready # <<>>, ready' = Tail(ready)
  PROVE  ReadyTails /\ Head(ready) = ready[1]
  BY TailFacts DEF Base, Types, ReadyTails

LEMMA RunsMeasuredFacts ==
  ASSUME Base
  PROVE  RunsMeasured
  BY DEF Base, Types, RunsMeasured, Runs

LEMMA RunsAppendsFacts ==
  ASSUME Base, NEW c, Calling(c), NEW status \in Statuses, runs' = Append(runs, NewRun(c, status))
  PROVE  RunsAppends(c, status)
<1>1. NewRun(c, status) \in Run /\ runs \in Seq(Run)
  BY CallFacts DEF Base, Types
<1>2. RunsMeasured
  BY RunsMeasuredFacts
<1>3. /\ Len(runs') = Len(runs) + 1 /\ DOMAIN runs' = 1..(Len(runs) + 1)
      /\ runs'[Len(runs) + 1] = NewRun(c, status)
      /\ \A x \in 1..Len(runs) : runs'[x] = runs[x]
  BY <1>1, AppendFacts
<1>4. IsNewRun(Len(runs) + 1, c, status)
  BY <1>3 DEF IsNewRun, NewRun
<1> QED
  BY <1>2, <1>3, <1>4 DEF RunsAppends, RunsMeasured, Runs

\* A run with another status and log is still the same call.
LEMMA SameCallFacts ==
  ASSUME Base, NEW r \in Runs, NEW status, NEW log,
         runs'[r] = [runs[r] EXCEPT !.status = status, !.log = log]
  PROVE  SameCall(r) /\ runs'[r].status = status /\ runs'[r].log = log
<1>1. runs[r] \in Run
  BY DEF Base, Types, Runs
<1> QED
  BY <1>1 DEF Run, SameCall

LEMMA EndsFacts ==
  ASSUME Base, NEW r \in Runs, NEW status, NEW log \in {"none", "queued"},
         runs'[r] = [runs[r] EXCEPT !.status = status, !.log = log],
         log = "queued" => /\ ~IsSystem(runs[r].pipeline)
                           /\ ready' = Append(ready, [kind |-> "monitor", id |-> r]),
         log = "none" => ready' = ready
  PROVE  Ends(r, status)
<1>1. SameCall(r) /\ runs'[r].status = status /\ runs'[r].log = log
  BY SameCallFacts
<1>2. r \in Nat
  BY DEF Base, Types, Runs
<1>3. [kind |-> "monitor", id |-> r] \in Task
  BY <1>2 DEF Task
<1>4. log = "queued" => ReadyAppends("monitor", r)
  BY <1>3, ReadyAppendsFacts
<1> QED
  BY <1>1, <1>4 DEF Ends

LEMMA RunsEndFacts ==
  ASSUME Base, NEW r \in Runs, NEW status \in Statuses, Finally(r, status)
  PROVE  RunsEnd(r, status)
<1>1. Types
  BY DEF Base
<1>2. PICK log \in {"none", "queued"} :
         /\ runs'[r] = [runs[r] EXCEPT !.status = status, !.log = log]
         /\ log = "queued" => /\ ~IsSystem(runs[r].pipeline)
                              /\ ready' = Append(ready, [kind |-> "monitor", id |-> r])
         /\ log = "none" => ready' = ready
  BY <1>1, FinallyFacts
<1>3. Ends(r, status)
  BY <1>2, EndsFacts
<1>4. /\ DOMAIN runs' = Runs /\ Len(runs') = Len(runs)
      /\ \A x \in Runs : x # r => runs'[x] = runs[x]
  BY <1>1, FinallyFacts
<1> QED
  BY <1>3, <1>4, RunsMeasuredFacts DEF RunsEnd, Runs

LEMMA RunsRaiseFacts ==
  ASSUME Base, NEW c, RaiseInRun(c)
  PROVE  RunsRaise(c, Top.run)
<1>1. PICK log \in {"none", "queued"} :
         /\ runs'[Top.run] = [runs[Top.run] EXCEPT !.status = "ERROR", !.log = log]
         /\ log = "queued" => /\ ~IsSystem(runs[Top.run].pipeline)
                              /\ ready' = Append(ready, [kind |-> "monitor", id |-> Top.run])
         /\ log = "none" => ready' = ready
  BY RaiseInRunFacts
<1>2. Top.run \in Runs
  BY RaiseInRunFacts
<1>3. Ends(Top.run, "ERROR")
  BY <1>1, <1>2, EndsFacts
<1>4. /\ DOMAIN runs' = 1..(Len(runs) + 1) /\ Len(runs') = Len(runs) + 1
      /\ runs'[Len(runs) + 1] = NewRun(c, "raised")
      /\ \A x \in Runs : x # Top.run => runs'[x] = runs[x]
  BY RaiseInRunFacts
<1>5. IsNewRun(Len(runs) + 1, c, "raised")
  BY <1>4 DEF IsNewRun, NewRun
<1> QED
  BY <1>3, <1>4, <1>5, RunsMeasuredFacts DEF RunsRaise, Runs

LEMMA RunsLogFacts ==
  ASSUME Base, NEW r \in Runs, NEW log, runs' = [runs EXCEPT ![r].log = log]
  PROVE  RunsLog(r, log)
<1>1. runs[r] \in Run /\ runs \in Seq(Run) /\ r \in DOMAIN runs
  BY DEF Base, Types, Runs
<1>2. /\ DOMAIN runs' = DOMAIN runs /\ runs'[r] = [runs[r] EXCEPT !.log = log]
      /\ \A x \in DOMAIN runs : x # r => runs'[x] = runs[x]
  BY <1>1
<1>3. SameCall(r) /\ runs'[r].status = runs[r].status /\ runs'[r].log = log
  BY <1>1, <1>2 DEF Run, SameCall
<1>4. Len(runs') = Len(runs)
  BY <1>1
<1> QED
  BY <1>2, <1>3, <1>4, RunsMeasuredFacts DEF RunsLog, Runs

\* Every action, told in this way.
NextCall(c) ==
    /\ StackMeasured /\ stack[1].step = "cascade" /\ c \in stack[1].queue /\ c \in Call
    /\ stack[1].run \in Runs \cup {0}
    /\ \A d \in stack[1].queue \ {c} : Before(c.at, d.at)

PushStep ==
    /\ StackStarts(Len(stored) + 1) /\ StoredAppends(0) /\ UNCHANGED <<program, runs, ready>>

PushAsyncStep ==
    /\ stack = <<>> /\ StoredAppends(0) /\ ReadyAppends("pipelines", Len(stored) + 1)
    /\ UNCHANGED <<program, runs, stack>>

TurnPipelinesStep ==
    /\ ReadyTails /\ ready[1].kind = "pipelines" /\ StackStarts(ready[1].id)
    /\ UNCHANGED <<program, runs, stored>>

TurnMonitorStep ==
    /\ ReadyTails /\ ready[1].kind = "monitor" /\ RunsLog(ready[1].id, "stored")
    /\ StackStarts(Len(stored) + 1) /\ StoredAppends(-1)
    /\ stored'[Len(stored) + 1].pk = ready[1].id
    /\ UNCHANGED program

TurnMonitorRaisesStep ==
    /\ ReadyTails /\ ready[1].kind = "monitor" /\ RunsLog(ready[1].id, "lost")
    /\ UNCHANGED <<program, stored, stack>>

SkipStep(c) ==
    /\ NextCall(c) /\ RunsAppends(c, "skipped") /\ StackCalls(c)
    /\ UNCHANGED <<program, stored, ready>>

EnterStep(c) ==
    /\ NextCall(c) /\ RunsAppends(c, "running") /\ StackEnters(c, Len(runs) + 1)
    /\ UNCHANGED <<program, stored, ready>>

RaiseInTaskStep(c) ==
    /\ NextCall(c) /\ stack[1].run = 0 /\ RunsAppends(c, "raised") /\ StackClears
    /\ UNCHANGED <<program, stored, ready>>

RaiseInRunStep(c) ==
    /\ NextCall(c) /\ stack[1].run # 0 /\ RunsRaise(c, stack[1].run) /\ StackPops
    /\ UNCHANGED <<program, stored>>

WriteStep ==
    /\ StackMeasured /\ stack[1].step = "stages" /\ stack[1].run \in Runs
    /\ StoredAppends(stack[1].run)
    /\ Len(stack') = Len(stack) /\ DOMAIN stack' = DOMAIN stack
    /\ stack'[1].run = stack[1].run /\ stack'[1].step = "stages"
    /\ stack'[1].writes = stack[1].writes \cup {Len(stored) + 1}
    /\ stack'[1].queue = stack[1].queue
    /\ \A i \in DOMAIN stack : i # 1 => stack'[i] = stack[i]
    /\ UNCHANGED <<program, runs, ready>>

EndStep(status) ==
    /\ StackMeasured /\ stack[1].run \in Runs /\ RunsEnd(stack[1].run, status) /\ StackPops
    /\ \/ status = "ERROR"
       \/ stack[1].step = "cascade" /\ stack[1].queue = {} /\ status = "FINISHED"
    /\ UNCHANGED <<program, stored>>

FinishStagesStep ==
    /\ StackMeasured /\ stack[1].step = "stages" /\ stack[1].run \in Runs
    /\ Cardinality(stack[1].writes) = Len(program[runs[stack[1].run].pipeline])
    /\ Len(stack') = Len(stack) /\ DOMAIN stack' = DOMAIN stack
    /\ stack'[1].run = stack[1].run /\ stack'[1].step = "cascade"
    /\ stack'[1].writes = stack[1].writes
    /\ stack'[1].queue = IF IsSystem(runs[stack[1].run].pipeline) THEN {}
                         ELSE Cascade(stack[1].writes)
    /\ \A i \in DOMAIN stack : i # 1 => stack'[i] = stack[i]
    /\ UNCHANGED <<program, stored, runs, ready>>

ReturnTaskStep ==
    /\ StackMeasured /\ stack[1].run = 0 /\ StackClears
    /\ UNCHANGED <<program, stored, runs, ready>>

CrashStep ==
    /\ StackClears /\ ready' = <<>> /\ DOMAIN ready' = {}
    /\ RunsMeasured /\ Len(runs') = Len(runs) /\ Runs' = Runs
    /\ \A r \in Runs :
          /\ SameCall(r)
          /\ runs'[r].status = IF runs[r].status = "running" THEN "lost" ELSE runs[r].status
          /\ runs'[r].log = IF runs[r].log = "queued" THEN "lost" ELSE runs[r].log
    /\ UNCHANGED <<program, stored>>

AnyStep ==
    \/ PushStep \/ PushAsyncStep \/ TurnPipelinesStep \/ TurnMonitorStep \/ TurnMonitorRaisesStep
    \/ \E c : SkipStep(c) \/ EnterStep(c) \/ RaiseInTaskStep(c) \/ RaiseInRunStep(c)
    \/ WriteStep \/ EndStep("ERROR") \/ EndStep("FINISHED") \/ FinishStagesStep
    \/ ReturnTaskStep \/ CrashStep

LEMMA NextCallFacts ==
  ASSUME Base, NEW c, Calling(c)
  PROVE  NextCall(c)
<1>1. StackMeasured /\ Top = stack[1] /\ c \in Call
  BY CallFacts, MeasuredFacts DEF Base, StackMeasured
<1>2. stack[1].run \in Runs \cup {0}
  BY <1>1 DEF StackMeasured, Base, Ranges
<1> QED
  BY <1>1, <1>2 DEF NextCall, Calling, Cascading

LEMMA EveryStep ==
  ASSUME Base, Next
  PROVE  AnyStep
<1> USE DEF Base
<1>1. Len(stored) \in Nat
  BY DEF Types
<1>2. ASSUME NEW topic \in STRING, NEW type \in Kinds, NEW pk \in Nat, NEW by \in Int,
             Store(topic, type, pk, by)
      PROVE  /\ StoredAppends(by) /\ Len(stored') = Len(stored) + 1
             /\ stored'[Len(stored) + 1].pk = pk
  <2> DEFINE row == [topic |-> topic, type |-> type, pk |-> pk, by |-> by]
  <2>1. row \in Row /\ row.by = by /\ row.pk = pk
    BY DEF Row
  <2>2. stored' = Append(stored, row)
    BY <1>2 DEF Store
  <2> HIDE DEF row
  <2>3. StoredAppends(by) /\ stored'[Len(stored) + 1] = row
    BY <2>1, <2>2, StoredAppendsFacts
  <2> QED
    BY <2>1, <2>3 DEF StoredAppends
<1>3. "insert" \in Kinds /\ 0 \in Int /\ -1 \in Int /\ pushes + 1 \in Nat
  BY ConstantsAssumption DEF Kinds, Types
<1>4. CASE Push
  <2>1. StoredAppends(0) /\ Len(stored') = Len(stored) + 1
    BY <1>2, <1>3, <1>4, ConstantsAssumption DEF Push
  <2>2. StackStarts(Len(stored) + 1)
    <3>1. stack' = <<Frame(0, "cascade", TaskCalls(EntryTopic, pushes + 1, Len(stored) + 1))>>
      BY <1>4, <2>1 DEF Push
    <3> QED
      BY <1>1, <1>3, <1>4, <3>1, StackStartsFacts, ConstantsAssumption DEF Push
  <2> QED
    BY <1>4, <2>1, <2>2 DEF Push, PushStep, AnyStep
<1>5. CASE PushAsync
  <2>1. StoredAppends(0) /\ Len(stored') = Len(stored) + 1
    BY <1>2, <1>3, <1>5, ConstantsAssumption DEF PushAsync
  <2>2. ReadyAppends("pipelines", Len(stored) + 1)
    <3> DEFINE task == [kind |-> "pipelines", id |-> Len(stored) + 1]
    <3>1. task \in Task /\ task.kind = "pipelines" /\ task.id = Len(stored) + 1
      BY <1>1 DEF Task
    <3>2. ready' = Append(ready, task)
      BY <1>5, <2>1 DEF PushAsync
    <3> HIDE DEF task
    <3>3. ReadyAppends(task.kind, task.id)
      BY <3>1, <3>2, ReadyAppendsFacts
    <3> QED
      BY <3>1, <3>3
  <2> QED
    BY <1>5, <2>1, <2>2 DEF PushAsync, PushAsyncStep, AnyStep
<1>6. CASE TurnPipelines
  <2>1. ReadyTails /\ Head(ready) = ready[1] /\ 1 \in DOMAIN ready
    BY <1>6, ReadyTailsFacts DEF TurnPipelines, ReadyTails
  <2>2. ready[1].id \in DOMAIN stored /\ ready[1].kind = "pipelines"
    BY <1>6, <2>1 DEF TurnPipelines, Ranges
  <2>3. stored[ready[1].id] \in Row /\ ready[1].id \in Nat
    BY <2>2 DEF Types
  <2>4. stored[ready[1].id].pk \in Nat
    BY <2>3 DEF Row
  <2>5. stack' = <<Frame(0, "cascade", TaskCalls(EntryTopic, stored[ready[1].id].pk, ready[1].id))>>
    BY <1>6, <2>1 DEF TurnPipelines
  <2>6. StackStarts(ready[1].id)
    BY <1>6, <2>3, <2>4, <2>5, StackStartsFacts, ConstantsAssumption DEF TurnPipelines
  <2> QED
    BY <1>6, <2>1, <2>2, <2>6 DEF TurnPipelines, TurnPipelinesStep, AnyStep
<1>7. CASE TurnMonitor
  <2>1. ReadyTails /\ Head(ready) = ready[1] /\ 1 \in DOMAIN ready
    BY <1>7, ReadyTailsFacts DEF TurnMonitor, ReadyTails
  <2>2. ready[1].id \in Runs /\ ready[1].kind = "monitor"
    BY <1>7, <2>1 DEF TurnMonitor, Ranges
  <2>3. ready[1].id \in Nat
    BY <2>2 DEF Types, Runs
  <2>4. RunsLog(ready[1].id, "stored")
    BY <1>7, <2>1, <2>2, RunsLogFacts DEF TurnMonitor
  <2>5. Store(MonitorTopic, "insert", ready[1].id, -1)
    BY <1>7, <2>1 DEF TurnMonitor
  <2>6. /\ StoredAppends(-1) /\ Len(stored') = Len(stored) + 1
        /\ stored'[Len(stored) + 1].pk = ready[1].id
    BY <1>2, <1>3, <2>3, <2>5, ConstantsAssumption
  <2>7. stack' = <<Frame(0, "cascade", TaskCalls(MonitorTopic, ready[1].id, Len(stored) + 1))>>
    BY <1>7, <2>1, <2>6 DEF TurnMonitor
  <2>8. StackStarts(Len(stored) + 1)
    BY <1>1, <1>7, <2>3, <2>7, StackStartsFacts, ConstantsAssumption DEF TurnMonitor
  <2> QED
    BY <1>7, <2>1, <2>2, <2>4, <2>6, <2>8 DEF TurnMonitor, TurnMonitorStep, AnyStep
<1>8. CASE TurnMonitorRaises
  <2>1. ReadyTails /\ Head(ready) = ready[1] /\ 1 \in DOMAIN ready
    BY <1>8, ReadyTailsFacts DEF TurnMonitorRaises, ReadyTails
  <2>2. ready[1].id \in Runs /\ ready[1].kind = "monitor"
    BY <1>8, <2>1 DEF TurnMonitorRaises, Ranges
  <2>3. RunsLog(ready[1].id, "lost")
    BY <1>8, <2>1, <2>2, RunsLogFacts DEF TurnMonitorRaises
  <2> QED
    BY <1>8, <2>1, <2>2, <2>3 DEF TurnMonitorRaises, TurnMonitorRaisesStep, AnyStep
<1>9. "skipped" \in Statuses /\ "running" \in Statuses /\ "raised" \in Statuses
      /\ "ERROR" \in Statuses /\ "FINISHED" \in Statuses
  BY DEF Statuses
<1>10. ASSUME NEW c, SkipDisabled(c) \/ SkipCondition(c)
       PROVE  AnyStep
  <2>1. /\ Calling(c) /\ runs' = Append(runs, NewRun(c, "skipped")) /\ stack' = Called(c)
        /\ UNCHANGED <<program, stored, ready>>
    BY <1>10 DEF SkipDisabled, SkipCondition
  <2>2. NextCall(c) /\ RunsAppends(c, "skipped") /\ StackCalls(c)
    BY <1>9, <2>1, NextCallFacts, RunsAppendsFacts, StackCallsFacts
  <2> QED
    BY <2>1, <2>2 DEF SkipStep, AnyStep
<1>11. ASSUME NEW c, Enter(c)
       PROVE  AnyStep
  <2>1. /\ Calling(c) /\ runs' = Append(runs, NewRun(c, "running"))
        /\ stack' = <<Frame(Len(runs'), "stages", {})>> \o Called(c)
        /\ UNCHANGED <<program, stored, ready>>
    BY <1>11 DEF Enter
  <2>2. NextCall(c) /\ RunsAppends(c, "running")
    BY <1>9, <2>1, NextCallFacts, RunsAppendsFacts
  <2>3. Len(runs') = Len(runs) + 1 /\ Len(runs) + 1 \in Nat
    BY <2>2 DEF RunsAppends, RunsMeasured
  <2>4. StackEnters(c, Len(runs) + 1)
    BY <2>1, <2>3, StackEntersFacts
  <2> QED
    BY <2>1, <2>2, <2>4 DEF EnterStep, AnyStep
<1>12. ASSUME NEW c, RaiseInTask(c)
       PROVE  AnyStep
  <2>1. /\ Calling(c) /\ runs' = Append(runs, NewRun(c, "raised")) /\ stack' = <<>>
        /\ UNCHANGED <<program, stored, ready>> /\ Top.run = 0
    BY <1>12 DEF RaiseInTask
  <2>2. NextCall(c) /\ RunsAppends(c, "raised")
    BY <1>9, <2>1, NextCallFacts, RunsAppendsFacts
  <2>3. Top = stack[1]
    BY <2>2 DEF NextCall, StackMeasured
  <2>4. StackClears
    BY <2>1 DEF StackClears
  <2> QED
    BY <2>1, <2>2, <2>3, <2>4 DEF RaiseInTaskStep, AnyStep
<1>13. ASSUME NEW c, RaiseInRun(c)
       PROVE  AnyStep
  <2>1. /\ Calling(c) /\ stack' = Tail(stack)
        /\ UNCHANGED <<program, stored>> /\ Top.run # 0
    BY <1>13 DEF RaiseInRun
  <2>2. NextCall(c) /\ RunsRaise(c, Top.run)
    BY <1>13, <2>1, NextCallFacts, RunsRaiseFacts
  <2>3. Top = stack[1] /\ StackPops
    BY <2>1, <2>2, StackPopsFacts, CallFacts DEF NextCall, StackMeasured
  <2> QED
    BY <2>1, <2>2, <2>3 DEF RaiseInRunStep, AnyStep
<1>14. CASE Write
  <2>1. stack # <<>> /\ Top.step = "stages" /\ UNCHANGED <<program, runs, ready>>
    BY <1>14 DEF Write
  <2>2. /\ StackMeasured /\ Top = stack[1] /\ Top.run \in Runs /\ Top \in Fram
    BY <2>1, MeasuredFacts, StagesFacts
  <2>3. StoredAppends(Top.run)
    BY <1>14, WriteFacts, StoredAppendsFacts
  <2>4. stack' = [stack EXCEPT ![1] = [Top EXCEPT !.writes = @ \cup {Len(stored) + 1}]]
    BY <1>14, <2>2, <2>3 DEF Write, StoredAppends
  <2> DEFINE f == [Top EXCEPT !.writes = @ \cup {Len(stored) + 1}]
  <2>5. /\ f.run = Top.run /\ f.step = Top.step /\ f.queue = Top.queue
        /\ f.writes = Top.writes \cup {Len(stored) + 1}
    BY <2>2 DEF Fram
  <2>6. f \in Fram
    BY <1>1, <2>2 DEF Fram
  <2> HIDE DEF f
  <2>7. /\ Len(stack') = Len(stack) /\ DOMAIN stack' = DOMAIN stack /\ stack'[1] = f
        /\ \A i \in DOMAIN stack : i # 1 => stack'[i] = stack[i]
    BY <2>2, <2>4, <2>6 DEF StackMeasured, Types, f
  <2> QED
    BY <2>1, <2>2, <2>3, <2>5, <2>7 DEF WriteStep, AnyStep
<1>15. CASE WriteRaises
  <2>1. /\ stack # <<>> /\ Top.step = "stages" /\ Finally(Top.run, "ERROR") /\ stack' = Tail(stack)
        /\ UNCHANGED <<program, stored>>
    BY <1>15 DEF WriteRaises
  <2>2. StackMeasured /\ StackPops /\ Top = stack[1] /\ Top.run \in Runs
    BY <2>1, MeasuredFacts, StackPopsFacts, StagesFacts
  <2>3. RunsEnd(Top.run, "ERROR")
    BY <1>9, <2>1, <2>2, RunsEndFacts
  <2> QED
    BY <2>1, <2>2, <2>3 DEF EndStep, AnyStep
<1>16. CASE FinishStages
  <2> DEFINE queue == IF IsSystem(runs[Top.run].pipeline) THEN {} ELSE Cascade(Top.writes)
             f == [Top EXCEPT !.step = "cascade", !.queue = queue]
  <2>1. /\ stack # <<>> /\ Top.step = "stages"
        /\ Cardinality(Top.writes) = Len(program[runs[Top.run].pipeline])
        /\ UNCHANGED <<program, stored, runs, ready>>
    BY <1>16 DEF FinishStages
  <2>2. /\ StackMeasured /\ Top = stack[1] /\ Top.run \in Runs /\ Top \in Fram
    BY <2>1, MeasuredFacts, StagesFacts
  <2>3. stack' = [stack EXCEPT ![1] = f]
    BY <1>16, <2>2 DEF FinishStages
  <2>4. f.run = Top.run /\ f.step = "cascade" /\ f.queue = queue /\ f.writes = Top.writes
    BY <2>2 DEF Fram
  <2> HIDE DEF f
  <2>5. /\ DOMAIN stack' = DOMAIN stack /\ stack'[1] = f
        /\ \A i \in DOMAIN stack : i # 1 => stack'[i] = stack[i]
    BY <2>2, <2>3 DEF StackMeasured
  <2>6. Len(stack') = Len(stack)
    BY <2>2, <2>3 DEF StackMeasured, Types
  <2> QED
    BY <2>1, <2>2, <2>4, <2>5, <2>6 DEF FinishStagesStep, AnyStep
<1>17. CASE ReturnRun
  <2>1. /\ stack # <<>> /\ Top.step = "cascade" /\ Top.queue = {} /\ Top.run # 0
        /\ Finally(Top.run, "FINISHED") /\ stack' = Tail(stack)
        /\ UNCHANGED <<program, stored>>
    BY <1>17 DEF ReturnRun, Cascading
  <2>2. StackMeasured /\ StackPops /\ Top = stack[1]
    BY <2>1, MeasuredFacts, StackPopsFacts DEF StackMeasured
  <2>3. Top.run \in Runs
    BY <2>1, <2>2 DEF StackMeasured, Ranges
  <2>4. RunsEnd(Top.run, "FINISHED")
    BY <1>9, <2>1, <2>3, RunsEndFacts
  <2> QED
    BY <2>1, <2>2, <2>3, <2>4 DEF EndStep, AnyStep
<1>20. CASE LookupRaises
  <2>1. /\ stack # <<>> /\ Top.run # 0 /\ Finally(Top.run, "ERROR") /\ stack' = Tail(stack)
        /\ UNCHANGED <<program, stored>>
    BY <1>20 DEF LookupRaises, Cascading
  <2>2. StackMeasured /\ StackPops /\ Top = stack[1]
    BY <2>1, MeasuredFacts, StackPopsFacts DEF StackMeasured
  <2>3. Top.run \in Runs
    BY <2>1, <2>2 DEF StackMeasured, Ranges
  <2>4. RunsEnd(Top.run, "ERROR")
    BY <1>9, <2>1, <2>3, RunsEndFacts
  <2> QED
    BY <2>1, <2>2, <2>3, <2>4 DEF EndStep, AnyStep
<1>18. CASE ReturnTask \/ LookupRaisesInTask
  <2>1. /\ stack # <<>> /\ Top.run = 0 /\ stack' = <<>> /\ UNCHANGED <<program, stored, runs, ready>>
    BY <1>18 DEF ReturnTask, LookupRaisesInTask, Cascading
  <2>2. StackMeasured /\ Top = stack[1] /\ StackClears
    BY <2>1, MeasuredFacts DEF StackMeasured, StackClears
  <2> QED
    BY <2>1, <2>2 DEF ReturnTaskStep, AnyStep
<1>19. CASE Crash
  <2>1. /\ stack' = <<>> /\ ready' = <<>> /\ UNCHANGED <<program, stored>>
        /\ runs' = [r \in DOMAIN runs |->
                      [runs[r] EXCEPT !.status = IF @ = "running" THEN "lost" ELSE @,
                                      !.log = IF @ = "queued" THEN "lost" ELSE @]]
    BY <1>19 DEF Crash
  <2>2. ASSUME NEW r \in Runs
        PROVE  /\ SameCall(r)
               /\ runs'[r].status = IF runs[r].status = "running" THEN "lost" ELSE runs[r].status
               /\ runs'[r].log = IF runs[r].log = "queued" THEN "lost" ELSE runs[r].log
    <3>1. runs[r] \in Run
      BY DEF Types, Runs
    <3>2. runs'[r] = [runs[r] EXCEPT !.status = IF runs[r].status = "running" THEN "lost" ELSE @,
                                     !.log = IF runs[r].log = "queued" THEN "lost" ELSE @]
      BY <2>1 DEF Runs
    <3> QED
      BY <3>1, <3>2 DEF Run, SameCall
  <2>3. DOMAIN runs' = DOMAIN runs
    BY <2>1
  <2>4. RunsMeasured /\ runs' \in Seq(Run)
    BY <1>19, RunsMeasuredFacts, TypesStep DEF Types
  <2>5. Len(runs') = Len(runs)
    BY <2>3, <2>4 DEF RunsMeasured
  <2>6. StackClears /\ ready' = <<>> /\ DOMAIN ready' = {}
    <3>1. stack' = <<>> /\ ready' = <<>>
      BY <2>1
    <3> QED
      BY <3>1 DEF StackClears
  <2>7. Runs' = Runs /\ UNCHANGED <<program, stored>>
    BY <2>1 DEF Runs
  <2>8. CrashStep
    BY <2>2, <2>4, <2>5, <2>6, <2>7 DEF CrashStep
  <2> QED
    BY <2>8 DEF AnyStep
<1> QED
  BY <1>4, <1>5, <1>6, <1>7, <1>8, <1>10, <1>11, <1>12, <1>13, <1>14, <1>15, <1>16, <1>17,
     <1>18, <1>19, <1>20 DEF Next, Engine

-----------------------------------------------------------------------------
(* Names of writes and runs stay in range.                                 *)

LEMMA RangesStep ==
  ASSUME Base, [Next]_vars
  PROVE  Ranges'
<1> USE DEF Base
<1>0. /\ \A n \in DOMAIN stored : stored[n].by \in Runs \cup {0, -1}
      /\ \A r \in Runs : runs[r].event.new \subseteq DOMAIN stored /\ runs[r].parent < r
      /\ \A i \in DOMAIN stack :
            /\ stack[i].run \in Runs \cup {0}
            /\ stack[i].writes \subseteq DOMAIN stored
            /\ \A c \in stack[i].queue : c.event.new \subseteq DOMAIN stored
      /\ \A i \in DOMAIN ready :
            /\ ready[i].kind = "pipelines" => ready[i].id \in DOMAIN stored
            /\ ready[i].kind = "monitor" => ready[i].id \in Runs
  BY DEF Ranges
<1>1. CASE UNCHANGED vars
  BY <1>1 DEF vars, Ranges, Runs
<1>2. CASE PushStep
  <2>1. UNCHANGED <<runs, ready>> /\ StoredAppends(0) /\ Runs' = Runs
    BY <1>2 DEF PushStep, Runs
  <2>2. \A i \in DOMAIN stack' :
            /\ stack'[i].run \in Runs \cup {0}
            /\ stack'[i].writes \subseteq DOMAIN stored'
            /\ \A c \in stack'[i].queue : c.event.new \subseteq DOMAIN stored'
    BY <1>2, <2>1 DEF PushStep, StackStarts, StoredAppends
  <2> QED
    BY <1>0, <2>1, <2>2 DEF StoredAppends, Ranges
<1>3. CASE PushAsyncStep
  <2>1. UNCHANGED <<runs, stack>> /\ StoredAppends(0) /\ Runs' = Runs
    BY <1>3 DEF PushAsyncStep, Runs
  <2>2. \A i \in DOMAIN ready' :
            /\ ready'[i].kind = "pipelines" => ready'[i].id \in DOMAIN stored'
            /\ ready'[i].kind = "monitor" => ready'[i].id \in Runs
    BY <1>0, <1>3, <2>1 DEF PushAsyncStep, StoredAppends, ReadyAppends
  <2> QED
    BY <1>0, <2>1, <2>2 DEF StoredAppends, Ranges
<1>4. CASE TurnPipelinesStep
  BY <1>0, <1>4 DEF TurnPipelinesStep, StackStarts, ReadyTails, Ranges, Runs
<1>5. CASE TurnMonitorStep
  <2> USE <1>5 DEF TurnMonitorStep
  <2>1. \A r \in Runs : runs'[r].event = runs[r].event /\ runs'[r].parent = runs[r].parent
    BY DEF RunsLog, SameCall
  <2>2. Runs' = Runs
    BY DEF RunsLog
  <2>3. \A i \in DOMAIN ready' :
            /\ ready'[i].kind = "pipelines" => ready'[i].id \in DOMAIN stored'
            /\ ready'[i].kind = "monitor" => ready'[i].id \in Runs'
    BY <1>0, <2>2 DEF ReadyTails, StoredAppends
  <2>4. \A i \in DOMAIN stack' :
            /\ stack'[i].run \in Runs' \cup {0}
            /\ stack'[i].writes \subseteq DOMAIN stored'
            /\ \A c \in stack'[i].queue : c.event.new \subseteq DOMAIN stored'
    BY <2>2 DEF StackStarts, StoredAppends
  <2>5. \A n \in DOMAIN stored' : stored'[n].by \in Runs' \cup {0, -1}
    BY <1>0, <2>2 DEF StoredAppends
  <2>6. \A r \in Runs' : runs'[r].event.new \subseteq DOMAIN stored' /\ runs'[r].parent < r
    BY <1>0, <2>1, <2>2 DEF StoredAppends
  <2> QED
    BY <2>3, <2>4, <2>5, <2>6 DEF Ranges
<1>6. CASE TurnMonitorRaisesStep
  <2> USE <1>6 DEF TurnMonitorRaisesStep
  <2>1. \A r \in Runs : runs'[r].event = runs[r].event /\ runs'[r].parent = runs[r].parent
    BY DEF RunsLog, SameCall
  <2>2. Runs' = Runs
    BY DEF RunsLog
  <2> QED
    BY <1>0, <2>1, <2>2 DEF ReadyTails, Ranges
<1>7. ASSUME NEW c, RunsAppends(c, "skipped") \/ RunsAppends(c, "running") \/ RunsAppends(c, "raised")
                    \/ RunsRaise(c, stack[1].run),
             NextCall(c)
      PROVE  /\ \A r \in Runs' : runs'[r].event.new \subseteq DOMAIN stored /\ runs'[r].parent < r
             /\ Runs \subseteq Runs'
  <2>1. c.event.new \subseteq DOMAIN stored /\ stack[1].run \in Runs \cup {0} /\ Top = stack[1]
    BY <1>0, <1>7 DEF NextCall, StackMeasured
  <2>2. \A r \in Runs : runs'[r].event = runs[r].event /\ runs'[r].parent = runs[r].parent
    BY <1>7 DEF RunsAppends, RunsRaise, Ends, SameCall
  <2>3. Runs = 1..Len(runs) /\ Len(runs) \in Nat /\ Runs' = 1..(Len(runs) + 1)
    BY <1>7 DEF RunsAppends, RunsRaise, RunsMeasured
  <2>4. runs'[Len(runs) + 1].event = c.event /\ runs'[Len(runs) + 1].parent = stack[1].run
    BY <1>7, <2>1 DEF RunsAppends, RunsRaise, IsNewRun
  <2> QED
    BY <1>0, <2>1, <2>2, <2>3, <2>4
<1>8. ASSUME NEW c, SkipStep(c)
      PROVE  Ranges'
  BY <1>0, <1>7, <1>8 DEF SkipStep, StackCalls, Ranges
<1>9. ASSUME NEW c, EnterStep(c)
      PROVE  Ranges'
  <2>1. \A i \in DOMAIN stack' :
            /\ stack'[i].run \in Runs' \cup {0}
            /\ stack'[i].writes \subseteq DOMAIN stored
            /\ \A d \in stack'[i].queue : d.event.new \subseteq DOMAIN stored
    <3> SUFFICES ASSUME NEW i \in DOMAIN stack'
                 PROVE  /\ stack'[i].run \in Runs' \cup {0}
                        /\ stack'[i].writes \subseteq DOMAIN stored
                        /\ \A d \in stack'[i].queue : d.event.new \subseteq DOMAIN stored
      OBVIOUS
    <3>1. Len(runs) + 1 \in Runs' /\ Runs \subseteq Runs'
      BY <1>7, <1>9 DEF EnterStep, RunsAppends, RunsMeasured
    <3>2. CASE i = 1
      BY <1>9, <3>1, <3>2 DEF EnterStep, StackEnters
    <3>3. CASE i = 2
      BY <1>0, <1>9, <3>1, <3>3 DEF EnterStep, StackEnters, StackMeasured
    <3>4. CASE i # 1 /\ i # 2
      <4>1. i - 1 \in DOMAIN stack /\ i - 1 # 1 /\ (i - 1) + 1 = i
        BY <1>9, <3>4 DEF EnterStep, StackEnters, StackMeasured
      <4>2. stack'[i] = stack[i - 1]
        BY <1>9, <4>1 DEF EnterStep, StackEnters
      <4> QED
        BY <1>0, <3>1, <4>1, <4>2
    <3> QED
      BY <3>2, <3>3, <3>4
  <2> QED
    BY <1>0, <1>7, <1>9, <2>1 DEF EnterStep, Ranges
<1>10. ASSUME NEW c, RaiseInTaskStep(c)
       PROVE  Ranges'
  BY <1>0, <1>7, <1>10 DEF RaiseInTaskStep, StackClears, Ranges
<1>11. ASSUME NEW r, StackPops, Runs \subseteq Runs', UNCHANGED stored
       PROVE  \A i \in DOMAIN stack' :
                 /\ stack'[i].run \in Runs' \cup {0}
                 /\ stack'[i].writes \subseteq DOMAIN stored'
                 /\ \A c \in stack'[i].queue : c.event.new \subseteq DOMAIN stored'
  BY <1>0, <1>11 DEF StackPops, StackMeasured
<1>12. ASSUME NEW r, NEW status, Ends(r, status), Runs \subseteq Runs', UNCHANGED stored
       PROVE  \A i \in DOMAIN ready' :
                 /\ ready'[i].kind = "pipelines" => ready'[i].id \in DOMAIN stored'
                 /\ ready'[i].kind = "monitor" => ready'[i].id \in Runs'
  BY <1>0, <1>12 DEF Ends, ReadyAppends
<1>13. ASSUME NEW c, RaiseInRunStep(c)
       PROVE  Ranges'
  <2>1. /\ \A r \in Runs' : runs'[r].event.new \subseteq DOMAIN stored /\ runs'[r].parent < r
        /\ Runs \subseteq Runs' /\ UNCHANGED stored /\ StackPops
    BY <1>7, <1>13 DEF RaiseInRunStep
  <2>2. Ends(stack[1].run, "ERROR")
    BY <1>13 DEF RaiseInRunStep, RunsRaise
  <2> QED
    BY <1>0, <1>11, <1>12, <2>1, <2>2 DEF Ranges
<1>14. CASE WriteStep
  <2>1. \A i \in DOMAIN stack' :
            /\ stack'[i].run \in Runs \cup {0}
            /\ stack'[i].writes \subseteq DOMAIN stored'
            /\ \A c \in stack'[i].queue : c.event.new \subseteq DOMAIN stored'
    BY <1>0, <1>14 DEF WriteStep, StoredAppends
  <2> QED
    BY <1>0, <1>14, <2>1 DEF WriteStep, StoredAppends, Ranges, Runs
<1>15. ASSUME NEW status, EndStep(status)
       PROVE  Ranges'
  <2>1. Ends(stack[1].run, status) /\ Runs' = Runs /\ UNCHANGED stored /\ StackPops
    BY <1>15 DEF EndStep, RunsEnd
  <2>2. \A r \in Runs : runs'[r].event = runs[r].event /\ runs'[r].parent = runs[r].parent
    BY <1>15 DEF EndStep, RunsEnd, Ends, SameCall
  <2> QED
    BY <1>0, <1>11, <1>12, <2>1, <2>2 DEF Ranges
<1>16. CASE FinishStagesStep
  <2>1. \A c \in Cascade(stack[1].writes) : c.event.new \subseteq DOMAIN stored
    BY <1>0, <1>16, CascadeTyped DEF FinishStagesStep, StackMeasured, Types
  <2> QED
    BY <1>0, <1>16, <2>1 DEF FinishStagesStep, Ranges, Runs
<1>17. CASE ReturnTaskStep
  BY <1>0, <1>17 DEF ReturnTaskStep, StackClears, Ranges, Runs
<1>18. CASE CrashStep
  BY <1>0, <1>18 DEF CrashStep, StackClears, SameCall, Ranges
<1> QED
  BY EveryStep, <1>1, <1>2, <1>3, <1>4, <1>5, <1>6, <1>8, <1>9, <1>10, <1>13, <1>14, <1>15,
     <1>16, <1>17, <1>18 DEF AnyStep

-----------------------------------------------------------------------------
(* The frames are those of the runs in progress.                           *)

LEMMA FramesStep ==
  ASSUME Base, [Next]_vars
  PROVE  Frames'
<1> USE DEF Base
<1>0. /\ \A i \in DOMAIN stack :
            /\ i = Len(stack) => stack[i].run = 0
            /\ i # Len(stack) => /\ stack[i].run \in Runs
                                 /\ runs[stack[i].run].status = "running"
                                 /\ runs[stack[i].run].parent = stack[i + 1].run
            /\ stack[i].step = "stages" => i = 1 /\ stack[i].run # 0
      /\ \A i, j \in DOMAIN stack : i < j => stack[i].run > stack[j].run
      /\ \A r \in Runs : runs[r].status = "running" =>
            \E i \in DOMAIN stack : stack[i].run = r
  BY DEF Frames
<1>r. \A i \in DOMAIN stack : stack[i].run \in Runs \cup {0}
  BY DEF Ranges
<1>1. CASE UNCHANGED vars
  BY <1>1 DEF vars, Frames, Runs
<1>2. CASE PushStep
  BY <1>0, <1>2 DEF PushStep, StackStarts, Frames, Runs
<1>3. CASE PushAsyncStep
  BY <1>0, <1>3 DEF PushAsyncStep, Frames, Runs
<1>4. CASE TurnPipelinesStep
  BY <1>0, <1>4 DEF TurnPipelinesStep, StackStarts, Frames, Runs
<1>5. ASSUME NEW log, RunsLog(ready[1].id, log)
      PROVE  Runs' = Runs /\ \A r \in Runs : SameCall(r) /\ runs'[r].status = runs[r].status
  BY <1>5 DEF RunsLog, SameCall
<1>6. CASE TurnMonitorStep
  <2>1. Runs' = Runs /\ \A r \in Runs : SameCall(r) /\ runs'[r].status = runs[r].status
    BY <1>5, <1>6 DEF TurnMonitorStep
  <2> QED
    BY <1>0, <1>6, <2>1 DEF TurnMonitorStep, StackStarts, Frames
<1>7. CASE TurnMonitorRaisesStep
  <2>1. Runs' = Runs /\ \A r \in Runs : SameCall(r) /\ runs'[r].status = runs[r].status
    BY <1>5, <1>7 DEF TurnMonitorRaisesStep
  <2> QED
    BY <1>0, <1>7, <2>1 DEF TurnMonitorRaisesStep, SameCall, Frames
<1>8. ASSUME NEW c, SkipStep(c)
      PROVE  Frames'
  <2>1. /\ Len(stack') = Len(stack) /\ DOMAIN stack' = DOMAIN stack
        /\ \A i \in DOMAIN stack : stack'[i].run = stack[i].run /\ stack'[i].step = stack[i].step
    BY <1>8 DEF SkipStep, StackCalls
  <2>2. /\ \A r \in Runs : runs'[r] = runs[r]
        /\ Runs \subseteq Runs'
        /\ \A r \in Runs' \ Runs : runs'[r].status = "skipped"
    BY <1>8 DEF SkipStep, RunsAppends, IsNewRun, RunsMeasured
  <2>3. DOMAIN stack = 1..Len(stack) /\ Len(stack) \in Nat
    BY <1>8 DEF SkipStep, StackCalls, StackMeasured
  <2> QED
    BY <1>0, <1>r, <2>1, <2>2, <2>3 DEF Frames
<1>9. ASSUME NEW c, EnterStep(c)
      PROVE  Frames'
  <2>1. /\ Len(stack') = Len(stack) + 1 /\ DOMAIN stack' = 1..(Len(stack) + 1)
        /\ DOMAIN stack = 1..Len(stack) /\ Len(stack) \in Nat /\ Len(stack) >= 1
        /\ stack'[1].run = Len(runs) + 1
        /\ \A i \in DOMAIN stack : stack'[i + 1].run = stack[i].run /\ stack'[i + 1].step = stack[i].step
    BY <1>9 DEF EnterStep, StackEnters, StackMeasured
  <2>2. /\ \A r \in Runs : runs'[r] = runs[r]
        /\ Runs = 1..Len(runs) /\ Len(runs) \in Nat /\ Runs' = 1..(Len(runs) + 1)
        /\ runs'[Len(runs) + 1].status = "running"
        /\ runs'[Len(runs) + 1].parent = stack[1].run
    BY <1>9 DEF EnterStep, RunsAppends, IsNewRun, RunsMeasured, NextCall, StackMeasured
  <2>3. stack[1].step = "cascade"
    BY <1>9 DEF EnterStep, NextCall
  <2>4. ASSUME NEW i \in DOMAIN stack'
        PROVE  i = 1 \/ (\E k \in DOMAIN stack : i = k + 1)
    <3>1. i # 1 => i - 1 \in DOMAIN stack /\ i = (i - 1) + 1
      BY <2>1
    <3> QED
      BY <3>1
  <2>5. ASSUME NEW i \in DOMAIN stack'
        PROVE  /\ i = Len(stack') => stack'[i].run = 0
               /\ i # Len(stack') => /\ stack'[i].run \in Runs'
                                     /\ runs'[stack'[i].run].status = "running"
                                     /\ runs'[stack'[i].run].parent = stack'[i + 1].run
               /\ stack'[i].step = "stages" => i = 1 /\ stack'[i].run # 0
    <3>1. CASE i = 1
      BY <2>1, <2>2, <3>1
    <3>2. ASSUME NEW k \in DOMAIN stack, i = k + 1
          PROVE  /\ i = Len(stack') => stack'[i].run = 0
                 /\ i # Len(stack') => /\ stack'[i].run \in Runs'
                                       /\ runs'[stack'[i].run].status = "running"
                                       /\ runs'[stack'[i].run].parent = stack'[i + 1].run
                 /\ stack'[i].step = "stages" => i = 1 /\ stack'[i].run # 0
      <4>1. stack'[i].run = stack[k].run /\ stack'[i].step = stack[k].step
        BY <2>1, <3>2
      <4>2. stack[k].step = "cascade" \/ stack[k].step # "stages"
        BY <1>0, <2>3
      <4>3. i # Len(stack') => k # Len(stack) /\ k + 1 \in DOMAIN stack /\ i + 1 = (k + 1) + 1
        BY <2>1, <3>2
      <4>4. i # Len(stack') => stack'[i + 1].run = stack[k + 1].run
        BY <2>1, <4>3
      <4>5. i = Len(stack') => k = Len(stack)
        BY <2>1, <3>2
      <4>6. Runs \subseteq Runs'
        BY <2>2
      <4>7. i # Len(stack') => /\ stack[k].run \in Runs /\ runs[stack[k].run].status = "running"
                               /\ runs[stack[k].run].parent = stack[k + 1].run
        BY <1>0, <4>3
      <4>8. i = Len(stack') => stack[k].run = 0
        BY <1>0, <4>5
      <4> QED
        BY <2>2, <4>1, <4>2, <4>4, <4>6, <4>7, <4>8
    <3> QED
      BY <2>4, <3>1, <3>2
  <2>6. ASSUME NEW i \in DOMAIN stack', NEW j \in DOMAIN stack', i < j
        PROVE  stack'[i].run > stack'[j].run
    <3>1. PICK k \in DOMAIN stack : j = k + 1
      BY <2>1, <2>4, <2>6
    <3>2. stack'[j].run = stack[k].run /\ stack[k].run \in Nat /\ stack[k].run <= Len(runs)
      BY <1>r, <2>1, <2>2, <3>1
    <3>3. CASE i = 1
      BY <2>1, <2>2, <3>2, <3>3
    <3>4. ASSUME NEW l \in DOMAIN stack, i = l + 1
          PROVE  stack'[i].run > stack'[j].run
      <4>1. l < k
        BY <2>1, <2>6, <3>1, <3>4
      <4> QED
        BY <1>0, <2>1, <3>2, <3>4, <4>1
    <3> QED
      BY <2>4, <3>3, <3>4
  <2>7. ASSUME NEW r \in Runs', runs'[r].status = "running"
        PROVE  \E i \in DOMAIN stack' : stack'[i].run = r
    <3>1. CASE r = Len(runs) + 1
      BY <2>1, <3>1
    <3>2. CASE r \in Runs
      <4>1. PICK i \in DOMAIN stack : stack[i].run = r
        BY <1>0, <2>2, <2>7, <3>2
      <4> QED
        BY <2>1, <4>1
    <3> QED
      BY <2>2, <3>1, <3>2
  <2> QED
    BY <2>5, <2>6, <2>7 DEF Frames
<1>10. ASSUME NEW c, RaiseInTaskStep(c)
       PROVE  Frames'
  <2>1. Len(stack) = 1 /\ DOMAIN stack = {1}
    BY <1>0, <1>10 DEF RaiseInTaskStep, NextCall, StackMeasured
  <2>2. /\ \A r \in Runs : runs'[r] = runs[r]
        /\ \A r \in Runs' \ Runs : runs'[r].status = "raised"
    BY <1>10 DEF RaiseInTaskStep, RunsAppends, IsNewRun, RunsMeasured
  <2>3. \A r \in Runs : r # 0
    BY RunsMeasuredFacts DEF RunsMeasured
  <2> QED
    BY <1>0, <1>10, <2>1, <2>2, <2>3 DEF RaiseInTaskStep, StackClears, Frames
<1>11. ASSUME stack[1].run \in Runs, StackPops, Runs \subseteq Runs',
              \A r \in Runs : SameCall(r) /\ (r # stack[1].run => runs'[r].status = runs[r].status),
              \A r \in Runs' : runs'[r].status = "running" => r \in Runs /\ r # stack[1].run
       PROVE  Frames'
  <2>1. /\ DOMAIN stack = 1..Len(stack) /\ Len(stack) \in Nat /\ 1 \in DOMAIN stack
        /\ Len(stack') = Len(stack) - 1 /\ DOMAIN stack' = 1..(Len(stack) - 1)
        /\ \A i \in DOMAIN stack' : stack'[i] = stack[i + 1]
    BY <1>11 DEF StackPops, StackMeasured
  <2>2. \A i \in DOMAIN stack' : i + 1 \in DOMAIN stack /\ 1 < i + 1
    BY <2>1
  <2>3. ASSUME NEW i \in DOMAIN stack'
        PROVE  /\ i = Len(stack') => stack'[i].run = 0
               /\ i # Len(stack') => /\ stack'[i].run \in Runs'
                                     /\ runs'[stack'[i].run].status = "running"
                                     /\ runs'[stack'[i].run].parent = stack'[i + 1].run
               /\ stack'[i].step = "stages" => i = 1 /\ stack'[i].run # 0
    <3>1. i + 1 \in DOMAIN stack /\ stack'[i] = stack[i + 1] /\ i + 1 # 1
      BY <2>1
    <3>2. i = Len(stack') => i + 1 = Len(stack)
      BY <2>1
    <3>3. i # Len(stack') => i + 1 # Len(stack) /\ i + 1 \in DOMAIN stack' /\ stack'[i + 1] = stack[(i + 1) + 1]
      BY <2>1
    <3>4. stack[1].run > stack[i + 1].run /\ stack[1].run \in Nat /\ stack[i + 1].run \in Nat
      BY <1>0, <1>r, <2>1, <2>2, RunsMeasuredFacts DEF RunsMeasured
    <3>5. stack[i + 1].run # stack[1].run
      BY <3>4
    <3>6. i # Len(stack') => /\ stack[i + 1].run \in Runs /\ runs[stack[i + 1].run].status = "running"
                             /\ runs[stack[i + 1].run].parent = stack[(i + 1) + 1].run
      BY <1>0, <3>1, <3>3
    <3>7. i = Len(stack') => stack[i + 1].run = 0
      BY <1>0, <3>1, <3>2
    <3>8. stack[i + 1].step # "stages"
      BY <1>0, <3>1
    <3> QED
      BY <1>11, <3>1, <3>3, <3>5, <3>6, <3>7, <3>8 DEF SameCall
  <2>4. ASSUME NEW i \in DOMAIN stack', NEW j \in DOMAIN stack', i < j
        PROVE  stack'[i].run > stack'[j].run
    <3>1. i + 1 \in DOMAIN stack /\ j + 1 \in DOMAIN stack /\ i + 1 < j + 1
      BY <2>1, <2>4
    <3> QED
      BY <1>0, <2>1, <3>1
  <2>5. ASSUME NEW r \in Runs', runs'[r].status = "running"
        PROVE  \E i \in DOMAIN stack' : stack'[i].run = r
    <3>1. r \in Runs /\ r # stack[1].run /\ runs[r].status = "running"
      BY <1>11, <2>5
    <3>2. PICK k \in DOMAIN stack : stack[k].run = r
      BY <1>0, <3>1
    <3>3. k - 1 \in DOMAIN stack' /\ (k - 1) + 1 = k
      BY <2>1, <3>1, <3>2
    <3> QED
      BY <2>1, <3>2, <3>3
  <2> QED
    BY <2>3, <2>4, <2>5 DEF Frames
<1>12. ASSUME NEW c, RaiseInRunStep(c)
       PROVE  Frames'
  <2>1. /\ stack[1].run \in Runs /\ StackPops /\ Runs \subseteq Runs'
        /\ \A r \in Runs' \ Runs : runs'[r].status = "raised"
        /\ \A r \in Runs : r # stack[1].run => runs'[r] = runs[r]
        /\ SameCall(stack[1].run) /\ runs'[stack[1].run].status = "ERROR"
    BY <1>12 DEF RaiseInRunStep, RunsRaise, RunsMeasured, IsNewRun, Ends
  <2>2. \A r \in Runs : SameCall(r) /\ (r # stack[1].run => runs'[r].status = runs[r].status)
    BY <2>1 DEF SameCall
  <2> QED
    BY <1>11, <2>1, <2>2
<1>13. CASE WriteStep
  <2>1. /\ Len(stack') = Len(stack) /\ DOMAIN stack' = DOMAIN stack /\ UNCHANGED runs
        /\ \A i \in DOMAIN stack : stack'[i].run = stack[i].run /\ stack'[i].step = stack[i].step
        /\ DOMAIN stack = 1..Len(stack) /\ Len(stack) \in Nat
    BY <1>13 DEF WriteStep, StackMeasured
  <2> QED
    BY <1>0, <2>1 DEF Frames, Runs
<1>14. ASSUME NEW status \in {"ERROR", "FINISHED"}, EndStep(status)
       PROVE  Frames'
  <2>1. /\ stack[1].run \in Runs /\ StackPops /\ Runs = Runs'
        /\ \A r \in Runs : r # stack[1].run => runs'[r] = runs[r]
        /\ SameCall(stack[1].run) /\ runs'[stack[1].run].status = status
    BY <1>14 DEF EndStep, RunsEnd, Ends
  <2>2. \A r \in Runs : SameCall(r) /\ (r # stack[1].run => runs'[r].status = runs[r].status)
    BY <2>1 DEF SameCall
  <2>3. status # "running"
    OBVIOUS
  <2> QED
    BY <1>11, <2>1, <2>2, <2>3
<1>15. CASE FinishStagesStep
  <2>1. /\ Len(stack') = Len(stack) /\ DOMAIN stack' = DOMAIN stack /\ UNCHANGED runs
        /\ \A i \in DOMAIN stack : /\ stack'[i].run = stack[i].run
                                   /\ stack'[i].step = "stages" => stack[i].step = "stages"
        /\ DOMAIN stack = 1..Len(stack) /\ Len(stack) \in Nat
    BY <1>15 DEF FinishStagesStep, StackMeasured
  <2> QED
    BY <1>0, <2>1 DEF Frames, Runs
<1>16. CASE ReturnTaskStep
  <2>1. Len(stack) = 1 /\ DOMAIN stack = {1}
    BY <1>0, <1>16 DEF ReturnTaskStep, StackMeasured
  <2>2. \A r \in Runs : r # 0
    BY RunsMeasuredFacts DEF RunsMeasured
  <2> QED
    BY <1>0, <1>16, <2>1, <2>2 DEF ReturnTaskStep, StackClears, Frames, Runs
<1>17. CASE CrashStep
  BY <1>17 DEF CrashStep, StackClears, Frames
<1> QED
  BY EveryStep, <1>1, <1>2, <1>3, <1>4, <1>6, <1>7, <1>8, <1>9, <1>10, <1>12, <1>13, <1>14,
     <1>15, <1>16, <1>17 DEF AnyStep

-----------------------------------------------------------------------------
(* What steps change of a run's writes and children.                       *)

LEMMA OldRuns ==
  ASSUME Base, AnyStep
  PROVE  UNCHANGED program /\ Runs \subseteq Runs' /\ \A r \in Runs : SameCall(r)
<1>1. ASSUME NEW c, SkipStep(c) \/ EnterStep(c) \/ RaiseInTaskStep(c)
      PROVE  UNCHANGED program /\ Runs \subseteq Runs' /\ \A r \in Runs : SameCall(r)
  BY <1>1 DEF SkipStep, EnterStep, RaiseInTaskStep, RunsAppends, RunsMeasured, SameCall
<1>2. ASSUME NEW c, RaiseInRunStep(c)
      PROVE  UNCHANGED program /\ Runs \subseteq Runs' /\ \A r \in Runs : SameCall(r)
  BY <1>2 DEF RaiseInRunStep, RunsRaise, RunsMeasured, Ends, SameCall
<1>3. ASSUME NEW status, EndStep(status)
      PROVE  UNCHANGED program /\ Runs \subseteq Runs' /\ \A r \in Runs : SameCall(r)
  BY <1>3 DEF EndStep, RunsEnd, Ends, SameCall
<1>4. CASE TurnMonitorStep \/ TurnMonitorRaisesStep
  BY <1>4 DEF TurnMonitorStep, TurnMonitorRaisesStep, RunsLog, SameCall
<1>5. CASE CrashStep
  BY <1>5 DEF CrashStep
<1>6. CASE PushStep \/ PushAsyncStep \/ TurnPipelinesStep \/ WriteStep \/ FinishStagesStep \/ ReturnTaskStep
  BY <1>6 DEF PushStep, PushAsyncStep, TurnPipelinesStep, WriteStep, FinishStagesStep,
              ReturnTaskStep, SameCall, Runs
<1> QED
  BY <1>1, <1>2, <1>3, <1>4, <1>5, <1>6 DEF AnyStep

LEMMA ParentFacts ==
  ASSUME Base
  PROVE  \A r \in Runs : /\ runs[r].parent \in Runs \cup {0}
                         /\ runs[r].parent \in Nat /\ runs[r].parent < r
<1>1. RunsMeasured
  BY RunsMeasuredFacts
<1> SUFFICES ASSUME NEW r \in Runs
             PROVE  /\ runs[r].parent \in Runs \cup {0}
                    /\ runs[r].parent \in Nat /\ runs[r].parent < r
  OBVIOUS
<1>2. runs[r] \in Run
  BY DEF Base, Types, Runs
<1>3. runs[r].parent \in Nat
  BY <1>2 DEF Run
<1>4. runs[r].parent < r
  BY DEF Base, Ranges
<1> QED
  BY <1>1, <1>3, <1>4 DEF RunsMeasured

\* A run that is called becomes a child of the one that calls; nothing else has children.
LEMMA ChildrenGrow ==
  ASSUME Base, NEW c, NextCall(c), NEW new, new = Len(runs) + 1,
         \/ RunsAppends(c, "skipped") \/ RunsAppends(c, "running") \/ RunsAppends(c, "raised")
         \/ RunsRaise(c, stack[1].run)
  PROVE  /\ \A r : Children(r)' = Children(r) \cup (IF r = stack[1].run THEN {new} ELSE {})
         /\ \A r : Children(r) \subseteq Runs
         /\ Children(new) = {} /\ Children(new)' = {}
         /\ new \notin Runs /\ Runs' = Runs \cup {new}
         /\ \A r \in Runs : r < new
<1>1. /\ Runs = 1..Len(runs) /\ Len(runs) \in Nat /\ Runs' = 1..(Len(runs) + 1)
      /\ \A r \in Runs : runs'[r].parent = runs[r].parent
      /\ runs'[Len(runs) + 1].parent = stack[1].run
      /\ stack[1].run \in Runs \cup {0}
  BY DEF RunsAppends, RunsRaise, RunsMeasured, IsNewRun, Ends, SameCall, NextCall, StackMeasured
<1>2. /\ Runs' = Runs \cup {new} /\ new \notin Runs /\ new # 0
      /\ runs'[new].parent = stack[1].run
      /\ \A r \in Runs : r < new
  BY <1>1
<1>3. \A r : Children(r)' = Children(r) \cup (IF r = stack[1].run THEN {new} ELSE {})
  BY <1>1, <1>2 DEF Children
<1>4. Children(new) = {}
  BY <1>2, ParentFacts DEF Children
<1>5. new # stack[1].run
  BY <1>1, <1>2
<1>6. Children(new)' = {}
  BY <1>3, <1>4, <1>5
<1>7. \A r : Children(r) \subseteq Runs
  BY DEF Children
<1> QED
  BY <1>2, <1>3, <1>4, <1>6, <1>7

LEMMA ChildrenSame ==
  ASSUME Base, Runs' = Runs, \A r \in Runs : SameCall(r)
  PROVE  \A r : Children(r)' = Children(r)
  BY DEF Children, SameCall

LEMMA WritesGrow ==
  ASSUME Base, NEW by, StoredAppends(by)
  PROVE  /\ \A r : WritesOf(r)' = WritesOf(r) \cup (IF r = by THEN {Len(stored) + 1} ELSE {})
         /\ \A r : WritesOf(r) \subseteq DOMAIN stored
         /\ \A r : \A n \in WritesOf(r) : n < Len(stored) + 1
  BY DEF StoredAppends, WritesOf

LEMMA WritesSame ==
  ASSUME UNCHANGED stored
  PROVE  \A r : WritesOf(r)' = WritesOf(r)
  BY DEF WritesOf

LEMMA AllWrittenKept ==
  ASSUME NEW r, AllWritten(r), UNCHANGED program, SameCall(r), WritesOf(r)' = WritesOf(r)
  PROVE  AllWritten(r)'
  BY DEF AllWritten, SameCall

LEMMA WritesOfNew ==
  ASSUME Base
  PROVE  WritesOf(Len(runs) + 1) = {}
  BY RunsMeasuredFacts DEF Base, Ranges, WritesOf, RunsMeasured

\* No two frames belong to one run.
LEMMA FramesDiffer ==
  ASSUME Base, NEW i \in DOMAIN stack, NEW j \in DOMAIN stack, stack[i].run = stack[j].run
  PROVE  i = j
<1>1. stack \in Seq(Fram)
  BY DEF Base, Types
<1>2. i \in Nat /\ j \in Nat /\ stack[i] \in Fram
  BY <1>1
<1>3. stack[i].run \in Nat /\ stack[j].run = stack[i].run
  BY <1>2 DEF Fram
<1>4. i < j => stack[i].run > stack[j].run
  BY DEF Base, Frames
<1>5. j < i => stack[j].run > stack[i].run
  BY DEF Base, Frames
<1> QED
  BY <1>2, <1>3, <1>4, <1>5

-----------------------------------------------------------------------------
(* A run writes, and then triggers.                                        *)

LEMMA WritingStep ==
  ASSUME Base, Writing, [Next]_vars
  PROVE  Writing'
<1> DEFINE Good(i) == /\ stack[i].writes = IF stack[i].run = 0 THEN {} ELSE WritesOf(stack[i].run)
                      /\ stack[i].run # 0 /\ stack[i].step = "cascade" => AllWritten(stack[i].run)
                      /\ stack[i].step = "stages" => Children(stack[i].run) = {}
           Late(c) == runs[c].parent # 0 =>
                      /\ AllWritten(runs[c].parent)
                      /\ \A n \in WritesOf(runs[c].parent), m \in WritesOf(c) : n < m
<1>0. (\A i \in DOMAIN stack : Good(i)) /\ (\A c \in Runs : Late(c))
  BY DEF Writing, CascadeSeesAllWrites
<1>i. \A i \in DOMAIN stack : stack[i].run \in Runs \cup {0}
  BY DEF Base, Ranges
<1>p. \A c \in Runs : runs[c].parent \in Runs \cup {0}
  BY ParentFacts
<1> SUFFICES (\A i \in DOMAIN stack' : Good(i)') /\ (\A c \in Runs' : Late(c)')
  BY DEF Writing, CascadeSeesAllWrites
<1>1. CASE UNCHANGED vars
  BY <1>0, <1>1 DEF vars, AllWritten, WritesOf, Children, Runs
<1> SUFFICES ASSUME AnyStep
             PROVE  (\A i \in DOMAIN stack' : Good(i)') /\ (\A c \in Runs' : Late(c)')
  BY <1>1, EveryStep
<1>o. UNCHANGED program /\ Runs \subseteq Runs' /\ \A r \in Runs : SameCall(r)
  BY OldRuns
\* Where no run writes and none is called, runs are as before.
<1>2. ASSUME Runs' = Runs, \A r \in Runs : WritesOf(r)' = WritesOf(r)
      PROVE  /\ \A c \in Runs' : Late(c)'
             /\ \A i \in DOMAIN stack', j \in DOMAIN stack :
                   stack'[i].run = stack[j].run /\ stack'[i].step = stack[j].step
                   /\ stack'[i].writes = stack[j].writes => Good(i)'
  <2>1. \A r \in Runs : AllWritten(r) => AllWritten(r)'
    BY <1>o, <1>2, AllWrittenKept
  <2>2. \A r : Children(r)' = Children(r)
    BY <1>o, <1>2, ChildrenSame
  <2>3. ASSUME NEW c \in Runs'
        PROVE  Late(c)'
    <3>1. Late(c) /\ runs'[c].parent = runs[c].parent /\ c \in Runs /\ runs[c].parent \in Runs \cup {0}
      BY <1>0, <1>o, <1>p, <1>2 DEF SameCall
    <3> QED
      BY <1>2, <2>1, <3>1
  <2>4. ASSUME NEW i \in DOMAIN stack', NEW j \in DOMAIN stack, stack'[i].run = stack[j].run,
               stack'[i].step = stack[j].step, stack'[i].writes = stack[j].writes
        PROVE  Good(i)'
    BY <1>0, <1>i, <1>2, <2>1, <2>2, <2>4
  <2> QED
    BY <2>3, <2>4
<1>3. ASSUME NEW n, StackStarts(n)
      PROVE  \A i \in DOMAIN stack' : Good(i)'
  BY <1>3 DEF StackStarts
<1>4. ASSUME NEW by \in {0, -1}, StoredAppends(by)
      PROVE  \A r \in Runs : WritesOf(r)' = WritesOf(r)
  <2>1. \A r \in Runs : r # by
    BY RunsMeasuredFacts DEF RunsMeasured
  <2> QED
    BY <1>4, <2>1, WritesGrow
<1>5. UNCHANGED stored => \A r \in Runs : WritesOf(r)' = WritesOf(r)
  BY WritesSame
<1>6. CASE PushStep \/ TurnPipelinesStep \/ TurnMonitorStep
  <2>1. Runs' = Runs /\ \E n : StackStarts(n)
    BY <1>6 DEF PushStep, TurnPipelinesStep, TurnMonitorStep, RunsLog, Runs
  <2>2. \A r \in Runs : WritesOf(r)' = WritesOf(r)
    BY <1>4, <1>5, <1>6 DEF PushStep, TurnPipelinesStep, TurnMonitorStep
  <2>3. \A c \in Runs' : Late(c)'
    BY <1>2, <2>1, <2>2
  <2>4. \A i \in DOMAIN stack' : Good(i)'
    BY <1>3, <2>1
  <2> QED
    BY <2>3, <2>4
<1>7. CASE PushAsyncStep \/ TurnMonitorRaisesStep
  <2>1. Runs' = Runs /\ UNCHANGED stack
    BY <1>7 DEF PushAsyncStep, TurnMonitorRaisesStep, RunsLog, Runs
  <2>2. \A r \in Runs : WritesOf(r)' = WritesOf(r)
    BY <1>4, <1>5, <1>7 DEF PushAsyncStep, TurnMonitorRaisesStep
  <2>3. \A c \in Runs' : Late(c)'
    BY <1>2, <2>1, <2>2
  <2>4. \A i \in DOMAIN stack' : Good(i)'
    BY <1>2, <2>1, <2>2
  <2> QED
    BY <2>3, <2>4
\* A call.
<1>8. ASSUME NEW c, NextCall(c), UNCHANGED stored,
             \/ RunsAppends(c, "skipped") \/ RunsAppends(c, "running") \/ RunsAppends(c, "raised")
             \/ RunsRaise(c, stack[1].run)
      PROVE  /\ \A d \in Runs' : Late(d)'
             /\ \A i \in DOMAIN stack', j \in DOMAIN stack :
                   stack'[i].run = stack[j].run /\ stack'[i].step = stack[j].step
                   /\ stack'[i].writes = stack[j].writes => Good(i)'
             /\ \A i \in DOMAIN stack' : stack'[i].run = Len(runs) + 1 /\ stack'[i].step = "stages"
                   /\ stack'[i].writes = {} => Good(i)'
  <2> PICK new : new = Len(runs) + 1
    OBVIOUS
  <2>1. \A r : WritesOf(r)' = WritesOf(r)
    BY <1>8, WritesSame
  <2>2. \A r \in Runs : AllWritten(r) => AllWritten(r)'
    BY <1>o, <2>1, AllWrittenKept
  <2>3. /\ \A r : Children(r)' = Children(r) \cup (IF r = stack[1].run THEN {new} ELSE {})
        /\ Children(new)' = {} /\ new \notin Runs /\ Runs' = Runs \cup {new}
    BY <1>8, ChildrenGrow
  <2>4. /\ runs'[new].parent = stack[1].run
        /\ stack[1].run \in Runs \cup {0} /\ stack[1].step = "cascade" /\ 1 \in DOMAIN stack
    BY <1>8 DEF RunsAppends, RunsRaise, RunsMeasured, IsNewRun, NextCall, StackMeasured
  <2>5. WritesOf(new) = {} /\ WritesOf(new)' = {}
    BY <2>1, WritesOfNew
  <2>6. stack[1].run # 0 => AllWritten(stack[1].run)
    BY <1>0, <2>4
  <2>7. ASSUME NEW d \in Runs'
        PROVE  Late(d)'
    <3>1. CASE d = new
      BY <2>2, <2>4, <2>5, <2>6, <3>1
    <3>2. CASE d \in Runs
      <4>1. Late(d) /\ runs'[d].parent = runs[d].parent /\ runs[d].parent \in Runs \cup {0}
        BY <1>0, <1>o, <1>p, <3>2 DEF SameCall
      <4> QED
        BY <2>1, <2>2, <4>1
    <3> QED
      BY <2>3, <3>1, <3>2
  <2>8. ASSUME NEW i \in DOMAIN stack', NEW j \in DOMAIN stack, stack'[i].run = stack[j].run,
               stack'[i].step = stack[j].step, stack'[i].writes = stack[j].writes
        PROVE  Good(i)'
    <3>1. stack[j].step = "stages" => j # 1
      BY <2>4
    <3>2. stack[j].step = "stages" => stack[j].run # stack[1].run
      BY <2>4, <3>1, FramesDiffer
    <3> PICK r \in Runs \cup {0} : r = stack[j].run
      BY <1>i
    <3>3. stack[j].step = "stages" => Children(r)' = Children(r)
      BY <2>3, <3>2
    <3>4. /\ stack[j].writes = IF r = 0 THEN {} ELSE WritesOf(r)
          /\ r # 0 /\ stack[j].step = "cascade" => AllWritten(r)
          /\ stack[j].step = "stages" => Children(r) = {}
      BY <1>0
    <3>5. /\ stack'[i].writes = IF r = 0 THEN {} ELSE WritesOf(r)'
          /\ r # 0 /\ stack'[i].step = "cascade" => AllWritten(r)'
          /\ stack'[i].step = "stages" => Children(r)' = {}
      BY <2>1, <2>2, <2>8, <3>3, <3>4
    <3> QED
      BY <2>8, <3>5
  <2>9. ASSUME NEW i \in DOMAIN stack', stack'[i].run = Len(runs) + 1, stack'[i].step = "stages",
               stack'[i].writes = {}
        PROVE  Good(i)'
    BY <2>3, <2>5, <2>9
  <2> QED
    BY <2>7, <2>8, <2>9
<1>9. ASSUME NEW c, SkipStep(c)
      PROVE  (\A i \in DOMAIN stack' : Good(i)') /\ (\A d \in Runs' : Late(d)')
  <2>1. NextCall(c) /\ RunsAppends(c, "skipped") /\ UNCHANGED stored
    BY <1>9 DEF SkipStep
  <2>2. /\ DOMAIN stack' = DOMAIN stack
        /\ \A i \in DOMAIN stack : /\ stack'[i].run = stack[i].run /\ stack'[i].step = stack[i].step
                                   /\ stack'[i].writes = stack[i].writes
    BY <1>9 DEF SkipStep, StackCalls
  <2> QED
    BY <1>8, <2>1, <2>2
<1>10. ASSUME NEW c, EnterStep(c)
       PROVE  (\A i \in DOMAIN stack' : Good(i)') /\ (\A d \in Runs' : Late(d)')
  <2>1. NextCall(c) /\ RunsAppends(c, "running") /\ UNCHANGED stored
    BY <1>10 DEF EnterStep
  <2>2. /\ stack'[1].run = Len(runs) + 1 /\ stack'[1].step = "stages" /\ stack'[1].writes = {}
        /\ \A i \in DOMAIN stack : /\ stack'[i + 1].run = stack[i].run /\ stack'[i + 1].step = stack[i].step
                                   /\ stack'[i + 1].writes = stack[i].writes
    BY <1>10 DEF EnterStep, StackEnters
  <2>3. DOMAIN stack = 1..Len(stack) /\ DOMAIN stack' = 1..(Len(stack) + 1) /\ Len(stack) \in Nat
    BY <1>10 DEF EnterStep, StackEnters, StackMeasured
  <2>4. ASSUME NEW i \in DOMAIN stack', i # 1
        PROVE  Good(i)'
    <3>1. i - 1 \in DOMAIN stack /\ (i - 1) + 1 = i
      BY <2>3, <2>4
    <3>2. /\ stack'[i].run = stack[i - 1].run /\ stack'[i].step = stack[i - 1].step
          /\ stack'[i].writes = stack[i - 1].writes
      BY <2>2, <3>1
    <3> QED
      BY <1>8, <2>1, <3>1, <3>2
  <2>5. 1 \in DOMAIN stack' => Good(1)'
    BY <1>8, <2>1, <2>2
  <2>6. \A d \in Runs' : Late(d)'
    BY <1>8, <2>1
  <2> QED
    BY <2>4, <2>5, <2>6
<1>11. ASSUME NEW c, RaiseInTaskStep(c)
       PROVE  (\A i \in DOMAIN stack' : Good(i)') /\ (\A d \in Runs' : Late(d)')
  <2>1. NextCall(c) /\ RunsAppends(c, "raised") /\ UNCHANGED stored /\ DOMAIN stack' = {}
    BY <1>11 DEF RaiseInTaskStep, StackClears
  <2>2. \A d \in Runs' : Late(d)'
    BY <1>8, <2>1
  <2> QED
    BY <2>1, <2>2
<1>12. StackPops => \A i \in DOMAIN stack' : i + 1 \in DOMAIN stack /\ stack'[i] = stack[i + 1]
  BY DEF StackPops, StackMeasured
<1>13. ASSUME NEW c, RaiseInRunStep(c)
       PROVE  (\A i \in DOMAIN stack' : Good(i)') /\ (\A d \in Runs' : Late(d)')
  <2>1. NextCall(c) /\ RunsRaise(c, stack[1].run) /\ UNCHANGED stored /\ StackPops
    BY <1>13 DEF RaiseInRunStep
  <2>2. \A d \in Runs' : Late(d)'
    BY <1>8, <2>1
  <2>3. \A i \in DOMAIN stack' : Good(i)'
    BY <1>8, <1>12, <2>1
  <2> QED
    BY <2>2, <2>3
<1>14. CASE WriteStep
  <2> DEFINE t == stack[1].run
             n == Len(stored) + 1
  <2>1. t \in Runs /\ 1 \in DOMAIN stack /\ stack[1].step = "stages" /\ Runs' = Runs /\ UNCHANGED runs
    BY <1>14 DEF WriteStep, StackMeasured, Runs
  <2>2. /\ \A r : WritesOf(r)' = WritesOf(r) \cup (IF r = t THEN {n} ELSE {})
        /\ \A r : \A m \in WritesOf(r) : m < n
    BY <1>14, WritesGrow DEF WriteStep
  <2>3. Children(t) = {} /\ stack[1].writes = WritesOf(t) /\ t # 0
    BY <1>0, <2>1, RunsMeasuredFacts DEF RunsMeasured
  <2>4. \A r : Children(r)' = Children(r)
    BY <1>o, <2>1, ChildrenSame
  <2>5. \A r \in Runs : r # t /\ AllWritten(r) => AllWritten(r)'
    BY <1>o, <2>2, AllWrittenKept
  <2>6. ASSUME NEW c \in Runs'
        PROVE  Late(c)'
    <3>1. Late(c) /\ runs'[c].parent = runs[c].parent /\ c \in Runs /\ runs[c].parent \in Runs \cup {0}
      BY <1>0, <1>p, <2>1
    <3>2. runs[c].parent # t
      BY <2>1, <2>3 DEF Children
    <3> QED
      BY <2>2, <2>5, <3>1, <3>2
  <2>7. ASSUME NEW i \in DOMAIN stack'
        PROVE  Good(i)'
    <3>1. /\ i \in DOMAIN stack /\ (i # 1 => stack'[i] = stack[i])
          /\ stack'[1].run = t /\ stack'[1].step = "stages" /\ stack'[1].writes = stack[1].writes \cup {n}
      BY <1>14, <2>7 DEF WriteStep
    <3>2. CASE i = 1
      BY <2>2, <2>3, <2>4, <3>1, <3>2
    <3>3. CASE i # 1
      <4>1. stack[i].run # t
        BY <2>1, <3>1, <3>3, FramesDiffer
      <4> QED
        BY <1>0, <1>i, <2>2, <2>4, <2>5, <3>1, <3>3, <4>1
    <3> QED
      BY <3>2, <3>3
  <2> QED
    BY <2>6, <2>7
<1>15. ASSUME NEW status, EndStep(status)
       PROVE  (\A i \in DOMAIN stack' : Good(i)') /\ (\A d \in Runs' : Late(d)')
  <2>1. Runs' = Runs /\ StackPops /\ UNCHANGED stored
    BY <1>15 DEF EndStep, RunsEnd
  <2>2. \A d \in Runs' : Late(d)'
    BY <1>2, <1>5, <2>1
  <2>3. \A i \in DOMAIN stack' : Good(i)'
    BY <1>2, <1>5, <1>12, <2>1
  <2> QED
    BY <2>2, <2>3
<1>16. CASE FinishStagesStep
  <2>1. Runs' = Runs /\ UNCHANGED <<stored, runs>> /\ 1 \in DOMAIN stack /\ stack[1].run \in Runs
    BY <1>16 DEF FinishStagesStep, Runs, StackMeasured
  <2> PICK r \in Runs : r = stack[1].run
    BY <2>1
  <2>2. r # 0 /\ stack[1].writes = WritesOf(r)
    BY <1>0, <2>1, RunsMeasuredFacts DEF RunsMeasured
  <2>3. AllWritten(r)
    BY <1>16, <2>2 DEF FinishStagesStep, AllWritten
  <2>4. AllWritten(r)' /\ WritesOf(r)' = WritesOf(r)
    BY <1>o, <1>5, <2>1, <2>3, AllWrittenKept
  <2>5. ASSUME NEW i \in DOMAIN stack'
        PROVE  Good(i)'
    <3>1. /\ i \in DOMAIN stack /\ (i # 1 => stack'[i] = stack[i])
          /\ stack'[1].run = r /\ stack'[1].step = "cascade"
          /\ stack'[1].writes = stack[1].writes
      BY <1>16, <2>5 DEF FinishStagesStep
    <3>2. CASE i = 1
      BY <2>2, <2>4, <3>1, <3>2
    <3>3. CASE i # 1
      BY <1>2, <1>5, <2>1, <3>1, <3>3
    <3> QED
      BY <3>2, <3>3
  <2>6. \A d \in Runs' : Late(d)'
    BY <1>2, <1>5, <2>1
  <2> QED
    BY <2>5, <2>6
<1>17. CASE ReturnTaskStep \/ CrashStep
  <2>1. Runs' = Runs /\ DOMAIN stack' = {} /\ UNCHANGED stored
    BY <1>17 DEF ReturnTaskStep, CrashStep, StackClears, Runs
  <2>2. \A d \in Runs' : Late(d)'
    BY <1>2, <1>5, <2>1
  <2> QED
    BY <2>1, <2>2
<1> QED
  BY <1>6, <1>7, <1>9, <1>10, <1>11, <1>13, <1>14, <1>15, <1>16, <1>17 DEF AnyStep
-----------------------------------------------------------------------------
(* Logs wait, are stored or lost.                                          *)

\* Where no log is made or taken.
LEMMA LoggingKept ==
  ASSUME Base, Logging, UNCHANGED ready, Runs \subseteq Runs',
         \A r \in Runs : runs'[r] = runs[r],
         \A r \in Runs' \ Runs : runs'[r].log = "none"
  PROVE  Logging'
<1>1. \A i : IsLog(i)' = IsLog(i)
  BY DEF IsLog
<1>2. \A i : IsLog(i) => ready[i].id \in Runs
  BY DEF Base, Ranges, IsLog
<1>3. \A r \in Runs' : runs'[r].status = "running" => runs'[r].log = "none"
  BY DEF Logging
<1>4. \A r \in Runs' : runs'[r].log = "queued" =>
         \E i \in DOMAIN ready' : IsLog(i)' /\ ready'[i].id = r
  BY <1>1 DEF Logging
<1>5. \A i \in DOMAIN ready' : IsLog(i)' => runs'[ready'[i].id].log = "queued"
  BY <1>1, <1>2 DEF Logging
<1>6. \A i, j \in DOMAIN ready' : IsLog(i)' /\ IsLog(j)' =>
         /\ ready'[i].id = ready'[j].id => i = j
         /\ runs'[ready'[i].id].parent = ready'[j].id => i < j
  BY <1>1, <1>2 DEF Logging
<1>7. LogsComeChildrenFirst'
  <2> SUFFICES ASSUME NEW c \in Runs', runs'[c].parent # 0,
                      runs'[runs'[c].parent].log = "stored"
               PROVE  runs'[c].log # "queued"
    BY DEF LogsComeChildrenFirst
  <2>1. CASE c \in Runs
    <3>1. runs[c].parent \in Runs /\ runs'[c] = runs[c]
      BY <2>1, ParentFacts
    <3> QED
      BY <2>1, <3>1 DEF Logging, LogsComeChildrenFirst
  <2> QED
    BY <2>1
<1> QED
  BY <1>3, <1>4, <1>5, <1>6, <1>7 DEF Logging

\* A task that is no log is made ...
LEMMA LoggingPush ==
  ASSUME Base, Logging, NEW n, ReadyAppends("pipelines", n), UNCHANGED runs
  PROVE  Logging'
<1>1. \A i : IsLog(i)' = IsLog(i)
  BY DEF IsLog, ReadyAppends
<1>2. \A i : IsLog(i) => i \in DOMAIN ready /\ ready'[i] = ready[i] /\ i \in DOMAIN ready'
  BY DEF IsLog, ReadyAppends
<1> QED
  BY <1>1, <1>2 DEF Logging, LogsComeChildrenFirst, Runs

\* ... or taken.
LEMMA LoggingTake ==
  ASSUME Base, Logging, ReadyTails, ready[1].kind = "pipelines", UNCHANGED runs
  PROVE  Logging'
<1>1. \A i \in DOMAIN ready' : /\ IsLog(i)' = IsLog(i + 1) /\ ready'[i] = ready[i + 1]
                               /\ i + 1 \in DOMAIN ready
  BY DEF IsLog, ReadyTails
<1>2. \A i : IsLog(i) => i - 1 \in DOMAIN ready' /\ (i - 1) + 1 = i
  BY DEF IsLog, ReadyTails
<1>3. DOMAIN ready \subseteq Int /\ DOMAIN ready' \subseteq Int
  BY DEF ReadyTails
<1>4. \A r \in Runs : runs[r].log = "queued" =>
         \E i \in DOMAIN ready' : IsLog(i)' /\ ready'[i].id = r
  <2> SUFFICES ASSUME NEW r \in Runs, runs[r].log = "queued"
               PROVE  \E i \in DOMAIN ready' : IsLog(i)' /\ ready'[i].id = r
    OBVIOUS
  <2>1. PICK i \in DOMAIN ready : IsLog(i) /\ ready[i].id = r
    BY DEF Logging
  <2>2. i - 1 \in DOMAIN ready' /\ (i - 1) + 1 = i
    BY <1>2, <2>1
  <2> QED
    BY <1>1, <2>1, <2>2
<1>5. \A i \in DOMAIN ready' : IsLog(i)' => runs[ready'[i].id].log = "queued"
  BY <1>1 DEF Logging
<1>6. ASSUME NEW i \in DOMAIN ready', NEW j \in DOMAIN ready', IsLog(i)', IsLog(j)'
      PROVE  /\ ready'[i].id = ready'[j].id => i = j
             /\ runs[ready'[i].id].parent = ready'[j].id => i < j
  <2>1. /\ ready[i + 1].id = ready[j + 1].id => i + 1 = j + 1
        /\ runs[ready[i + 1].id].parent = ready[j + 1].id => i + 1 < j + 1
    BY <1>1, <1>6 DEF Logging
  <2> QED
    BY <1>1, <1>3, <2>1
<1> QED
  BY <1>4, <1>5, <1>6 DEF Logging, LogsComeChildrenFirst, Runs

\* The oldest log is stored or lost.
LEMMA LoggingTakeLog ==
  ASSUME Base, Logging, ReadyTails, ready[1].kind = "monitor", NEW log \in {"stored", "lost"},
         RunsLog(ready[1].id, log)
  PROVE  Logging'
<1> PICK r \in Runs : r = ready[1].id
  BY DEF RunsLog
<1>1. \A i \in DOMAIN ready' : /\ IsLog(i)' = IsLog(i + 1) /\ ready'[i] = ready[i + 1]
                               /\ i + 1 \in DOMAIN ready /\ i \in Int /\ i + 1 # 1
  BY DEF IsLog, ReadyTails
<1>2. \A i \in DOMAIN ready : i # 1 => i - 1 \in DOMAIN ready' /\ (i - 1) + 1 = i
  BY DEF ReadyTails
<1>3. \A i : IsLog(i) => ready[i].id \in Runs
  BY DEF Base, Ranges, IsLog
<1>4. IsLog(1) /\ 1 \in DOMAIN ready /\ ready[1].id = r
  BY DEF IsLog, ReadyTails
<1>5. \A x \in Runs : /\ SameCall(x) /\ runs'[x].status = runs[x].status
                      /\ runs'[x].log = IF x = r THEN log ELSE runs[x].log
  BY DEF RunsLog, SameCall
<1>6. Runs' = Runs /\ runs[r].log = "queued"
  BY <1>4 DEF RunsLog, Logging
<1>7. \A i \in DOMAIN ready' : IsLog(i)' => ready'[i].id \in Runs /\ ready'[i].id # r
  BY <1>1, <1>3, <1>4 DEF Logging
<1>8. \A x \in Runs' : runs'[x].status = "running" => runs'[x].log = "none"
  BY <1>5, <1>6 DEF Logging
<1>9. \A x \in Runs' : runs'[x].log = "queued" =>
         \E i \in DOMAIN ready' : IsLog(i)' /\ ready'[i].id = x
  <2> SUFFICES ASSUME NEW x \in Runs, runs'[x].log = "queued"
               PROVE  \E i \in DOMAIN ready' : IsLog(i)' /\ ready'[i].id = x
    BY <1>6
  <2>1. x # r /\ runs[x].log = "queued"
    BY <1>5
  <2>2. PICK i \in DOMAIN ready : IsLog(i) /\ ready[i].id = x
    BY <2>1 DEF Logging
  <2>3. i - 1 \in DOMAIN ready' /\ (i - 1) + 1 = i
    BY <1>2, <2>1, <2>2
  <2> QED
    BY <1>1, <2>2, <2>3
<1>10. \A i \in DOMAIN ready' : IsLog(i)' => runs'[ready'[i].id].log = "queued"
  BY <1>1, <1>5, <1>7 DEF Logging
<1>11. ASSUME NEW i \in DOMAIN ready', NEW j \in DOMAIN ready', IsLog(i)', IsLog(j)'
       PROVE  /\ ready'[i].id = ready'[j].id => i = j
              /\ runs'[ready'[i].id].parent = ready'[j].id => i < j
  <2>1. /\ ready[i + 1].id = ready[j + 1].id => i + 1 = j + 1
        /\ runs[ready[i + 1].id].parent = ready[j + 1].id => i + 1 < j + 1
    BY <1>1, <1>11 DEF Logging
  <2>2. runs'[ready'[i].id].parent = runs[ready'[i].id].parent
    BY <1>5, <1>7, <1>11 DEF SameCall
  <2> QED
    BY <1>1, <2>1, <2>2
<1>12. LogsComeChildrenFirst'
  <2> SUFFICES ASSUME NEW c \in Runs, runs'[c].parent # 0,
                      runs'[runs'[c].parent].log = "stored", runs'[c].log = "queued"
               PROVE  FALSE
    BY <1>6 DEF LogsComeChildrenFirst
  <2>1. runs[c].parent \in Runs /\ runs'[c].parent = runs[c].parent /\ c # r
        /\ runs[c].log = "queued"
    BY <1>5, ParentFacts DEF SameCall
  <2>2. runs[c].parent = r
    BY <1>5, <2>1 DEF Logging, LogsComeChildrenFirst
  <2>3. PICK i \in DOMAIN ready : IsLog(i) /\ ready[i].id = c
    BY <2>1 DEF Logging
  <2>4. i < 1
    BY <1>4, <2>2, <2>3 DEF Logging
  <2> QED
    BY <2>4 DEF ReadyTails
<1> QED
  BY <1>8, <1>9, <1>10, <1>11, <1>12 DEF Logging

\* The innermost run ends: its caller has not, so its log comes first.
LEMMA LoggingEnds ==
  ASSUME Base, Logging, NEW r, NEW status, Ends(r, status), status # "running",
         runs[r].status = "running",
         runs[r].parent # 0 => runs[runs[r].parent].status = "running",
         Runs \subseteq Runs',
         \A x \in Runs : x # r => runs'[x] = runs[x],
         \A x \in Runs' \ Runs : runs'[x].log = "none"
  PROVE  Logging'
<1>1. /\ r \in Runs /\ SameCall(r) /\ runs'[r].status = status
      /\ runs'[r].log \in {"none", "queued"}
      /\ runs'[r].log = "queued" => ReadyAppends("monitor", r)
      /\ runs'[r].log = "none" => ready' = ready
  BY DEF Ends
<1>2. runs[r].log = "none"
  BY <1>1 DEF Logging
<1>3. \A x \in Runs : runs'[x].parent = runs[x].parent
  BY <1>1 DEF SameCall
<1>4. /\ \A i : IsLog(i) => /\ IsLog(i)' /\ i \in DOMAIN ready /\ ready'[i] = ready[i]
                            /\ ready[i].id \in Runs /\ ready[i].id # r
      /\ DOMAIN ready \subseteq DOMAIN ready'
  <2>1. \A i : IsLog(i) => i \in DOMAIN ready /\ ready[i].id \in Runs /\ ready[i].id # r
    BY <1>2 DEF Base, Ranges, IsLog, Logging
  <2>2. DOMAIN ready \subseteq DOMAIN ready' /\ \A i \in DOMAIN ready : ready'[i] = ready[i]
    BY <1>1 DEF ReadyAppends
  <2> QED
    BY <2>1, <2>2 DEF IsLog
<1>5. \A i : IsLog(i)' => \/ IsLog(i)
                          \/ /\ i \in DOMAIN ready' /\ ready'[i].id = r /\ runs'[r].log = "queued"
                             /\ \A j \in DOMAIN ready : j < i
                             /\ \A j \in DOMAIN ready' : j \in DOMAIN ready \/ j = i
  BY <1>1 DEF IsLog, ReadyAppends
<1>6. runs'[r].log = "queued" => \E i \in DOMAIN ready' : IsLog(i)' /\ ready'[i].id = r
  <2> SUFFICES ASSUME ReadyAppends("monitor", r)
               PROVE  \E i \in DOMAIN ready' : IsLog(i)' /\ ready'[i].id = r
    BY <1>1
  <2> PICK i : i = Len(ready) + 1
    OBVIOUS
  <2>1. i \in DOMAIN ready' /\ ready'[i].kind = "monitor" /\ ready'[i].id = r
    BY DEF ReadyAppends
  <2> QED
    BY <2>1 DEF IsLog
<1>7. \A x \in Runs' : runs'[x].status = "running" => runs'[x].log = "none"
  BY <1>1 DEF Logging
<1>8. \A x \in Runs' : runs'[x].log = "queued" =>
         \E i \in DOMAIN ready' : IsLog(i)' /\ ready'[i].id = x
  <2> SUFFICES ASSUME NEW x \in Runs, x # r, runs[x].log = "queued"
               PROVE  \E i \in DOMAIN ready' : IsLog(i)' /\ ready'[i].id = x
    BY <1>6
  <2>1. PICK i \in DOMAIN ready : IsLog(i) /\ ready[i].id = x
    BY DEF Logging
  <2> QED
    BY <1>4, <2>1
<1>9. \A i \in DOMAIN ready' : IsLog(i)' => runs'[ready'[i].id].log = "queued"
  BY <1>4, <1>5 DEF Logging
<1>10. ASSUME NEW i \in DOMAIN ready', NEW j \in DOMAIN ready', IsLog(i)', IsLog(j)'
       PROVE  /\ ready'[i].id = ready'[j].id => i = j
              /\ runs'[ready'[i].id].parent = ready'[j].id => i < j
  <2>1. CASE IsLog(i) /\ IsLog(j)
    <3>1. ready'[i] = ready[i] /\ ready'[j] = ready[j] /\ i \in DOMAIN ready /\ j \in DOMAIN ready
          /\ runs'[ready[i].id].parent = runs[ready[i].id].parent
      BY <1>3, <1>4, <2>1
    <3> QED
      BY <2>1, <3>1 DEF Logging
  <2>2. CASE IsLog(i) /\ ~IsLog(j)
    <3>1. ready'[i].id # r /\ ready'[j].id = r /\ i < j
      BY <1>4, <1>5, <1>10, <2>2
    <3> QED
      BY <3>1
  <2>3. CASE ~IsLog(i) /\ IsLog(j)
    <3>1. ready'[i].id = r /\ ready'[j].id # r /\ ready'[j].id = ready[j].id /\ ready[j].id \in Runs
      BY <1>4, <1>5, <1>10, <2>3
    <3>2. runs'[r].parent = runs[r].parent
      BY <1>1, <1>3
    <3>3. \A x \in Runs : x # 0
      BY RunsMeasuredFacts DEF RunsMeasured
    <3>4. runs[ready[j].id].log = "queued"
      BY <1>4, <2>3 DEF Logging
    <3>5. runs[r].parent # ready[j].id
      BY <3>1, <3>3, <3>4 DEF Logging
    <3> QED
      BY <3>1, <3>2, <3>5
  <2>4. CASE ~IsLog(i) /\ ~IsLog(j)
    <3>1. ready'[i].id = r /\ ready'[j].id = r /\ (j \in DOMAIN ready \/ j = i)
          /\ (j \in DOMAIN ready => j < i) /\ (i \in DOMAIN ready \/ i = j)
          /\ (i \in DOMAIN ready => i < j)
      BY <1>5, <1>10, <2>4
    <3>2. runs'[r].parent = runs[r].parent /\ runs[r].parent # r
      BY <1>1, <1>3, ParentFacts
    <3>3. DOMAIN ready \subseteq Int
      BY DEF Base, Types
    <3> QED
      BY <3>1, <3>2, <3>3
  <2> QED
    BY <2>1, <2>2, <2>3, <2>4
<1>11. LogsComeChildrenFirst'
  <2> SUFFICES ASSUME NEW c \in Runs', runs'[c].parent # 0,
                      runs'[runs'[c].parent].log = "stored", runs'[c].log = "queued"
               PROVE  FALSE
    BY DEF LogsComeChildrenFirst
  <2>1. c \in Runs /\ runs'[c].parent = runs[c].parent /\ runs[c].parent \in Runs
    BY <1>3, ParentFacts
  <2>2. runs[c].parent # r /\ runs[runs[c].parent].log = "stored"
    BY <1>1, <2>1
  <2>3. c # r
    BY <2>1, <2>2 DEF Logging
  <2> QED
    BY <2>1, <2>2, <2>3 DEF Logging, LogsComeChildrenFirst
<1> QED
  BY <1>7, <1>8, <1>9, <1>10, <1>11 DEF Logging

\* The innermost run is running, and so is the one that called it.
LEMMA TopRuns ==
  ASSUME Base, StackMeasured, stack[1].run \in Runs
  PROVE  /\ runs[stack[1].run].status = "running"
         /\ runs[stack[1].run].parent # 0 =>
               runs[runs[stack[1].run].parent].status = "running"
<1>1. Len(stack) # 1
  BY RunsMeasuredFacts DEF Base, Frames, StackMeasured, RunsMeasured
<1>2. 1 \in DOMAIN stack /\ 2 \in DOMAIN stack /\ 1 + 1 = 2
  BY <1>1 DEF StackMeasured
<1>3. /\ runs[stack[1].run].status = "running"
      /\ runs[stack[1].run].parent = stack[2].run
  BY <1>1, <1>2 DEF Base, Frames
<1>4. stack[2].run # 0 => runs[stack[2].run].status = "running"
  BY <1>2 DEF Base, Frames
<1> QED
  BY <1>3, <1>4

LEMMA LoggingStep ==
  ASSUME Base, Logging, [Next]_vars
  PROVE  Logging'
<1>1. CASE UNCHANGED vars
  BY <1>1, LoggingKept DEF vars, Runs
<1> SUFFICES ASSUME AnyStep
             PROVE  Logging'
  BY <1>1, EveryStep
<1>2. CASE PushStep \/ WriteStep \/ FinishStagesStep \/ ReturnTaskStep
  <2>1. UNCHANGED <<ready, runs>>
    BY <1>2 DEF PushStep, WriteStep, FinishStagesStep, ReturnTaskStep
  <2> QED
    BY <2>1, LoggingKept DEF Runs
<1>3. CASE PushAsyncStep
  BY <1>3, LoggingPush DEF PushAsyncStep
<1>4. CASE TurnPipelinesStep
  BY <1>4, LoggingTake DEF TurnPipelinesStep
<1>5. CASE TurnMonitorStep \/ TurnMonitorRaisesStep
  BY <1>5, LoggingTakeLog DEF TurnMonitorStep, TurnMonitorRaisesStep
<1>6. ASSUME NEW c, SkipStep(c) \/ EnterStep(c) \/ RaiseInTaskStep(c)
      PROVE  Logging'
  <2>1. UNCHANGED ready /\ (RunsAppends(c, "skipped") \/ RunsAppends(c, "running") \/ RunsAppends(c, "raised"))
    BY <1>6 DEF SkipStep, EnterStep, RaiseInTaskStep
  <2>2. /\ Runs \subseteq Runs' /\ \A r \in Runs : runs'[r] = runs[r]
        /\ \A r \in Runs' \ Runs : runs'[r].log = "none"
    BY <2>1 DEF RunsAppends, RunsMeasured, IsNewRun
  <2> QED
    BY <2>1, <2>2, LoggingKept
<1>7. ASSUME NEW c, RaiseInRunStep(c)
      PROVE  Logging'
  <2> PICK r : r = stack[1].run
    OBVIOUS
  <2>1. /\ StackMeasured /\ stack[1].run \in Runs /\ Ends(r, "ERROR") /\ RunsRaise(c, r)
    BY <1>7 DEF RaiseInRunStep, NextCall, RunsRaise
  <2>2. /\ Runs \subseteq Runs' /\ \A x \in Runs : x # r => runs'[x] = runs[x]
        /\ \A x \in Runs' \ Runs : runs'[x].log = "none"
    BY <2>1 DEF RunsRaise, RunsMeasured, IsNewRun
  <2>3. /\ runs[r].status = "running"
        /\ runs[r].parent # 0 => runs[runs[r].parent].status = "running"
    BY <2>1, TopRuns
  <2> QED
    BY <2>1, <2>2, <2>3, LoggingEnds
<1>8. ASSUME NEW status \in {"ERROR", "FINISHED"}, EndStep(status)
      PROVE  Logging'
  <2> PICK r : r = stack[1].run
    OBVIOUS
  <2>1. /\ StackMeasured /\ stack[1].run \in Runs /\ Ends(r, status) /\ RunsEnd(r, status)
    BY <1>8 DEF EndStep, RunsEnd
  <2>2. Runs' = Runs /\ \A x \in Runs : x # r => runs'[x] = runs[x]
    BY <2>1 DEF RunsEnd
  <2>3. /\ runs[r].status = "running"
        /\ runs[r].parent # 0 => runs[runs[r].parent].status = "running"
    BY <2>1, TopRuns
  <2>4. status # "running"
    OBVIOUS
  <2> QED
    BY <2>1, <2>2, <2>3, <2>4, LoggingEnds
<1>9. CASE CrashStep
  <2>1. /\ DOMAIN ready' = {} /\ Runs' = Runs
        /\ \A r \in Runs : runs'[r].log # "queued" /\ runs'[r].status # "running"
    BY <1>9 DEF CrashStep
  <2> QED
    BY <2>1 DEF Logging, LogsComeChildrenFirst, IsLog
<1> QED
  BY <1>2, <1>3, <1>4, <1>5, <1>6, <1>7, <1>8, <1>9 DEF AnyStep
-----------------------------------------------------------------------------
(* Monitoring is quiet.                                                    *)

\* A frame of a step is that of a task, or calls nothing more, or was there before and
\* has at most the calls it had.
FramesFollow ==
    \A i \in DOMAIN stack' :
        \/ stack'[i].run = 0
        \/ stack'[i].queue = {}
        \/ \E j \in DOMAIN stack : /\ stack'[i].run = stack[j].run
                                   /\ stack'[i].queue \subseteq stack[j].queue

LEMMA FramesFollowFacts ==
  ASSUME Base, AnyStep, ~FinishStagesStep
  PROVE  FramesFollow
<1>1. ASSUME NEW n, StackStarts(n)
      PROVE  FramesFollow
  BY <1>1 DEF StackStarts, FramesFollow
<1>2. ASSUME UNCHANGED stack
      PROVE  FramesFollow
  BY <1>2 DEF FramesFollow
<1>3. ASSUME NEW c, StackCalls(c)
      PROVE  FramesFollow
  BY <1>3 DEF StackCalls, FramesFollow
<1>4. ASSUME NEW c, NEW r, StackEnters(c, r)
      PROVE  FramesFollow
  <2> SUFFICES ASSUME NEW i \in DOMAIN stack', i # 1
               PROVE  \E j \in DOMAIN stack : /\ stack'[i].run = stack[j].run
                                              /\ stack'[i].queue \subseteq stack[j].queue
    BY <1>4 DEF StackEnters, FramesFollow
  <2>1. i - 1 \in DOMAIN stack /\ (i - 1) + 1 = i
    BY <1>4 DEF StackEnters, StackMeasured
  <2>2. \A j \in DOMAIN stack : /\ stack'[j + 1].run = stack[j].run
                                /\ stack'[j + 1].queue \subseteq stack[j].queue
    BY <1>4 DEF StackEnters
  <2> QED
    BY <2>1, <2>2
<1>5. ASSUME StackPops
      PROVE  FramesFollow
  <2>1. \A i \in DOMAIN stack' : i + 1 \in DOMAIN stack /\ stack'[i] = stack[i + 1]
    BY <1>5 DEF StackPops, StackMeasured
  <2> QED
    BY <2>1 DEF FramesFollow
<1>6. ASSUME StackClears
      PROVE  FramesFollow
  BY <1>6 DEF StackClears, FramesFollow
<1>7. CASE WriteStep
  <2>1. /\ DOMAIN stack' = DOMAIN stack
        /\ \A i \in DOMAIN stack : stack'[i].run = stack[i].run /\ stack'[i].queue = stack[i].queue
    BY <1>7 DEF WriteStep
  <2> QED
    BY <2>1 DEF FramesFollow
<1>8. CASE PushStep \/ PushAsyncStep \/ TurnPipelinesStep \/ TurnMonitorStep \/ TurnMonitorRaisesStep
  BY <1>1, <1>2, <1>8 DEF PushStep, PushAsyncStep, TurnPipelinesStep, TurnMonitorStep,
                          TurnMonitorRaisesStep
<1>9. ASSUME NEW c, SkipStep(c) \/ EnterStep(c) \/ RaiseInTaskStep(c) \/ RaiseInRunStep(c)
      PROVE  FramesFollow
  BY <1>3, <1>4, <1>5, <1>6, <1>9 DEF SkipStep, EnterStep, RaiseInTaskStep, RaiseInRunStep
<1>10. ASSUME NEW status, EndStep(status)
       PROVE  FramesFollow
  BY <1>5, <1>10 DEF EndStep
<1>11. CASE ReturnTaskStep \/ CrashStep
  BY <1>6, <1>11 DEF ReturnTaskStep, CrashStep
<1> QED
  BY <1>7, <1>8, <1>9, <1>10, <1>11 DEF AnyStep

LEMMA SystemRunsStep ==
  ASSUME Base, Logging, SystemRuns, [Next]_vars
  PROVE  SystemRuns'
<1> DEFINE Silent(r) == IsSystem(runs[r].pipeline) => Children(r) = {} /\ runs[r].log = "none"
           Done(i) == stack[i].run # 0 /\ IsSystem(runs[stack[i].run].pipeline) => stack[i].queue = {}
<1>0. (\A r \in Runs : Silent(r)) /\ (\A i \in DOMAIN stack : Done(i))
  BY DEF SystemRuns
<1> SUFFICES (\A r \in Runs' : Silent(r)') /\ (\A i \in DOMAIN stack' : Done(i)')
  BY DEF SystemRuns
<1>1. CASE UNCHANGED vars
  BY <1>0, <1>1 DEF vars, Children, Runs, IsSystem
<1> SUFFICES ASSUME AnyStep
             PROVE  (\A r \in Runs' : Silent(r)') /\ (\A i \in DOMAIN stack' : Done(i)')
  BY <1>1, EveryStep
<1>o. Runs \subseteq Runs' /\ \A r \in Runs : SameCall(r)
  BY OldRuns
<1>i. \A i \in DOMAIN stack : stack[i].run \in Runs \cup {0}
  BY DEF Base, Ranges
<1>2. ASSUME FramesFollow
      PROVE  \A i \in DOMAIN stack' : Done(i)'
  <2> SUFFICES ASSUME NEW i \in DOMAIN stack', stack'[i].run # 0,
                      IsSystem(runs'[stack'[i].run].pipeline), stack'[i].queue # {}
               PROVE  FALSE
    BY DEF IsSystem
  <2>1. PICK j \in DOMAIN stack : /\ stack'[i].run = stack[j].run
                                  /\ stack'[i].queue \subseteq stack[j].queue
    BY <1>2 DEF FramesFollow
  <2>2. stack[j].run \in Runs /\ IsSystem(runs[stack[j].run].pipeline)
    BY <1>i, <1>o, <2>1 DEF SameCall
  <2>3. stack[j].run # 0
    BY <2>1
  <2> QED
    BY <1>0, <2>1, <2>2, <2>3
<1>3. CASE FinishStagesStep
  <2>1. UNCHANGED runs /\ Runs' = Runs
    BY <1>3 DEF FinishStagesStep, Runs
  <2>2. \A r \in Runs' : Silent(r)'
    BY <1>0, <2>1 DEF Children, IsSystem
  <2>3. ASSUME NEW i \in DOMAIN stack'
        PROVE  Done(i)'
    <3>1. /\ i \in DOMAIN stack /\ (i # 1 => stack'[i] = stack[i])
          /\ stack'[1].run = stack[1].run
          /\ IsSystem(runs[stack[1].run].pipeline) => stack'[1].queue = {}
      BY <1>3, <2>3 DEF FinishStagesStep
    <3>2. CASE i = 1
      BY <2>1, <3>1, <3>2 DEF IsSystem
    <3>3. CASE i # 1
      BY <1>0, <2>1, <3>1, <3>3 DEF IsSystem
    <3> QED
      BY <3>2, <3>3
  <2> QED
    BY <2>2, <2>3
<1> SUFFICES ASSUME ~FinishStagesStep
             PROVE  \A r \in Runs' : Silent(r)'
  BY <1>2, <1>3, FramesFollowFacts
\* Where no run is called.
<1>4. ASSUME Runs' = Runs,
             \A r \in Runs : IsSystem(runs[r].pipeline) /\ runs[r].log = "none" => runs'[r].log = "none"
      PROVE  \A r \in Runs' : Silent(r)'
  <2>1. \A r : Children(r)' = Children(r)
    BY <1>o, <1>4, ChildrenSame
  <2> SUFFICES ASSUME NEW r \in Runs, IsSystem(runs'[r].pipeline)
               PROVE  Children(r)' = {} /\ runs'[r].log = "none"
    BY <1>4 DEF IsSystem
  <2>2. IsSystem(runs[r].pipeline)
    BY <1>o DEF SameCall
  <2> QED
    BY <1>0, <1>4, <2>1, <2>2
<1>5. CASE PushStep \/ PushAsyncStep \/ TurnPipelinesStep \/ WriteStep \/ ReturnTaskStep
  <2>1. UNCHANGED runs /\ Runs' = Runs
    BY <1>5 DEF PushStep, PushAsyncStep, TurnPipelinesStep, WriteStep, ReturnTaskStep, Runs
  <2> QED
    BY <1>4, <2>1
<1>6. CASE TurnMonitorStep \/ TurnMonitorRaisesStep
  <2> PICK log, r : /\ RunsLog(r, log) /\ r = ready[1].id /\ 1 \in DOMAIN ready
                    /\ ready[1].kind = "monitor"
    BY <1>6 DEF TurnMonitorStep, TurnMonitorRaisesStep, ReadyTails
  <2>1. runs[r].log = "queued" /\ Runs' = Runs /\ \A x \in Runs : x # r => runs'[x] = runs[x]
    BY DEF Logging, IsLog, RunsLog
  <2> QED
    BY <1>4, <2>1
<1>7. ASSUME NEW status, EndStep(status)
      PROVE  \A r \in Runs' : Silent(r)'
  <2> PICK r : r = stack[1].run /\ Ends(r, status) /\ RunsEnd(r, status)
    BY <1>7 DEF EndStep, RunsEnd
  <2>1. /\ Runs' = Runs /\ \A x \in Runs : x # r => runs'[x] = runs[x]
        /\ IsSystem(runs[r].pipeline) => runs'[r].log = "none"
    BY DEF Ends, RunsEnd
  <2> QED
    BY <1>4, <2>1
<1>8. CASE CrashStep
  BY <1>4, <1>8 DEF CrashStep
\* A call: its run is not on a system topic, as it has calls to make.
<1>9. ASSUME NEW c, NextCall(c),
             \/ RunsAppends(c, "skipped") \/ RunsAppends(c, "running") \/ RunsAppends(c, "raised")
             \/ RunsRaise(c, stack[1].run)
      PROVE  \A r \in Runs' : Silent(r)'
  <2> PICK new : new = Len(runs) + 1
    OBVIOUS
  <2>1. /\ \A r : Children(r)' = Children(r) \cup (IF r = stack[1].run THEN {new} ELSE {})
        /\ Children(new)' = {} /\ Runs' = Runs \cup {new}
    BY <1>9, ChildrenGrow
  <2>2. /\ runs'[new].log = "none"
        /\ \A r \in Runs : IsSystem(runs[r].pipeline) /\ runs[r].log = "none" => runs'[r].log = "none"
    BY <1>9 DEF RunsAppends, RunsRaise, IsNewRun, Ends
  <2>3. stack[1].run # 0 => ~IsSystem(runs[stack[1].run].pipeline)
    BY <1>0, <1>9 DEF NextCall, StackMeasured
  <2> SUFFICES ASSUME NEW r \in Runs', IsSystem(runs'[r].pipeline)
               PROVE  Children(r)' = {} /\ runs'[r].log = "none"
    BY DEF IsSystem
  <2>4. CASE r = new
    BY <2>1, <2>2, <2>4
  <2>5. CASE r \in Runs
    <3>1. IsSystem(runs[r].pipeline) /\ r # 0
      BY <1>o, <2>5, RunsMeasuredFacts DEF SameCall, RunsMeasured
    <3>2. r # stack[1].run
      BY <2>3, <3>1
    <3> QED
      BY <1>0, <2>1, <2>2, <2>5, <3>1, <3>2
  <2> QED
    BY <2>1, <2>4, <2>5
<1>10. ASSUME NEW c, SkipStep(c) \/ EnterStep(c) \/ RaiseInTaskStep(c) \/ RaiseInRunStep(c)
       PROVE  \A r \in Runs' : Silent(r)'
  BY <1>9, <1>10 DEF SkipStep, EnterStep, RaiseInTaskStep, RaiseInRunStep
<1> QED
  BY <1>5, <1>6, <1>7, <1>8, <1>10 DEF AnyStep

\* Where no log is stored.
LEMMA LogRowsKept ==
  ASSUME Base, LogRows, NEW by, by # -1, UNCHANGED stored \/ StoredAppends(by),
         Runs \subseteq Runs',
         \A r \in Runs' : runs'[r].log = "stored" <=> r \in Runs /\ runs[r].log = "stored"
  PROVE  LogRows'
<1>1. /\ DOMAIN stored \subseteq DOMAIN stored'
      /\ \A n \in DOMAIN stored : stored'[n] = stored[n]
      /\ \A n \in DOMAIN stored' : stored'[n].by = -1 => n \in DOMAIN stored
  BY DEF StoredAppends
<1>2. \A n \in DOMAIN stored' : stored'[n].by = -1 =>
         stored'[n].pk \in Runs' /\ runs'[stored'[n].pk].log = "stored"
  BY <1>1 DEF LogRows
<1>3. \A r \in Runs' : runs'[r].log = "stored" =>
         \E n \in DOMAIN stored' : stored'[n].by = -1 /\ stored'[n].pk = r
  BY <1>1 DEF LogRows
<1>4. \A m, n \in DOMAIN stored' :
         stored'[m].by = -1 /\ stored'[n].by = -1 /\ stored'[m].pk = stored'[n].pk => m = n
  BY <1>1 DEF LogRows
<1> QED
  BY <1>2, <1>3, <1>4 DEF LogRows

LEMMA LogRowsStep ==
  ASSUME Base, Logging, LogRows, [Next]_vars
  PROVE  LogRows'
<1>0. \A r \in Runs : r # -1
  BY RunsMeasuredFacts DEF RunsMeasured
<1>1. CASE UNCHANGED vars
  BY <1>1, LogRowsKept DEF vars, Runs
<1> SUFFICES ASSUME AnyStep
             PROVE  LogRows'
  BY <1>1, EveryStep
<1>2. CASE PushStep \/ PushAsyncStep \/ WriteStep
  <2>1. UNCHANGED runs /\ \E by : by # -1 /\ StoredAppends(by)
    BY <1>0, <1>2 DEF PushStep, PushAsyncStep, WriteStep
  <2> QED
    BY <2>1, LogRowsKept DEF Runs
<1>3. CASE TurnPipelinesStep \/ FinishStagesStep \/ ReturnTaskStep
  <2>1. UNCHANGED <<runs, stored>> /\ 0 # -1
    BY <1>3 DEF TurnPipelinesStep, FinishStagesStep, ReturnTaskStep
  <2> QED
    BY <2>1, LogRowsKept DEF Runs
<1>4. CASE TurnMonitorRaisesStep
  <2> PICK r : RunsLog(r, "lost") /\ r = ready[1].id /\ 1 \in DOMAIN ready /\ ready[1].kind = "monitor"
    BY <1>4 DEF TurnMonitorRaisesStep, ReadyTails
  <2>1. runs[r].log = "queued" /\ r \in Runs
    BY DEF Logging, IsLog, RunsLog
  <2>2. /\ UNCHANGED stored /\ Runs' = Runs /\ 0 # -1
        /\ \A x \in Runs : runs'[x].log = "stored" <=> runs[x].log = "stored"
    BY <1>4, <2>1 DEF TurnMonitorRaisesStep, RunsLog
  <2> QED
    BY <2>2, LogRowsKept
<1>5. CASE TurnMonitorStep
  <2> PICK r : RunsLog(r, "stored") /\ r = ready[1].id /\ 1 \in DOMAIN ready /\ ready[1].kind = "monitor"
    BY <1>5 DEF TurnMonitorStep, ReadyTails
  <2> PICK n : n = Len(stored) + 1
    OBVIOUS
  <2>1. runs[r].log = "queued" /\ r \in Runs
    BY DEF Logging, IsLog, RunsLog
  <2>2. /\ Runs' = Runs /\ runs'[r].log = "stored"
        /\ \A x \in Runs : x # r => runs'[x] = runs[x]
    BY DEF RunsLog
  <2>3. /\ DOMAIN stored' = DOMAIN stored \cup {n} /\ n \notin DOMAIN stored
        /\ \A m \in DOMAIN stored : stored'[m] = stored[m]
        /\ stored'[n].by = -1 /\ stored'[n].pk = r
    BY <1>5 DEF TurnMonitorStep, StoredAppends
  <2>4. \A m \in DOMAIN stored : stored[m].by = -1 => stored[m].pk # r
    BY <2>1 DEF LogRows
  <2>5. \A m \in DOMAIN stored' : stored'[m].by = -1 =>
           stored'[m].pk \in Runs' /\ runs'[stored'[m].pk].log = "stored"
    BY <2>1, <2>2, <2>3, <2>4 DEF LogRows
  <2>6. \A x \in Runs' : runs'[x].log = "stored" =>
           \E m \in DOMAIN stored' : stored'[m].by = -1 /\ stored'[m].pk = x
    BY <2>2, <2>3 DEF LogRows
  <2>7. \A l, m \in DOMAIN stored' :
           stored'[l].by = -1 /\ stored'[m].by = -1 /\ stored'[l].pk = stored'[m].pk => l = m
    BY <2>3, <2>4 DEF LogRows
  <2> QED
    BY <2>5, <2>6, <2>7 DEF LogRows
<1>6. ASSUME NEW c, SkipStep(c) \/ EnterStep(c) \/ RaiseInTaskStep(c)
      PROVE  LogRows'
  <2>1. UNCHANGED stored /\ 0 # -1
        /\ (RunsAppends(c, "skipped") \/ RunsAppends(c, "running") \/ RunsAppends(c, "raised"))
    BY <1>6 DEF SkipStep, EnterStep, RaiseInTaskStep
  <2>2. /\ Runs \subseteq Runs'
        /\ \A r \in Runs' : runs'[r].log = "stored" <=> r \in Runs /\ runs[r].log = "stored"
    BY <2>1 DEF RunsAppends, RunsMeasured, IsNewRun
  <2> QED
    BY <2>1, <2>2, LogRowsKept
<1>7. ASSUME NEW c, RaiseInRunStep(c)
      PROVE  LogRows'
  <2> PICK r : r = stack[1].run
    OBVIOUS
  <2>1. /\ StackMeasured /\ stack[1].run \in Runs /\ Ends(r, "ERROR") /\ RunsRaise(c, r)
        /\ UNCHANGED stored /\ 0 # -1
    BY <1>7 DEF RaiseInRunStep, NextCall, RunsRaise
  <2>2. runs[r].log = "none"
    BY <2>1, TopRuns DEF Logging
  <2>3. /\ Runs \subseteq Runs' /\ \A x \in Runs : x # r => runs'[x] = runs[x]
        /\ \A x \in Runs' \ Runs : runs'[x].log = "none"
    BY <2>1 DEF RunsRaise, RunsMeasured, IsNewRun
  <2>4. runs'[r].log # "stored"
    BY <2>1 DEF Ends
  <2>5. \A x \in Runs' : runs'[x].log = "stored" <=> x \in Runs /\ runs[x].log = "stored"
    BY <2>2, <2>3, <2>4
  <2> QED
    BY <2>1, <2>3, <2>5, LogRowsKept
<1>8. ASSUME NEW status, EndStep(status)
      PROVE  LogRows'
  <2> PICK r : r = stack[1].run
    OBVIOUS
  <2>1. /\ StackMeasured /\ stack[1].run \in Runs /\ Ends(r, status) /\ RunsEnd(r, status)
        /\ UNCHANGED stored /\ 0 # -1
    BY <1>8 DEF EndStep, RunsEnd
  <2>2. runs[r].log = "none"
    BY <2>1, TopRuns DEF Logging
  <2>3. Runs' = Runs /\ \A x \in Runs : x # r => runs'[x] = runs[x]
    BY <2>1 DEF RunsEnd
  <2>4. runs'[r].log # "stored"
    BY <2>1 DEF Ends
  <2>5. \A x \in Runs' : runs'[x].log = "stored" <=> x \in Runs /\ runs[x].log = "stored"
    BY <2>2, <2>3, <2>4
  <2> QED
    BY <2>1, <2>3, <2>5, LogRowsKept
<1>9. CASE CrashStep
  <2>1. /\ UNCHANGED stored /\ Runs' = Runs /\ 0 # -1
        /\ \A x \in Runs : runs'[x].log = "stored" <=> runs[x].log = "stored"
    BY <1>9 DEF CrashStep
  <2> QED
    BY <2>1, LogRowsKept
<1> QED
  BY <1>2, <1>3, <1>4, <1>5, <1>6, <1>7, <1>8, <1>9 DEF AnyStep
-----------------------------------------------------------------------------
(* A run that raises ends the run that called it, and no other.            *)

\* Where no run is called.
LEMMA RaisingKept ==
  ASSUME Base, Raising, Runs' = Runs, \A r \in Runs : SameCall(r),
         \A r \in Runs : runs[r].status = "ERROR" => runs'[r].status = "ERROR",
         \A r \in Runs : runs'[r].status = "raised" => runs[r].status = "raised"
  PROVE  Raising'
<1>1. /\ \A r : Children(r)' = Children(r)
      /\ \A r : Children(r) \subseteq Runs
  BY ChildrenSame DEF Children
<1>2. ASSUME NEW r \in Runs, NEW d \in Children(r), runs'[d].status = "raised"
      PROVE  runs'[r].status = "ERROR" /\ \A c \in Children(r) : c <= d
  <2>1. runs[d].status = "raised"
    BY <1>1, <1>2
  <2> QED
    BY <1>2, <2>1 DEF Raising
<1> QED
  BY <1>1, <1>2 DEF Raising

\* A call that does not raise, or that raises in a task.
LEMMA RaisingCalls ==
  ASSUME Base, Raising, NEW c, NextCall(c),
         NEW status \in {"skipped", "running", "raised"}, RunsAppends(c, status),
         status = "raised" => stack[1].run = 0
  PROVE  Raising'
<1> PICK new : new = Len(runs) + 1
  OBVIOUS
<1> PICK t : t = stack[1].run /\ t \in Runs \cup {0}
  BY DEF NextCall
<1>1. /\ \A r : Children(r)' = Children(r) \cup (IF r = t THEN {new} ELSE {})
      /\ \A r : Children(r) \subseteq Runs
      /\ Children(new)' = {} /\ Runs' = Runs \cup {new} /\ new \notin Runs
  BY ChildrenGrow
<1>2. runs'[new].status = status /\ \A r \in Runs : runs'[r] = runs[r]
  BY DEF RunsAppends, IsNewRun
<1>3. 0 \notin Runs
  BY RunsMeasuredFacts DEF RunsMeasured
<1>4. t \in Runs => runs[t].status = "running"
  BY TopRuns DEF NextCall
<1>7. ASSUME NEW r \in Runs', NEW d \in Children(r)', runs'[d].status = "raised"
      PROVE  runs'[r].status = "ERROR" /\ \A x \in Children(r)' : x <= d
  <2>1. r \in Runs
    BY <1>1, <1>7
  <2>2. d # new
    BY <1>1, <1>2, <1>3, <1>7, <2>1
  <2>3. d \in Children(r) /\ runs[d].status = "raised"
    BY <1>1, <1>2, <1>7, <2>2
  <2>4. runs[r].status = "ERROR" /\ \A x \in Children(r) : x <= d
    BY <2>1, <2>3 DEF Raising
  <2>5. r # t
    BY <1>4, <2>1, <2>4
  <2> QED
    BY <1>1, <1>2, <2>1, <2>4, <2>5
<1> QED
  BY <1>7 DEF Raising

LEMMA RaisingInRun ==
  ASSUME Base, Raising, NEW c, RaiseInRunStep(c)
  PROVE  Raising'
<1> PICK new : new = Len(runs) + 1
  OBVIOUS
<1> PICK t : t = stack[1].run /\ t \in Runs
  BY DEF RaiseInRunStep, NextCall
<1>0. NextCall(c) /\ RunsRaise(c, stack[1].run) /\ 1 \in DOMAIN stack
  BY DEF RaiseInRunStep, NextCall, StackMeasured
<1>1. /\ \A r : Children(r)' = Children(r) \cup (IF r = t THEN {new} ELSE {})
      /\ \A r : Children(r) \subseteq Runs
      /\ Children(new)' = {} /\ Runs' = Runs \cup {new} /\ new \notin Runs
      /\ \A r \in Runs : r < new
  BY <1>0, ChildrenGrow
<1>2. /\ runs'[new].status = "raised" /\ runs'[t].status = "ERROR"
      /\ \A r \in Runs : r # t => runs'[r] = runs[r]
      /\ \A r \in Runs : SameCall(r)
  BY <1>0 DEF RunsRaise, IsNewRun, Ends, SameCall
<1>3. runs[t].status = "running"
  BY <1>0, TopRuns DEF NextCall
<1>6. \A x \in Children(t)' : x <= new
  BY <1>1, RunsMeasuredFacts DEF RunsMeasured
<1>7. \A d \in Children(t) : runs[d].status # "raised"
  BY <1>3 DEF Raising
<1>8. t \notin Children(t)
  BY ParentFacts DEF Children
<1>10. ASSUME NEW r \in Runs', NEW d \in Children(r)', runs'[d].status = "raised"
       PROVE  runs'[r].status = "ERROR" /\ \A x \in Children(r)' : x <= d
  <2>1. CASE r = t
    <3>1. d = new
      BY <1>1, <1>2, <1>7, <1>8, <1>10, <2>1
    <3> QED
      BY <1>2, <1>6, <2>1, <3>1
  <2>2. CASE r # t
    <3>1. r \in Runs /\ d \in Children(r) /\ d \in Runs
      BY <1>1, <1>10, <2>2
    <3>2. runs[d].status = "raised"
      BY <1>2, <1>10, <3>1
    <3>3. runs[r].status = "ERROR" /\ \A x \in Children(r) : x <= d
      BY <3>1, <3>2 DEF Raising
    <3> QED
      BY <1>1, <1>2, <2>2, <3>1, <3>3
  <2> QED
    BY <2>1, <2>2
<1> QED
  BY <1>10 DEF Raising

LEMMA RaisingStep ==
  ASSUME Base, Raising, [Next]_vars
  PROVE  Raising'
<1>1. CASE UNCHANGED vars
  BY <1>1, RaisingKept DEF vars, Runs, SameCall
<1> SUFFICES ASSUME AnyStep
             PROVE  Raising'
  BY <1>1, EveryStep
<1>o. \A r \in Runs : SameCall(r)
  BY OldRuns
<1>2. CASE PushStep \/ PushAsyncStep \/ TurnMonitorStep \/ TurnPipelinesStep \/ TurnMonitorRaisesStep
           \/ WriteStep \/ FinishStagesStep \/ ReturnTaskStep
  <2>1. Runs' = Runs /\ \A r \in Runs : runs'[r].status = runs[r].status
    BY <1>2 DEF PushStep, PushAsyncStep, TurnMonitorStep, TurnPipelinesStep, TurnMonitorRaisesStep,
                WriteStep, FinishStagesStep, ReturnTaskStep, RunsLog, Runs
  <2> QED
    BY <1>o, <2>1, RaisingKept
<1>5. ASSUME NEW status \in {"ERROR", "FINISHED"}, EndStep(status)
      PROVE  Raising'
  <2> PICK t \in Runs : t = stack[1].run
    BY <1>5 DEF EndStep
  <2>1. /\ Runs' = Runs /\ runs[t].status = "running"
        /\ runs'[t].status = status /\ \A r \in Runs : r # t => runs'[r] = runs[r]
    BY <1>5, TopRuns DEF EndStep, RunsEnd, Ends
  <2> QED
    BY <1>o, <2>1, RaisingKept
<1>6. ASSUME NEW c, SkipStep(c) \/ EnterStep(c) \/ RaiseInTaskStep(c)
      PROVE  Raising'
  <2>1. NextCall(c)
    BY <1>6 DEF SkipStep, EnterStep, RaiseInTaskStep
  <2>2. PICK status \in {"skipped", "running", "raised"} :
            RunsAppends(c, status) /\ (status = "raised" => stack[1].run = 0)
    BY <1>6 DEF SkipStep, EnterStep, RaiseInTaskStep
  <2> QED
    BY <2>1, <2>2, RaisingCalls
<1>7. ASSUME NEW c, RaiseInRunStep(c)
      PROVE  Raising'
  BY <1>7, RaisingInRun
<1>8. CASE CrashStep
  <2>1. /\ Runs' = Runs
        /\ \A r \in Runs :
              runs'[r].status = IF runs[r].status = "running" THEN "lost" ELSE runs[r].status
    BY <1>8 DEF CrashStep
  <2> QED
    BY <1>o, <2>1, RaisingKept
<1> QED
  BY <1>2, <1>5, <1>6, <1>7, <1>8 DEF AnyStep

-----------------------------------------------------------------------------
(* A failure ends at most one run.                                         *)

LEMMA ErrorsFinite == ASSUME Base PROVE IsFiniteSet(Errors)
<1>1. Runs = 1..Len(runs) /\ Len(runs) \in Nat
  BY RunsMeasuredFacts DEF RunsMeasured, Base
<1>2. IsFiniteSet(Runs)
  BY <1>1, FS_Interval
<1> QED
  BY <1>2, FS_Subset DEF Errors

LEMMA CountingKept ==
  ASSUME Base, Counting, Errors' = Errors, faults' \in {faults, faults + 1}
  PROVE  Counting'
<1>1. Cardinality(Errors) \in Nat
  BY ErrorsFinite, FS_CardinalityType
<1>2. faults \in Int
  BY ConstantsAssumption DEF Base, Types
<1> QED
  BY <1>1, <1>2 DEF Counting

LEMMA CountingOne ==
  ASSUME Base, Counting, NEW r, Errors' = Errors \cup {r}, faults' = faults + 1
  PROVE  Counting'
<1>1. /\ Cardinality(Errors) \in Nat
      /\ Cardinality(Errors \cup {r}) \in {Cardinality(Errors), Cardinality(Errors) + 1}
  BY ErrorsFinite, FS_CardinalityType, FS_AddElement
<1>2. faults \in Int
  BY ConstantsAssumption DEF Base, Types
<1> QED
  BY <1>1, <1>2 DEF Counting

LEMMA CountingStep ==
  ASSUME Base, Counting, [Next]_vars
  PROVE  Counting'
<1> USE DEF Base
<1>1. CASE UNCHANGED vars \/ Push \/ PushAsync \/ TurnPipelines \/ Write \/ FinishStages
           \/ ReturnTask \/ LookupRaisesInTask
  <2>1. UNCHANGED runs /\ faults' \in {faults, faults + 1}
    BY <1>1 DEF vars, Push, PushAsync, TurnPipelines, Write, FinishStages, ReturnTask, LookupRaisesInTask
  <2> QED
    BY <2>1, CountingKept DEF Errors, Runs
<1>2. CASE TurnMonitor \/ TurnMonitorRaises
  <2>1. PICK log \in {"stored", "lost"} :
             runs' = [runs EXCEPT ![Head(ready).id].log = log] /\ faults' \in {faults, faults + 1}
    BY <1>2 DEF TurnMonitor, TurnMonitorRaises
  <2>2. \A r \in Runs : runs[r] \in Run
    BY DEF Types, Runs
  <2>3. Runs' = Runs /\ \A r \in Runs : runs'[r].status = runs[r].status
    BY <2>1, <2>2 DEF Runs, Run
  <2> QED
    BY <2>1, <2>3, CountingKept DEF Errors
<1>3. ASSUME NEW c, SkipDisabled(c) \/ SkipCondition(c) \/ Enter(c) \/ RaiseInTask(c)
      PROVE  Counting'
  <2>1. PICK status \in Statuses \ {"ERROR"} :
             Calling(c) /\ runs' = Append(runs, NewRun(c, status)) /\ faults' \in {faults, faults + 1}
    BY <1>3 DEF SkipDisabled, SkipCondition, Enter, RaiseInTask, Statuses
  <2>2. RunsAppends(c, status)
    BY <2>1, RunsAppendsFacts, NextCallFacts
  <2>3. /\ Runs' = Runs \cup {Len(runs) + 1} /\ runs'[Len(runs) + 1].status = status
        /\ \A r \in Runs : runs'[r] = runs[r] /\ r # Len(runs) + 1
    BY <2>2 DEF RunsAppends, IsNewRun, RunsMeasured
  <2> QED
    BY <2>1, <2>3, CountingKept DEF Errors
<1>4. ASSUME NEW c, RaiseInRun(c)
      PROVE  Counting'
  <2>1. Calling(c) /\ Top.run # 0 /\ faults' = faults + 1
    BY <1>4 DEF RaiseInRun
  <2>2. NextCall(c) /\ RunsRaise(c, Top.run)
    BY <1>4, <2>1, NextCallFacts, RunsRaiseFacts
  <2>3. Top.run \in Runs
    BY <2>1, <2>2 DEF NextCall, StackMeasured
  <2>4. /\ Runs' = Runs \cup {Len(runs) + 1} /\ runs'[Len(runs) + 1].status = "raised"
        /\ runs'[Top.run].status = "ERROR"
        /\ \A r \in Runs : (r # Top.run => runs'[r] = runs[r]) /\ r # Len(runs) + 1
    BY <2>2 DEF RunsRaise, IsNewRun, Ends, RunsMeasured
  <2>5. Errors' = Errors \cup {Top.run}
    BY <2>3, <2>4 DEF Errors
  <2> QED
    BY <2>1, <2>5, CountingOne
<1>5. CASE WriteRaises \/ LookupRaises
  <2>1. stack # <<>> /\ Top.run \in Runs /\ Finally(Top.run, "ERROR") /\ faults' = faults + 1
    BY <1>5, TopFacts, StagesFacts DEF WriteRaises, LookupRaises, Cascading, Ranges
  <2>2. RunsEnd(Top.run, "ERROR")
    BY <2>1, RunsEndFacts DEF Statuses
  <2>3. /\ Runs' = Runs /\ runs'[Top.run].status = "ERROR"
        /\ \A r \in Runs : r # Top.run => runs'[r] = runs[r]
    BY <2>2 DEF RunsEnd, Ends
  <2>4. Errors' = Errors \cup {Top.run}
    BY <2>1, <2>3 DEF Errors
  <2> QED
    BY <2>1, <2>4, CountingOne
<1>6. CASE ReturnRun
  <2>1. stack # <<>> /\ Top.run \in Runs /\ Finally(Top.run, "FINISHED") /\ faults' = faults
    BY <1>6, TopFacts DEF ReturnRun, Cascading, Ranges
  <2>2. StackMeasured /\ runs[Top.run].status = "running"
    BY <2>1, MeasuredFacts, TopRuns DEF StackMeasured
  <2>3. RunsEnd(Top.run, "FINISHED")
    BY <2>1, RunsEndFacts DEF Statuses
  <2>4. /\ Runs' = Runs /\ runs'[Top.run].status = "FINISHED"
        /\ \A r \in Runs : r # Top.run => runs'[r] = runs[r]
    BY <2>3 DEF RunsEnd, Ends
  <2> QED
    BY <2>1, <2>2, <2>4, CountingKept DEF Errors
<1>7. CASE Crash
  <2>1. /\ faults' = faults
        /\ runs' = [r \in DOMAIN runs |->
                      [runs[r] EXCEPT !.status = IF @ = "running" THEN "lost" ELSE @,
                                      !.log = IF @ = "queued" THEN "lost" ELSE @]]
    BY <1>7 DEF Crash
  <2>2. \A r \in Runs : runs[r] \in Run
    BY DEF Types, Runs
  <2>3. Runs' = Runs /\ \A r \in Runs : runs'[r].status = "ERROR" <=> runs[r].status = "ERROR"
    BY <2>1, <2>2 DEF Runs, Run
  <2> QED
    BY <2>1, <2>3, CountingKept DEF Errors
<1> QED
  BY <1>1, <1>2, <1>3, <1>4, <1>5, <1>6, <1>7 DEF Next, Engine

-----------------------------------------------------------------------------
(* A run makes the calls of its cascade, in order.                         *)

\* A cascade is about rows that do not change any more.
LEMMA CascadeKept ==
  ASSUME NEW W, \A n \in W : stored'[n] = stored[n]
  PROVE  Cascade(W)' = Cascade(W)
<1>1. \A type : OfType(W, type)' = OfType(W, type)
  BY DEF OfType
<1>2. \A m, n \in W : SameTopic(m, n)' = SameTopic(m, n) /\ SameRow(m, n)' = SameRow(m, n)
  BY DEF SameTopic, SameRow
<1>3. \A type : OfType(W, type) \subseteq W
  BY DEF OfType
<1>4. \A n \in W : FirstOfTopic(W, n)' = FirstOfTopic(W, n) /\ FirstOfRow(W, n)' = FirstOfRow(W, n)
  BY <1>1, <1>2, <1>3 DEF FirstOfTopic, FirstOfRow
<1>5. \A i, j \in W : MergedUpdate(W, i, j)' = MergedUpdate(W, i, j)
  <2> SUFFICES ASSUME NEW i \in W, NEW j \in W
               PROVE  MergedUpdate(W, i, j)' = MergedUpdate(W, i, j)
    OBVIOUS
  <2>1. {m \in OfType(W, "update")' : m <= i /\ SameRow(m, j)'} =
        {m \in OfType(W, "update") : m <= i /\ SameRow(m, j)}
    BY <1>1, <1>2, <1>3
  <2>2. stored'[j] = stored[j]
    OBVIOUS
  <2> QED
    BY <2>1, <2>2 DEF MergedUpdate
<1>6. ASSUME NEW t \in W
      PROVE  UpdateCalls(W, t)' = UpdateCalls(W, t)
  <2> DEFINE S == {y \in OfType(W, "update") \X OfType(W, "update") :
                      SameTopic(y[1], t) /\ SameTopic(y[2], t) /\ FirstOfRow(W, y[2]) /\ y[2] <= y[1]}
             C(x) == Matching(MergedUpdate(W, x[1], x[2]), t, 0, x[1], x[2])
  <2>1. \A y \in OfType(W, "update") \X OfType(W, "update") : y[1] \in W /\ y[2] \in W
    BY <1>3
  <2>2. S' = S
    BY <1>1, <1>2, <1>4, <2>1
  <2>3. \A x \in S : C(x)' = C(x)
    <3> SUFFICES ASSUME NEW x \in S
                 PROVE  C(x)' = C(x)
      OBVIOUS
    <3>1. x[1] \in W /\ x[2] \in W
      BY <2>1
    <3> QED
      BY <1>5, <3>1 DEF Matching, Matches
  <2>4. UpdateCalls(W, t) = UNION {C(x) : x \in S}
    BY DEF UpdateCalls, UpdateEvents
  <2>5. UpdateCalls(W, t)' = UNION {C(x)' : x \in S'}
    BY DEF UpdateCalls, UpdateEvents
  <2> HIDE DEF S, C
  <2>6. {C(x)' : x \in S} = {C(x) : x \in S}
    BY <2>3
  <2> QED
    BY <2>2, <2>4, <2>5, <2>6
<1>7. ASSUME NEW t \in W
      PROVE  InsertCalls(W, t)' = InsertCalls(W, t)
  <2> DEFINE S == {m \in OfType(W, "insert") : SameTopic(m, t)}
             C(n) == Matching(InsertOf(stored[n].topic, stored[n].pk, n), t, 1, n, n)
  <2>1. S' = S
    BY <1>1, <1>2, <1>3
  <2>2. \A n \in S : C(n)' = C(n)
    <3> SUFFICES ASSUME NEW n \in S
                 PROVE  C(n)' = C(n)
      OBVIOUS
    <3>1. stored'[n] = stored[n]
      BY <1>3
    <3> QED
      BY <3>1 DEF Matching, Matches, InsertOf
  <2>3. InsertCalls(W, t) = UNION {C(n) : n \in S}
    BY DEF InsertCalls, InsertEvents
  <2>4. InsertCalls(W, t)' = UNION {C(n)' : n \in S'}
    BY DEF InsertCalls, InsertEvents
  <2> HIDE DEF S, C
  <2>5. {C(n)' : n \in S} = {C(n) : n \in S}
    BY <2>2
  <2> QED
    BY <2>1, <2>3, <2>4, <2>5
<1> DEFINE T == {n \in W : FirstOfTopic(W, n)}
           D(t) == UpdateCalls(W, t) \cup InsertCalls(W, t)
<1>8. T' = T /\ \A t \in T : D(t)' = D(t)
  BY <1>4, <1>6, <1>7
<1>9. Cascade(W) = UNION {D(t) : t \in T}
  BY DEF Cascade
<1>10. Cascade(W)' = UNION {D(t)' : t \in T'}
  BY DEF Cascade
<1> HIDE DEF T, D
<1>11. {D(t)' : t \in T} = {D(t) : t \in T}
  BY <1>8
<1> QED
  BY <1>8, <1>9, <1>10, <1>11

\* A run that neither writes nor calls.
LEMMA PendingKept ==
  ASSUME Base, \A x \in Runs : SameCall(x), \A n \in DOMAIN stored : stored'[n] = stored[n],
         NEW r \in Runs, Children(r)' = Children(r), WritesOf(r)' = WritesOf(r)
  PROVE  /\ InOrder(r) => InOrder(r)'
         /\ \A queue : Pending(r, queue) => Pending(r, queue)'
<1>1. Children(r) \subseteq Runs /\ WritesOf(r) \subseteq DOMAIN stored
  BY DEF Children, WritesOf
<1>2. \A c \in Children(r) : CallOf(c)' = CallOf(c) /\ runs'[c].at = runs[c].at
  BY <1>1 DEF CallOf, SameCall
<1>3. Made(r)' = Made(r)
  BY <1>2 DEF Made
<1> PICK W : W = WritesOf(r)
  OBVIOUS
<1>4. Cascade(W)' = Cascade(W)
  BY <1>1, CascadeKept
<1>5. WritesOf(r) = W /\ WritesOf(r)' = W
  OBVIOUS
<1>6. InOrder(r) => InOrder(r)'
  BY <1>2 DEF InOrder
<1>7. ASSUME NEW queue, Pending(r, queue)
      PROVE  Pending(r, queue)'
  BY <1>2, <1>3, <1>4, <1>5, <1>7 DEF Pending
<1> QED
  BY <1>6, <1>7

\* The run that calls c.
LEMMA PendingCalls ==
  ASSUME Base, UNCHANGED stored, NEW c, NextCall(c), NEW t \in Runs, t = stack[1].run,
         \/ RunsAppends(c, "skipped") \/ RunsAppends(c, "running") \/ RunsAppends(c, "raised")
         \/ RunsRaise(c, t),
         NEW queue, c \in queue, \A d \in queue \ {c} : Before(c.at, d.at),
         InOrder(t), Pending(t, queue)
  PROVE  InOrder(t)' /\ Pending(t, queue \ {c})'
<1> PICK new : new = Len(runs) + 1
  OBVIOUS
<1>1. /\ Children(t)' = Children(t) \cup {new} /\ Children(t) \subseteq Runs
      /\ new \notin Runs /\ \A r \in Runs : r < new
  BY ChildrenGrow
<1>2. /\ \A x \in Runs : SameCall(x)
      /\ runs'[new].pipeline = c.pipeline /\ runs'[new].event = c.event /\ runs'[new].at = c.at
  BY DEF RunsAppends, RunsRaise, IsNewRun, Ends, SameCall
<1>3. \A x \in Children(t) : CallOf(x)' = CallOf(x) /\ runs'[x].at = runs[x].at
  BY <1>1, <1>2 DEF CallOf, SameCall
<1>4. CallOf(new)' = c
  BY <1>2 DEF CallOf, NextCall, Call
<1>5. Made(t)' = Made(t) \cup {c}
  BY <1>1, <1>3, <1>4 DEF Made
<1> PICK W : W = WritesOf(t)
  OBVIOUS
<1>6. Cascade(W)' = Cascade(W) /\ WritesOf(t)' = W
  BY CascadeKept, WritesSame
<1>7. Made(t)' \cup (queue \ {c}) = Cascade(W)
  BY <1>5 DEF Pending
<1>8. \A x \in Children(t)', d \in queue \ {c} : Before(runs'[x].at, d.at)
  BY <1>1, <1>2, <1>3 DEF Pending
<1>9. ASSUME NEW x \in Children(t)', NEW y \in Children(t)', x < y
      PROVE  Before(runs'[x].at, runs'[y].at)
  <2>1. x \in Children(t)
    BY <1>1, <1>9, RunsMeasuredFacts DEF RunsMeasured
  <2>2. CASE y \in Children(t)
    BY <1>3, <1>9, <2>1, <2>2 DEF InOrder
  <2>3. CASE y = new
    BY <1>2, <1>3, <2>1, <2>3 DEF Pending
  <2> QED
    BY <1>1, <2>2, <2>3
<1> QED
  BY <1>6, <1>7, <1>8, <1>9 DEF InOrder, Pending
LEMMA CascadesStep ==
  ASSUME Base, Writing, SystemRuns, Cascades, [Next]_vars
  PROVE  Cascades'
<1> DEFINE Owes(i, r, queue) == /\ r = stack[i].run /\ queue = stack[i].queue /\ r # 0
                                /\ stack[i].step = "cascade" /\ ~IsSystem(runs[r].pipeline)
           Ended(r) == runs[r].status = "FINISHED" /\ ~IsSystem(runs[r].pipeline)
           FramesOwe == \A i \in DOMAIN stack : \A r, queue : Owes(i, r, queue) => Pending(r, queue)
           RunsAreDone == \A r \in Runs : InOrder(r) /\ (Ended(r) => Pending(r, {}))
<1>0. FramesOwe /\ RunsAreDone
  BY DEF Cascades
<1>i. \A i \in DOMAIN stack : stack[i].run \in Runs \cup {0}
  BY DEF Base, Ranges
<1> SUFFICES FramesOwe' /\ RunsAreDone'
  <2>1. ASSUME FramesOwe', NEW i \in DOMAIN stack', stack'[i].run # 0, stack'[i].step = "cascade",
               ~IsSystem(runs'[stack'[i].run].pipeline)
        PROVE  Pending(stack[i].run, stack[i].queue)'
    BY <2>1 DEF IsSystem
  <2> QED
    BY <2>1 DEF Cascades, IsSystem
<1>1. CASE UNCHANGED vars
  <2>1. /\ UNCHANGED <<stack, runs, stored>> /\ Runs' = Runs
        /\ \A r : InOrder(r)' = InOrder(r)
        /\ \A r, queue : Pending(r, queue)' = Pending(r, queue)
    BY <1>1 DEF vars, InOrder, Pending, Runs, Children, Made, CallOf, WritesOf, Cascade, FirstOfTopic,
                SameTopic, UpdateCalls, InsertCalls, UpdateEvents, InsertEvents, OfType, SameRow, FirstOfRow, MergedUpdate, Matching,
                InsertOf, Matches
  <2> QED
    BY <1>0, <2>1 DEF IsSystem
<1> SUFFICES ASSUME AnyStep
             PROVE  FramesOwe' /\ RunsAreDone'
  BY <1>1, EveryStep
<1>o. \A r \in Runs : SameCall(r)
  BY OldRuns
<1>s. \A r \in Runs : IsSystem(runs[r].pipeline)' = IsSystem(runs[r].pipeline)
  BY <1>o DEF SameCall, IsSystem
\* What holds of the runs that neither write nor call.
<1>2. ASSUME \A n \in DOMAIN stored : stored'[n] = stored[n],
             NEW r \in Runs, Children(r)' = Children(r), WritesOf(r)' = WritesOf(r)
      PROVE  /\ InOrder(r)'
             /\ \A queue : Pending(r, queue) => Pending(r, queue)'
  BY <1>0, <1>o, <1>2, PendingKept
<1>3. ASSUME \A n \in DOMAIN stored : stored'[n] = stored[n],
             NEW i \in DOMAIN stack', NEW j \in DOMAIN stack, stack'[i].run = stack[j].run,
             stack'[i].queue = stack[j].queue, stack'[i].step = stack[j].step,
             \A r \in Runs : r = stack[j].run /\ stack[j].step = "cascade" =>
                Children(r)' = Children(r) /\ WritesOf(r)' = WritesOf(r)
      PROVE  \A r, queue : Owes(i, r, queue)' => Pending(r, queue)'
  <2> SUFFICES ASSUME NEW r, NEW queue, r = stack'[i].run, queue = stack'[i].queue, r # 0,
                      stack'[i].step = "cascade", ~IsSystem(runs'[r].pipeline)
               PROVE  Pending(r, queue)'
    BY DEF IsSystem
  <2>1. r \in Runs /\ r = stack[j].run /\ queue = stack[j].queue /\ stack[j].step = "cascade"
    BY <1>i, <1>3
  <2>2. Pending(r, queue)
    BY <1>0, <1>s, <2>1 DEF IsSystem
  <2> QED
    BY <1>2, <1>3, <2>1, <2>2
\* No call, and no write by a run.
<1>4. ASSUME \A n \in DOMAIN stored : stored'[n] = stored[n], Runs' = Runs,
             \A r \in Runs : WritesOf(r)' = WritesOf(r),
             \A r \in Runs : runs'[r].status = "FINISHED" => runs[r].status = "FINISHED"
      PROVE  /\ RunsAreDone'
             /\ \A i \in DOMAIN stack', j \in DOMAIN stack :
                   /\ stack'[i].run = stack[j].run /\ stack'[i].queue = stack[j].queue
                   /\ stack'[i].step = stack[j].step
                   => \A r, queue : Owes(i, r, queue)' => Pending(r, queue)'
  <2>1. \A r : Children(r)' = Children(r)
    BY <1>o, <1>4, ChildrenSame
  <2>2. RunsAreDone'
    BY <1>0, <1>2, <1>s, <1>4, <2>1 DEF IsSystem
  <2> QED
    BY <1>3, <1>4, <2>1, <2>2
<1>5. ASSUME NEW n, StackStarts(n)
      PROVE  FramesOwe'
  BY <1>5 DEF StackStarts
<1>6. ASSUME NEW by \in {0, -1}, StoredAppends(by)
      PROVE  \A r \in Runs : WritesOf(r)' = WritesOf(r)
  <2>1. \A r \in Runs : r # by
    BY RunsMeasuredFacts DEF RunsMeasured
  <2> QED
    BY <1>6, <2>1, WritesGrow
<1>7. UNCHANGED stored => /\ \A n \in DOMAIN stored : stored'[n] = stored[n]
                          /\ \A r : WritesOf(r)' = WritesOf(r)
  BY WritesSame
<1>8. \A by : StoredAppends(by) => \A n \in DOMAIN stored : stored'[n] = stored[n]
  BY DEF StoredAppends
<1>9. CASE PushStep \/ TurnPipelinesStep \/ TurnMonitorStep
  <2>1. /\ Runs' = Runs /\ \E n : StackStarts(n)
        /\ \A r \in Runs : runs'[r].status = runs[r].status
    BY <1>9 DEF PushStep, TurnPipelinesStep, TurnMonitorStep, RunsLog, Runs
  <2>2. \A r \in Runs : WritesOf(r)' = WritesOf(r)
    BY <1>6, <1>7, <1>9 DEF PushStep, TurnPipelinesStep, TurnMonitorStep
  <2>3. \A n \in DOMAIN stored : stored'[n] = stored[n]
    BY <1>7, <1>8, <1>9 DEF PushStep, TurnPipelinesStep, TurnMonitorStep
  <2>4. RunsAreDone'
    BY <1>4, <2>1, <2>2, <2>3
  <2>5. FramesOwe'
    BY <1>5, <2>1
  <2> QED
    BY <2>4, <2>5
<1>10. CASE PushAsyncStep \/ TurnMonitorRaisesStep
  <2>1. /\ Runs' = Runs /\ UNCHANGED stack
        /\ \A r \in Runs : runs'[r].status = runs[r].status
    BY <1>10 DEF PushAsyncStep, TurnMonitorRaisesStep, RunsLog, Runs
  <2>2. \A r \in Runs : WritesOf(r)' = WritesOf(r)
    BY <1>6, <1>7, <1>10 DEF PushAsyncStep, TurnMonitorRaisesStep
  <2>3. \A n \in DOMAIN stored : stored'[n] = stored[n]
    BY <1>7, <1>8, <1>10 DEF PushAsyncStep, TurnMonitorRaisesStep
  <2>4. RunsAreDone'
    BY <1>4, <2>1, <2>2, <2>3
  <2>5. FramesOwe'
    BY <1>4, <2>1, <2>2, <2>3
  <2> QED
    BY <2>4, <2>5
<1>11. CASE ReturnTaskStep \/ CrashStep
  <2>1. /\ Runs' = Runs /\ UNCHANGED stored /\ DOMAIN stack' = {}
        /\ \A r \in Runs : runs'[r].status = "FINISHED" => runs[r].status = "FINISHED"
    BY <1>11 DEF ReturnTaskStep, CrashStep, StackClears, Runs
  <2>2. RunsAreDone'
    BY <1>4, <1>7, <2>1
  <2> QED
    BY <2>1, <2>2
<1>12. CASE WriteStep
  <2> PICK t \in Runs : t = stack[1].run
    BY <1>12 DEF WriteStep
  <2>1. /\ StoredAppends(t) /\ Runs' = Runs /\ UNCHANGED runs /\ stack[1].step = "stages"
        /\ 1 \in DOMAIN stack /\ DOMAIN stack' = DOMAIN stack /\ stack'[1].step = "stages"
        /\ \A i \in DOMAIN stack : i # 1 => stack'[i] = stack[i]
    BY <1>12 DEF WriteStep, StackMeasured, Runs
  <2>2. /\ \A r \in Runs : r # t => WritesOf(r)' = WritesOf(r)
        /\ \A r : Children(r)' = Children(r)
        /\ \A n \in DOMAIN stored : stored'[n] = stored[n]
    <3>1. \A r \in Runs : r # t => WritesOf(r)' = WritesOf(r)
      BY <2>1, WritesGrow
    <3>2. \A r : Children(r)' = Children(r)
      BY <1>o, <2>1, ChildrenSame
    <3> QED
      BY <1>8, <2>1, <3>1, <3>2
  <2>3. runs[t].status = "running"
    BY <1>12, TopRuns DEF WriteStep
  <2>4. InOrder(t)'
    BY <1>0, <2>1, <2>2 DEF InOrder
  <2>5. RunsAreDone'
    <3>1. ASSUME NEW r \in Runs, r # t
          PROVE  InOrder(r)' /\ (Ended(r)' => Pending(r, {})')
      BY <1>0, <1>2, <2>1, <2>2, <3>1 DEF IsSystem
    <3> QED
      BY <2>1, <2>3, <2>4, <3>1
  <2>6. ASSUME NEW i \in DOMAIN stack'
        PROVE  \A r, queue : Owes(i, r, queue)' => Pending(r, queue)'
    <3>1. CASE i = 1
      BY <2>1, <3>1
    <3>2. CASE i # 1
      <4>1. i \in DOMAIN stack /\ stack[i].run # t /\ stack'[i] = stack[i]
        BY <2>1, <3>2, FramesDiffer
      <4> QED
        BY <1>3, <2>2, <4>1
    <3> QED
      BY <3>1, <3>2
  <2> QED
    BY <2>5, <2>6
\* Frames taken from the stack.
<1>13. StackPops => \A i \in DOMAIN stack' : i + 1 \in DOMAIN stack /\ i + 1 # 1 /\ stack'[i] = stack[i + 1]
  BY DEF StackPops, StackMeasured
<1>14. ASSUME NEW status \in {"ERROR", "FINISHED"}, EndStep(status)
       PROVE  FramesOwe' /\ RunsAreDone'
  <2> PICK t \in Runs : t = stack[1].run
    BY <1>14 DEF EndStep
  <2>1. /\ Runs' = Runs /\ UNCHANGED stored /\ StackPops /\ 1 \in DOMAIN stack
        /\ runs'[t].status = status /\ \A r \in Runs : r # t => runs'[r] = runs[r]
        /\ status = "FINISHED" => stack[1].step = "cascade" /\ stack[1].queue = {}
    BY <1>14 DEF EndStep, RunsEnd, Ends, StackMeasured
  <2>2. /\ \A r : Children(r)' = Children(r)
        /\ \A r : WritesOf(r)' = WritesOf(r)
        /\ \A n \in DOMAIN stored : stored'[n] = stored[n]
    BY <1>o, <1>7, <2>1, ChildrenSame
  <2>3. FramesOwe'
    BY <1>3, <1>13, <2>1, <2>2
  <2>4. t # 0
    BY RunsMeasuredFacts DEF RunsMeasured
  <2>5. status = "FINISHED" /\ ~IsSystem(runs[t].pipeline) => Pending(t, {})
    BY <1>0, <2>1, <2>4
  <2>6. ASSUME NEW r \in Runs
        PROVE  InOrder(r)' /\ (Ended(r)' => Pending(r, {})')
    <3>1. /\ InOrder(r)'
          /\ \A queue : Pending(r, queue) => Pending(r, queue)'
      BY <1>2, <2>2
    <3>2. Ended(r)' => runs'[r].status = "FINISHED" /\ ~IsSystem(runs[r].pipeline)
      BY <1>s DEF IsSystem
    <3>3. CASE r = t
      BY <2>1, <2>5, <3>1, <3>2, <3>3
    <3>4. CASE r # t
      <4>1. Ended(r)' => Ended(r)
        BY <2>1, <3>2, <3>4
      <4> QED
        BY <1>0, <3>1, <4>1
    <3> QED
      BY <3>3, <3>4
  <2> QED
    BY <2>1, <2>3, <2>6
<1>15. CASE FinishStagesStep
  <2> PICK t \in Runs : t = stack[1].run
    BY <1>15 DEF FinishStagesStep
  <2>1. /\ Runs' = Runs /\ UNCHANGED <<runs, stored>> /\ stack[1].step = "stages"
        /\ 1 \in DOMAIN stack /\ DOMAIN stack' = DOMAIN stack /\ stack'[1].run = t
        /\ \A i \in DOMAIN stack : i # 1 => stack'[i] = stack[i]
        /\ stack'[1].queue = IF IsSystem(runs[t].pipeline) THEN {} ELSE Cascade(stack[1].writes)
    BY <1>15 DEF FinishStagesStep, StackMeasured, Runs
  <2>2. t # 0
    BY RunsMeasuredFacts DEF RunsMeasured
  <2>3. stack[1].writes = WritesOf(t) /\ Children(t) = {}
    BY <2>1, <2>2 DEF Writing
  <2>4. ~IsSystem(runs[t].pipeline) => Pending(t, stack'[1].queue)
    <3> PICK queue : queue = stack'[1].queue
      OBVIOUS
    <3>1. Made(t) = {}
      BY <2>3 DEF Made
    <3>2. ~IsSystem(runs[t].pipeline) => queue = Cascade(WritesOf(t))
      BY <2>1, <2>3
    <3>3. ~IsSystem(runs[t].pipeline) => Pending(t, queue)
      BY <2>3, <3>1, <3>2 DEF Pending
    <3> QED
      BY <3>3
  <2>5. /\ RunsAreDone'
        /\ \A r \in Runs : \A queue : Pending(r, queue) => Pending(r, queue)'
    <3>1. \A r : Children(r)' = Children(r)
      BY <1>o, <2>1, ChildrenSame
    <3>2. \A r \in Runs : \A queue : Pending(r, queue) => Pending(r, queue)'
      BY <1>2, <1>7, <2>1, <3>1
    <3> QED
      BY <1>4, <1>7, <2>1, <3>2
  <2>6. ASSUME NEW i \in DOMAIN stack'
        PROVE  \A r, queue : Owes(i, r, queue)' => Pending(r, queue)'
    <3>1. CASE i = 1
      <4> SUFFICES ASSUME NEW r, NEW queue, r = stack'[1].run, queue = stack'[1].queue,
                          ~IsSystem(runs'[r].pipeline)
                   PROVE  Pending(r, queue)'
        BY <3>1 DEF IsSystem
      <4>1. r = t /\ Pending(r, queue)
        BY <2>1, <2>4
      <4> QED
        BY <2>5, <4>1
    <3>2. CASE i # 1
      <4>1. i \in DOMAIN stack /\ stack'[i] = stack[i]
        BY <2>1, <3>2
      <4> QED
        BY <1>4, <1>7, <2>1, <4>1
    <3> QED
      BY <3>1, <3>2
  <2> QED
    BY <2>5, <2>6
\* A call.
<1>16. ASSUME NEW c, NextCall(c), UNCHANGED stored, NEW t, t = stack[1].run,
              NEW rest, rest = stack[1].queue \ {c},
              \/ RunsAppends(c, "skipped") \/ RunsAppends(c, "running") \/ RunsAppends(c, "raised")
              \/ RunsRaise(c, t)
       PROVE  /\ RunsAreDone'
              /\ \A r \in Runs : r # t => Children(r)' = Children(r) /\ WritesOf(r)' = WritesOf(r)
              /\ t \in Runs => ~IsSystem(runs[t].pipeline) /\ Pending(t, rest)'
  <2> PICK new : new = Len(runs) + 1
    OBVIOUS
  <2>1. /\ \A r : Children(r)' = Children(r) \cup (IF r = t THEN {new} ELSE {})
        /\ Children(new)' = {} /\ Runs' = Runs \cup {new} /\ new \notin Runs
    BY <1>16, ChildrenGrow
  <2>2. /\ \A n \in DOMAIN stored : stored'[n] = stored[n]
        /\ \A r : WritesOf(r)' = WritesOf(r)
    BY <1>7, <1>16
  <2>3. /\ \A r \in Runs : runs'[r].status = "FINISHED" => runs[r].status = "FINISHED"
        /\ runs'[new].status # "FINISHED"
    BY <1>16 DEF RunsAppends, RunsRaise, IsNewRun, Ends
  <2>4. t \in Runs => runs[t].status = "running" /\ runs'[t].status # "FINISHED"
    <3>1. t \in Runs => runs[t].status = "running"
      BY <1>16, TopRuns DEF NextCall
    <3> QED
      BY <2>3, <3>1
  <2>5. t \in Runs => ~IsSystem(runs[t].pipeline)
    <3>1. t \in Runs => t # 0
      BY RunsMeasuredFacts DEF RunsMeasured
    <3> QED
      BY <1>16, <3>1 DEF SystemRuns, NextCall, StackMeasured
  <2>6. t \in Runs => Pending(t, stack[1].queue)
    <3>1. t \in Runs => t # 0
      BY RunsMeasuredFacts DEF RunsMeasured
    <3> PICK queue : queue = stack[1].queue
      OBVIOUS
    <3>2. t \in Runs => Pending(t, queue)
      BY <1>0, <1>16, <2>5, <3>1 DEF NextCall, StackMeasured
    <3> QED
      BY <3>2
  <2>7. ASSUME t \in Runs
        PROVE  InOrder(t)' /\ Pending(t, rest)'
    <3>1. InOrder(t)
      BY <1>0, <2>7
    <3> PICK queue : queue = stack[1].queue
      OBVIOUS
    <3>2. /\ c \in queue /\ \A d \in queue \ {c} : Before(c.at, d.at)
          /\ Pending(t, queue)
      BY <1>16, <2>6, <2>7 DEF NextCall
    <3>3. InOrder(t)' /\ Pending(t, queue \ {c})'
      BY <1>16, <2>7, <3>1, <3>2, PendingCalls
    <3>4. rest = queue \ {c}
      BY <1>16
    <3> QED
      BY <3>3, <3>4
  <2>8. ASSUME NEW r \in Runs'
        PROVE  InOrder(r)' /\ (Ended(r)' => Pending(r, {})')
    <3>1. CASE r = new
      BY <2>1, <2>3, <3>1 DEF InOrder
    <3>2. CASE r \in Runs /\ r = t
      BY <2>4, <2>7, <3>2
    <3>3. CASE r \in Runs /\ r # t
      <4>1. Ended(r)' => Ended(r)
        BY <1>s, <2>3, <3>3 DEF IsSystem
      <4>2. /\ InOrder(r)'
            /\ \A queue : Pending(r, queue) => Pending(r, queue)'
        BY <1>2, <2>1, <2>2, <3>3
      <4> QED
        BY <1>0, <3>3, <4>1, <4>2
    <3> QED
      BY <2>1, <3>1, <3>2, <3>3
  <2> QED
    BY <2>1, <2>2, <2>5, <2>7, <2>8
\* The frame of the run that calls, and those below.
<1>17. ASSUME NEW c, NextCall(c), UNCHANGED stored,
              RunsAppends(c, "skipped") \/ RunsAppends(c, "running"),
              NEW i \in DOMAIN stack', NEW j \in DOMAIN stack,
              stack'[i].run = stack[j].run, stack'[i].step = stack[j].step,
              j = 1 => stack'[i].queue = stack[1].queue \ {c},
              j # 1 => stack'[i].queue = stack[j].queue
       PROVE  \A r, queue : Owes(i, r, queue)' => Pending(r, queue)'
  <2> PICK t, rest : t = stack[1].run /\ rest = stack[1].queue \ {c}
    OBVIOUS
  <2>1. /\ \A r \in Runs : r # t => Children(r)' = Children(r) /\ WritesOf(r)' = WritesOf(r)
        /\ t \in Runs => Pending(t, rest)'
    BY <1>16, <1>17
  <2>2. CASE j = 1
    <3> SUFFICES ASSUME NEW r, NEW queue, r = stack'[i].run, queue = stack'[i].queue, r # 0
                 PROVE  Pending(r, queue)'
      OBVIOUS
    <3>1. r = t /\ queue = rest /\ t \in Runs
      BY <1>i, <1>17, <2>2
    <3> QED
      BY <2>1, <3>1
  <2>3. CASE j # 1
    <3>1. stack[j].run # t
      BY <1>17, <2>3, FramesDiffer DEF NextCall, StackMeasured
    <3> QED
      BY <1>3, <1>7, <1>17, <2>1, <2>3, <3>1
  <2> QED
    BY <2>2, <2>3
<1>18. ASSUME NEW c, SkipStep(c)
       PROVE  FramesOwe' /\ RunsAreDone'
  <2>1. NextCall(c) /\ RunsAppends(c, "skipped") /\ UNCHANGED stored
    BY <1>18 DEF SkipStep
  <2>2. /\ DOMAIN stack' = DOMAIN stack
        /\ \A i \in DOMAIN stack : /\ stack'[i].run = stack[i].run /\ stack'[i].step = stack[i].step
                                   /\ i = 1 => stack'[i].queue = stack[1].queue \ {c}
                                   /\ i # 1 => stack'[i].queue = stack[i].queue
    BY <1>18 DEF SkipStep, StackCalls
  <2>3. FramesOwe'
    BY <1>17, <2>1, <2>2
  <2>4. RunsAreDone'
    BY <1>16, <2>1
  <2> QED
    BY <2>3, <2>4
<1>19. ASSUME NEW c, EnterStep(c)
       PROVE  FramesOwe' /\ RunsAreDone'
  <2>1. NextCall(c) /\ RunsAppends(c, "running") /\ UNCHANGED stored
    BY <1>19 DEF EnterStep
  <2>2. /\ stack'[1].step = "stages"
        /\ \A i \in DOMAIN stack : /\ stack'[i + 1].run = stack[i].run /\ stack'[i + 1].step = stack[i].step
                                   /\ i = 1 => stack'[i + 1].queue = stack[1].queue \ {c}
                                   /\ i # 1 => stack'[i + 1].queue = stack[i].queue
    BY <1>19 DEF EnterStep, StackEnters
  <2>3. DOMAIN stack = 1..Len(stack) /\ DOMAIN stack' = 1..(Len(stack) + 1) /\ Len(stack) \in Nat
    BY <1>19 DEF EnterStep, StackEnters, StackMeasured
  <2>4. ASSUME NEW i \in DOMAIN stack', i # 1
        PROVE  \A r, queue : Owes(i, r, queue)' => Pending(r, queue)'
    <3> PICK j : j = i - 1
      OBVIOUS
    <3>1. j \in DOMAIN stack /\ j + 1 = i
      BY <2>3, <2>4
    <3>2. /\ stack'[i].run = stack[j].run /\ stack'[i].step = stack[j].step
          /\ j = 1 => stack'[i].queue = stack[1].queue \ {c}
          /\ j # 1 => stack'[i].queue = stack[j].queue
      BY <2>2, <3>1
    <3> QED
      BY <1>17, <2>1, <3>1, <3>2
  <2>5. FramesOwe'
    BY <2>2, <2>4
  <2>6. RunsAreDone'
    BY <1>16, <2>1
  <2> QED
    BY <2>5, <2>6
<1>20. ASSUME NEW c, RaiseInTaskStep(c)
       PROVE  FramesOwe' /\ RunsAreDone'
  <2>1. NextCall(c) /\ RunsAppends(c, "raised") /\ UNCHANGED stored /\ DOMAIN stack' = {}
    BY <1>20 DEF RaiseInTaskStep, StackClears
  <2>2. RunsAreDone'
    BY <1>16, <2>1
  <2> QED
    BY <2>1, <2>2
<1>21. ASSUME NEW c, RaiseInRunStep(c)
       PROVE  FramesOwe' /\ RunsAreDone'
  <2> PICK t, rest : t = stack[1].run /\ rest = stack[1].queue \ {c}
    OBVIOUS
  <2>1. /\ NextCall(c) /\ RunsRaise(c, t) /\ UNCHANGED stored /\ StackPops
        /\ 1 \in DOMAIN stack
    BY <1>21 DEF RaiseInRunStep, NextCall, StackMeasured
  <2>2. /\ RunsAreDone'
        /\ \A r \in Runs : r # t => Children(r)' = Children(r) /\ WritesOf(r)' = WritesOf(r)
    BY <1>16, <2>1
  <2>3. ASSUME NEW i \in DOMAIN stack'
        PROVE  \A r, queue : Owes(i, r, queue)' => Pending(r, queue)'
    <3>1. i + 1 \in DOMAIN stack /\ i + 1 # 1 /\ stack'[i] = stack[i + 1]
      BY <1>13, <2>1
    <3>2. stack[i + 1].run # t
      BY <2>1, <3>1, FramesDiffer
    <3> QED
      BY <1>3, <1>7, <2>1, <2>2, <3>1, <3>2
  <2> QED
    BY <2>2, <2>3
<1> QED
  BY <1>9, <1>10, <1>11, <1>12, <1>14, <1>15, <1>18, <1>19, <1>20, <1>21 DEF AnyStep
-----------------------------------------------------------------------------
(* What the invariants say of a run that has finished.                     *)

LEMMA NatMin ==
  ASSUME NEW T, T \subseteq Nat, T # {}
  PROVE  \E x \in T : \A y \in T : x <= y
<1> DEFINE R == OpToRel(<, Nat)
<1>1. IsWellFoundedOn(R, Nat)
  BY NatLessThanWellFounded
<1>2. \A x, y \in Nat : y < x => <<y, x>> \in R
  BY DEF OpToRel
<1> HIDE DEF R
<1>3. PICK x \in T : \A y \in T : ~(<<y, x>> \in R)
  BY <1>1, WFMin
<1>4. \A y \in T : ~(y < x)
  BY <1>2, <1>3
<1> QED
  BY <1>4

LEMMA BoundedMax ==
  ASSUME NEW n \in Nat, NEW T, T \subseteq 1..n, T # {}
  PROVE  \E x \in T : \A y \in T : y <= x
<1> DEFINE U == {m \in Nat : \E y \in T : m = n - y}
<1>1. U # {}
  <2>1. PICK y : y \in T
    OBVIOUS
  <2>2. n - y \in U
    BY <2>1
  <2> QED
    BY <2>2
<1>2. PICK m \in U : \A k \in U : m <= k
  BY <1>1, NatMin
<1>3. PICK x \in T : m = n - x
  BY <1>2
<1>4. ASSUME NEW y \in T
      PROVE  y <= x
  <2>1. n - y \in U
    OBVIOUS
  <2>2. n - x <= n - y
    BY <1>2, <1>3, <2>1
  <2> QED
    BY <2>2
<1> QED
  BY <1>4

LEMMA MinMaxFacts ==
  ASSUME NEW S, S \subseteq Nat, NEW x \in S
  PROVE  /\ (\A y \in S : y <= x) => Max(S) = x
         /\ (\A y \in S : x <= y) => Min(S) = x
<1>1. ASSUME \A y \in S : y <= x
      PROVE  Max(S) = x
  <2>1. \E z \in S : \A y \in S : z >= y
    BY <1>1
  <2>2. Max(S) \in S /\ \A y \in S : Max(S) >= y
    BY <2>1 DEF Max
  <2>3. Max(S) \in Nat /\ x \in Nat /\ Max(S) >= x /\ Max(S) <= x
    BY <1>1, <2>2
  <2> QED
    BY <2>3
<1>2. ASSUME \A y \in S : x <= y
      PROVE  Min(S) = x
  <2>1. \E z \in S : \A y \in S : z =< y
    BY <1>2
  <2>2. Min(S) \in S /\ \A y \in S : Min(S) =< y
    BY <2>1 DEF Min
  <2>3. Min(S) \in Nat /\ x \in Nat /\ Min(S) =< x /\ x =< Min(S)
    BY <1>2, <2>2
  <2> QED
    BY <2>3
<1> QED
  BY <1>1, <1>2

\* Rows and runs are numbers, and finitely many.
LEMMA NamesAreNumbers ==
  ASSUME Base
  PROVE  /\ Len(stored) \in Nat /\ DOMAIN stored = 1..Len(stored)
         /\ Len(runs) \in Nat /\ Runs = 1..Len(runs)
         /\ \A r : WritesOf(r) \subseteq 1..Len(stored)
         /\ \A r : Children(r) \subseteq 1..Len(runs)
         /\ \A S : S \subseteq Runs => IsFiniteSet(S)
<1>1. /\ Len(stored) \in Nat /\ DOMAIN stored = 1..Len(stored)
      /\ Len(runs) \in Nat /\ Runs = 1..Len(runs)
  BY DEF Base, Types, Runs
<1>2. /\ \A r : WritesOf(r) \subseteq 1..Len(stored)
      /\ \A r : Children(r) \subseteq 1..Len(runs)
  BY <1>1 DEF WritesOf, Children
<1>3. IsFiniteSet(1..Len(runs))
  BY <1>1, FS_Interval
<1>4. \A S : S \subseteq Runs => IsFiniteSet(S)
  BY <1>1, <1>3, FS_Subset
<1> QED
  BY <1>1, <1>2, <1>4

\* A call comes once.
LEMMA OnePlaceOneCall ==
  ASSUME Base, NEW r \in Runs, InOrder(r), NEW c \in Children(r), NEW d \in Children(r),
         runs[c].at = runs[d].at
  PROVE  c = d
<1>1. c \in Nat /\ d \in Nat
  BY NamesAreNumbers DEF Children
<1>2. ~Before(runs[c].at, runs[c].at)
  <2>1. runs[c] \in Run
    BY DEF Children, Base, Types, Runs
  <2>2. \A k \in 1..5 : runs[c].at[k] \in Nat
    BY <2>1 DEF Run, Place
  <2> QED
    BY <2>2 DEF Before
<1>3. c < d => Before(runs[c].at, runs[d].at)
  BY DEF InOrder
<1>4. d < c => Before(runs[d].at, runs[c].at)
  BY DEF InOrder
<1> QED
  BY <1>1, <1>2, <1>3, <1>4
\* The calls of a cascade about the rows of one topic: all have the place of the first
\* write to it, and then their own.
LEMMA CallsOfTopic ==
  ASSUME Base, NEW W, W \subseteq DOMAIN stored, NEW n \in W
  PROVE  \E t \in W :
           /\ FirstOfTopic(W, t) /\ SameTopic(n, t)
           /\ \A s \in W : FirstOfTopic(W, s) /\ SameTopic(n, s) => s = t
<1>1. W \subseteq Nat
  BY NamesAreNumbers
<1> DEFINE T == {m \in W : SameTopic(m, n)}
<1>2. T # {} /\ T \subseteq Nat
  BY <1>1 DEF SameTopic
<1>3. PICK t \in T : \A m \in T : t <= m
  BY <1>2, NatMin
<1>4. FirstOfTopic(W, t) /\ SameTopic(n, t)
  BY <1>3 DEF FirstOfTopic, SameTopic
<1>5. \A s \in W : FirstOfTopic(W, s) /\ SameTopic(n, s) => s <= t /\ t <= s
  BY <1>3, <1>4 DEF FirstOfTopic, SameTopic
<1> QED
  BY <1>1, <1>3, <1>4, <1>5

\* The call of q for the inserted row n is in the cascade, at a, and has no other place.
InsertComesAt(W, n, q, a) ==
    /\ \E e \in Cascade(W) : /\ e.pipeline = q /\ e.at = a /\ e.event.type = "insert"
                             /\ e.event.pk = stored[n].pk /\ e.event.new = {n}
    /\ \A e \in Cascade(W) :
          e.pipeline = q /\ e.event.type = "insert" /\ e.event.new = {n} => e.at = a

\* The calls of q for the row that n updates: one for each update of its topic from the
\* first of the row on, with the updates of the row so far.
UpdateComesAt(e, W, q, t, i, first) ==
    /\ e.at = <<t, 0, i, first, q>> /\ e.event = MergedUpdate(W, i, first)
UpdatesComeAt(W, n, q, t, first) ==
    /\ \A i \in OfType(W, "update") : SameTopic(i, n) /\ first <= i =>
          [pipeline |-> q, event |-> MergedUpdate(W, i, first),
           at |-> <<t, 0, i, first, q>>] \in Cascade(W)
    /\ \A e \in Cascade(W) :
          e.pipeline = q /\ e.event.type = "update" /\ e.event.pk = stored[n].pk =>
             \E i \in OfType(W, "update") :
                SameTopic(i, n) /\ first <= i /\ UpdateComesAt(e, W, q, t, i, first)

\* Each inserted row is one call of each pipeline of its topic, at a place that tells
\* which.
LEMMA InsertedRowCalls ==
  ASSUME Base, NEW W, W \subseteq DOMAIN stored, NEW n \in W, stored[n].type = "insert",
         NEW q \in Pipelines, PipelineList[q].topic = stored[n].topic, Matches("insert", q)
  PROVE  \E a : InsertComesAt(W, n, q, a)
<1>1. PICK t \in W : /\ FirstOfTopic(W, t) /\ SameTopic(n, t)
                     /\ \A s \in W : FirstOfTopic(W, s) /\ SameTopic(n, s) => s = t
  BY CallsOfTopic
<1> DEFINE a == <<t, 1, n, n, q>>
           f == InsertOf(stored[n].topic, stored[n].pk, n)
           e == [pipeline |-> q, event |-> f, at |-> a]
<1>2. f.topic = stored[n].topic /\ f.type = "insert" /\ f.pk = stored[n].pk /\ f.new = {n}
  BY DEF InsertOf
<1>3. e \in Matching(f, t, 1, n, n)
  BY <1>2 DEF Matching
<1>4. e \in Cascade(W)
  <2>1. n \in OfType(W, "insert")
    BY DEF OfType
  <2>2. e \in InsertCalls(W, t)
    BY <1>1, <1>3, <2>1 DEF InsertCalls, InsertEvents, SameTopic
  <2> QED
    BY <1>1, <2>2 DEF Cascade
<1>5. e.pipeline = q /\ e.at = a /\ e.event = f
  OBVIOUS
<1>6. ASSUME NEW d \in Cascade(W), d.pipeline = q, d.event.type = "insert", d.event.new = {n}
      PROVE  d.at = a
  <2>1. PICK s \in W : FirstOfTopic(W, s) /\ d \in UpdateCalls(W, s) \cup InsertCalls(W, s)
    BY DEF Cascade
  <2>2. d \notin UpdateCalls(W, s)
    <3> SUFFICES ASSUME d \in UpdateCalls(W, s)
                 PROVE  FALSE
      OBVIOUS
    <3>1. PICK i, j : d \in Matching(MergedUpdate(W, i, j), s, 0, i, j)
      BY DEF UpdateCalls, UpdateEvents
    <3>2. d.event = MergedUpdate(W, i, j)
      BY <3>1 DEF Matching
    <3> QED
      BY <1>6, <3>2 DEF MergedUpdate
  <2>3. PICK m \in OfType(W, "insert") :
             /\ SameTopic(m, s)
             /\ d \in Matching(InsertOf(stored[m].topic, stored[m].pk, m), s, 1, m, m)
    BY <2>1, <2>2 DEF InsertCalls, InsertEvents
  <2>4. PICK p \in Pipelines :
             d = [pipeline |-> p, event |-> InsertOf(stored[m].topic, stored[m].pk, m),
                  at |-> <<s, 1, m, m, p>>]
    BY <2>3 DEF Matching
  <2>5. p = q /\ {m} = {n} /\ d.at = <<s, 1, m, m, p>>
    BY <1>6, <2>4 DEF InsertOf
  <2>6. m = n
    BY <2>5
  <2>7. s = t
    BY <1>1, <2>1, <2>3, <2>6 DEF SameTopic
  <2> QED
    BY <2>5, <2>6, <2>7
<1> HIDE DEF a, f, e
<1> QED
  BY <1>2, <1>4, <1>5, <1>6 DEF InsertComesAt

\* Each update of a topic from the first update of a row on is one call about that row,
\* with all the updates up to it.
LEMMA UpdatedRowCalls ==
  ASSUME Base, NEW W, W \subseteq DOMAIN stored, NEW n \in W, stored[n].type = "update",
         NEW q \in Pipelines, PipelineList[q].topic = stored[n].topic, Matches("update", q),
         NEW first \in OfType(W, "update"), SameRow(first, n), FirstOfRow(W, first)
  PROVE  \E t \in Nat : UpdatesComeAt(W, n, q, t, first)
<1>1. PICK t \in W : /\ FirstOfTopic(W, t) /\ SameTopic(n, t)
                     /\ \A s \in W : FirstOfTopic(W, s) /\ SameTopic(n, s) => s = t
  BY CallsOfTopic
<1>2. W \subseteq Nat /\ OfType(W, "update") \subseteq W
  BY NamesAreNumbers DEF OfType
<1>3. ASSUME NEW i \in OfType(W, "update"), SameTopic(i, n), first <= i
      PROVE  [pipeline |-> q, event |-> MergedUpdate(W, i, first),
              at |-> <<t, 0, i, first, q>>] \in Cascade(W)
  <2> DEFINE f == MergedUpdate(W, i, first)
             e == [pipeline |-> q, event |-> f, at |-> <<t, 0, i, first, q>>]
  <2>1. f.topic = stored[first].topic /\ f.type = "update"
    BY DEF MergedUpdate
  <2>2. f.topic = stored[n].topic
    BY <2>1 DEF SameRow, SameTopic
  <2>3. e \in Matching(f, t, 0, i, first)
    BY <2>1, <2>2 DEF Matching
  <2>4. SameTopic(i, t) /\ SameTopic(first, t)
    BY <1>1, <1>3 DEF SameTopic, SameRow
  <2> HIDE DEF e
  <2>5. e \in UpdateCalls(W, t)
    <3>1. <<i, first>> \in {y \in OfType(W, "update") \X OfType(W, "update") :
             SameTopic(y[1], t) /\ SameTopic(y[2], t) /\ FirstOfRow(W, y[2]) /\ y[2] <= y[1]}
      BY <1>3, <2>4
    <3> QED
      BY <2>3, <3>1 DEF UpdateCalls, UpdateEvents
  <2>6. e \in Cascade(W)
    BY <1>1, <2>5 DEF Cascade
  <2> QED
    BY <2>6 DEF e
<1>4. ASSUME NEW e \in Cascade(W), e.pipeline = q, e.event.type = "update", e.event.pk = stored[n].pk
      PROVE  \E i \in OfType(W, "update") :
                SameTopic(i, n) /\ first <= i /\ UpdateComesAt(e, W, q, t, i, first)
  <2>1. PICK s \in W : FirstOfTopic(W, s) /\ e \in UpdateCalls(W, s) \cup InsertCalls(W, s)
    BY DEF Cascade
  <2>2. e \notin InsertCalls(W, s)
    <3> SUFFICES ASSUME e \in InsertCalls(W, s)
                 PROVE  FALSE
      OBVIOUS
    <3>1. PICK m : e \in Matching(InsertOf(stored[m].topic, stored[m].pk, m), s, 1, m, m)
      BY DEF InsertCalls, InsertEvents
    <3>2. e.event = InsertOf(stored[m].topic, stored[m].pk, m)
      BY <3>1 DEF Matching
    <3> QED
      BY <1>4, <3>2 DEF InsertOf
  <2>3. PICK x \in {y \in OfType(W, "update") \X OfType(W, "update") :
                  SameTopic(y[1], s) /\ SameTopic(y[2], s) /\ FirstOfRow(W, y[2]) /\ y[2] <= y[1]} :
             e \in Matching(MergedUpdate(W, x[1], x[2]), s, 0, x[1], x[2])
    BY <2>1, <2>2 DEF UpdateCalls, UpdateEvents
  <2> PICK i, j : i = x[1] /\ j = x[2]
    OBVIOUS
  <2>4. /\ i \in OfType(W, "update") /\ j \in OfType(W, "update")
        /\ SameTopic(i, s) /\ SameTopic(j, s) /\ FirstOfRow(W, j) /\ j <= i
    BY <2>3
  <2>5. PICK p \in Pipelines : /\ PipelineList[p].topic = MergedUpdate(W, i, j).topic
                               /\ e = [pipeline |-> p, event |-> MergedUpdate(W, i, j),
                                       at |-> <<s, 0, i, j, p>>]
    BY <2>3 DEF Matching
  <2>6. /\ p = q /\ e.at = <<s, 0, i, j, q>> /\ e.event = MergedUpdate(W, i, j)
        /\ PipelineList[q].topic = MergedUpdate(W, i, j).topic
    BY <1>4, <2>5
  <2>7. stored[j].topic = stored[n].topic /\ stored[j].pk = stored[n].pk
    BY <1>4, <2>6 DEF MergedUpdate
  <2>8. j = first
    <3>1. j <= first
      BY <2>4, <2>7 DEF FirstOfRow, SameRow, SameTopic
    <3>2. first <= j
      BY <2>4, <2>7 DEF FirstOfRow, SameRow, SameTopic
    <3>3. j \in Nat /\ first \in Nat
      BY <1>2, <2>4
    <3> QED
      BY <3>1, <3>2, <3>3
  <2>9. s = t /\ SameTopic(i, n)
    BY <1>1, <2>1, <2>4, <2>7 DEF SameTopic
  <2> QED
    BY <2>4, <2>6, <2>8, <2>9 DEF UpdateComesAt
<1>5. t \in Nat
  BY <1>2
<1> QED
  BY <1>3, <1>4, <1>5 DEF UpdatesComeAt
\* An inserted row has been handed over once ...
LEMMA InsertIsTriggered ==
  ASSUME Base, NEW r \in Runs, InOrder(r), Pending(r, {}),
         NEW n \in WritesOf(r), stored[n].type = "insert",
         NEW q \in Pipelines, PipelineList[q].topic = stored[n].topic, Matches("insert", q)
  PROVE  Cardinality({c \in Calls(r, q, "insert", stored[n].pk) : runs[c].event.new = {n}}) = 1
<1> PICK W : W = WritesOf(r)
  OBVIOUS
<1>1. W \subseteq DOMAIN stored /\ n \in W /\ Made(r) = Cascade(W)
  BY DEF WritesOf, Pending
<1>2. PICK a : InsertComesAt(W, n, q, a)
  BY <1>1, InsertedRowCalls
<1>3. PICK c \in Children(r) :
         /\ CallOf(c).pipeline = q /\ CallOf(c).at = a /\ CallOf(c).event.type = "insert"
         /\ CallOf(c).event.pk = stored[n].pk /\ CallOf(c).event.new = {n}
  BY <1>1, <1>2 DEF Made, InsertComesAt
<1>4. c \in Calls(r, q, "insert", stored[n].pk) /\ runs[c].event.new = {n} /\ runs[c].at = a
  BY <1>3 DEF CallOf, Calls
<1>5. ASSUME NEW d \in Calls(r, q, "insert", stored[n].pk), runs[d].event.new = {n}
      PROVE  d = c
  <2>1. /\ d \in Children(r) /\ runs[d].pipeline = q /\ runs[d].event.type = "insert"
    BY DEF Calls
  <2>2. /\ CallOf(d) \in Cascade(W) /\ CallOf(d).pipeline = q /\ CallOf(d).at = runs[d].at
        /\ CallOf(d).event.type = "insert" /\ CallOf(d).event.new = {n}
    BY <1>1, <1>5, <2>1 DEF Made, CallOf
  <2>3. runs[d].at = a
    BY <1>2, <2>2 DEF InsertComesAt
  <2> QED
    BY <1>4, <2>1, <2>3, OnePlaceOneCall
<1>6. {d \in Calls(r, q, "insert", stored[n].pk) : runs[d].event.new = {n}} = {c}
  BY <1>4, <1>5
<1> QED
  BY <1>6, FS_Singleton

\* The updates of n's topic by r, and those of its row.
Updates(r, n) == {m \in WritesOf(r) : stored[m].topic = stored[n].topic /\ stored[m].type = "update"}
Mine(r, n)    == {m \in Updates(r, n) : stored[m].pk = stored[n].pk}

\* ... and an updated one once for each update of its topic from its own first on, last
\* with all of its own.
LEMMA UpdateIsTriggered ==
  ASSUME Base, NEW r \in Runs, InOrder(r), Pending(r, {}),
         NEW n \in WritesOf(r), stored[n].type = "update",
         NEW q \in Pipelines, PipelineList[q].topic = stored[n].topic, Matches("update", q),
         NEW calls, calls = Calls(r, q, "update", stored[n].pk)
  PROVE  /\ Cardinality(calls) = Cardinality({m \in Updates(r, n) : m >= Min(Mine(r, n))})
         /\ runs[Max(calls)].event.new = Mine(r, n)
         /\ runs[Max(calls)].event.old = Min(Mine(r, n))
<1> PICK ups, mine, first : ups = Updates(r, n) /\ mine = Mine(r, n) /\ first = Min(mine)
  OBVIOUS
<1> PICK W : W = WritesOf(r)
  OBVIOUS
<1>1. /\ W \subseteq DOMAIN stored /\ W \subseteq 1..Len(stored) /\ Len(stored) \in Nat
      /\ n \in W /\ Made(r) = Cascade(W)
  BY NamesAreNumbers DEF WritesOf, Pending
<1>2. /\ ups = {m \in OfType(W, "update") : SameTopic(m, n)}
      /\ mine = {m \in OfType(W, "update") : SameRow(m, n)}
      /\ n \in mine /\ mine \subseteq ups /\ ups \subseteq W
  BY <1>1 DEF OfType, SameTopic, SameRow, Updates, Mine
<1>3. first \in mine /\ \A m \in mine : first <= m
  <2>1. mine \subseteq Nat /\ mine # {}
    BY <1>1, <1>2
  <2>2. PICK x \in mine : \A m \in mine : x <= m
    BY <2>1, NatMin
  <2>3. Min(mine) = x
    BY <2>1, <2>2, MinMaxFacts
  <2> QED
    BY <2>2, <2>3
<1>4. first \in OfType(W, "update") /\ SameRow(first, n) /\ FirstOfRow(W, first) /\ first \in Nat
  <2>1. first \in OfType(W, "update") /\ SameRow(first, n)
    BY <1>2, <1>3
  <2>2. \A m \in OfType(W, "update") : SameRow(m, first) => m \in mine
    BY <1>2, <2>1 DEF SameRow, SameTopic
  <2> QED
    BY <1>1, <1>2, <1>3, <2>1, <2>2 DEF FirstOfRow
<1>5. PICK t \in Nat : UpdatesComeAt(W, n, q, t, first)
  BY <1>1, <1>4, UpdatedRowCalls
<1> DEFINE after == {m \in ups : m >= first}
<1>6. after \subseteq Nat /\ after \subseteq OfType(W, "update")
      /\ \A m \in OfType(W, "update") : SameTopic(m, n) /\ first <= m <=> m \in after
  BY <1>1, <1>2, <1>4
<1>7. ASSUME NEW c \in calls
      PROVE  /\ runs[c].at[3] \in after
             /\ runs[c].at = <<t, 0, runs[c].at[3], first, q>>
             /\ runs[c].event = MergedUpdate(W, runs[c].at[3], first)
  <2>1. /\ c \in Children(r) /\ runs[c].pipeline = q /\ runs[c].event.type = "update"
        /\ runs[c].event.pk = stored[n].pk
    BY DEF Calls
  <2>2. /\ CallOf(c) \in Cascade(W) /\ CallOf(c).pipeline = q /\ CallOf(c).at = runs[c].at
        /\ CallOf(c).event = runs[c].event
    BY <1>1, <2>1 DEF Made, CallOf
  <2>3. PICK i \in OfType(W, "update") :
             /\ SameTopic(i, n) /\ first <= i
             /\ runs[c].at = <<t, 0, i, first, q>> /\ runs[c].event = MergedUpdate(W, i, first)
    BY <1>5, <2>1, <2>2 DEF UpdatesComeAt, UpdateComesAt
  <2>4. runs[c].at[3] = i
    BY <2>3
  <2> QED
    BY <1>6, <2>3, <2>4
<1>8. ASSUME NEW i \in after
      PROVE  \E c \in calls : runs[c].at[3] = i
  <2> DEFINE e == [pipeline |-> q, event |-> MergedUpdate(W, i, first), at |-> <<t, 0, i, first, q>>]
  <2>1. e \in Made(r)
    BY <1>1, <1>5, <1>6 DEF UpdatesComeAt
  <2>2. PICK c \in Children(r) : e = CallOf(c)
    BY <2>1 DEF Made
  <2>3. /\ runs[c].pipeline = q /\ runs[c].event = MergedUpdate(W, i, first)
        /\ runs[c].at = <<t, 0, i, first, q>>
    BY <2>2 DEF CallOf
  <2>4. runs[c].event.type = "update" /\ runs[c].event.pk = stored[n].pk
    BY <1>4, <2>3 DEF MergedUpdate, SameRow
  <2>5. runs[c].at[3] = i
    BY <2>3
  <2> QED
    BY <2>3, <2>4, <2>5 DEF Calls
<1>9. calls \subseteq Children(r) /\ calls \subseteq 1..Len(runs) /\ Len(runs) \in Nat
      /\ IsFiniteSet(calls)
  <2>1. calls \subseteq Children(r)
    BY DEF Calls
  <2> QED
    BY <2>1, NamesAreNumbers
<1> HIDE DEF after
<1>10. Cardinality(calls) = Cardinality(after)
  <2> DEFINE f == [c \in calls |-> runs[c].at[3]]
  <2>1. f \in [calls -> after]
    BY <1>7
  <2>2. ASSUME NEW c \in calls, NEW d \in calls, f[c] = f[d]
        PROVE  c = d
    <3>1. runs[c].at[3] = runs[d].at[3]
      BY <2>2
    <3>2. runs[c].at = runs[d].at
      BY <1>7, <3>1
    <3> QED
      BY <1>9, <3>2, OnePlaceOneCall
  <2>3. \A i \in after : \E c \in calls : f[c] = i
    BY <1>8
  <2> HIDE DEF f
  <2>4. f \in Bijection(calls, after)
    BY <2>1, <2>2, <2>3 DEF Bijection, Injection, Surjection, IsInjective
  <2>5. ExistsBijection(calls, after)
    BY <2>4 DEF ExistsBijection
  <2> QED
    BY <1>9, <2>5, FS_Bijection
<1>11. PICK last \in ups : \A m \in ups : m <= last
  <2>1. ups \subseteq 1..Len(stored) /\ ups # {}
    BY <1>1, <1>2
  <2> QED
    BY <1>1, <2>1, BoundedMax
<1>12. last \in after /\ last \in Nat
  BY <1>1, <1>2, <1>3, <1>6, <1>11
<1>13. PICK c \in calls : runs[c].at[3] = last
  BY <1>8, <1>12
<1>14. ASSUME NEW d \in calls
       PROVE  d <= c
  <2>1. c \in Nat /\ d \in Nat
    BY <1>9
  <2> SUFFICES ASSUME c < d
               PROVE  FALSE
    BY <2>1
  <2> PICK i : i = runs[d].at[3]
    OBVIOUS
  <2>2. /\ i \in after /\ i <= last /\ i \in Nat
        /\ runs[c].at = <<t, 0, last, first, q>> /\ runs[d].at = <<t, 0, i, first, q>>
    BY <1>6, <1>7, <1>11, <1>13 DEF after
  <2>3. Before(<<t, 0, last, first, q>>, <<t, 0, i, first, q>>)
    BY <1>9, <2>2 DEF InOrder
  <2>4. q \in Nat
    BY PipelinesAreNat
  <2> DEFINE a == <<t, 0, last, first, q>>
             b == <<t, 0, i, first, q>>
  <2>5. b[1] <= a[1] /\ b[2] <= a[2] /\ b[3] <= a[3] /\ b[4] <= a[4] /\ b[5] <= a[5]
    BY <1>4, <1>12, <2>2, <2>4
  <2>6. \A k \in 1..5 : a[k] \in Nat /\ b[k] \in Nat
    BY <1>4, <1>12, <2>2, <2>4
  <2> HIDE DEF a, b
  <2>7. PICK k \in 1..5 : a[k] < b[k]
    BY <2>3 DEF Before, a, b
  <2>8. k \in {1, 2, 3, 4, 5}
    OBVIOUS
  <2>9. b[k] <= a[k]
    BY <2>5, <2>8
  <2> QED
    BY <2>6, <2>7, <2>9
<1>15. Max(calls) = c
  BY <1>9, <1>14, MinMaxFacts
<1>16. runs[c].event = MergedUpdate(W, last, first)
  BY <1>7, <1>13
<1>17. {m \in OfType(W, "update") : m <= last /\ SameRow(m, first)} = mine
  <2>1. \A m \in OfType(W, "update") : SameRow(m, first) <=> SameRow(m, n)
    BY <1>4 DEF SameRow, SameTopic
  <2> QED
    BY <1>2, <1>11, <2>1
<1>18. runs[c].event.new = mine /\ runs[c].event.old = first
  BY <1>16, <1>17 DEF MergedUpdate
<1> QED
  BY <1>10, <1>15, <1>18 DEF after

LEMMA CascadesTriggerAll ==
  ASSUME Base, Cascades
  PROVE  EveryWriteIsTriggered
<1> SUFFICES ASSUME NEW r \in Runs, runs[r].status = "FINISHED", ~IsSystem(runs[r].pipeline),
                    NEW n \in WritesOf(r), NEW q \in Pipelines
             PROVE  LET w     == stored[n]
                        calls == Calls(r, q, w.type, w.pk)
                        ups   == {m \in WritesOf(r) : stored[m].topic = w.topic /\ stored[m].type = "update"}
                        mine  == {m \in ups : stored[m].pk = w.pk}
                        first == Min(mine) IN
                    PipelineList[q].topic = w.topic /\ Matches(w.type, q) =>
                        IF w.type = "insert"
                        THEN Cardinality({c \in calls : runs[c].event.new = {n}}) = 1
                        ELSE /\ Cardinality(calls) = Cardinality({m \in ups : m >= first})
                             /\ runs[Max(calls)].event.new = mine
                             /\ runs[Max(calls)].event.old = first
  BY DEF EveryWriteIsTriggered
<1> DEFINE calls == Calls(r, q, stored[n].type, stored[n].pk)
           ups   == {m \in WritesOf(r) : stored[m].topic = stored[n].topic /\ stored[m].type = "update"}
           mine  == {m \in ups : stored[m].pk = stored[n].pk}
           first == Min(mine)
<1> SUFFICES ASSUME PipelineList[q].topic = stored[n].topic, Matches(stored[n].type, q)
             PROVE  IF stored[n].type = "insert"
                    THEN Cardinality({c \in calls : runs[c].event.new = {n}}) = 1
                    ELSE /\ Cardinality(calls) = Cardinality({m \in ups : m >= first})
                         /\ runs[Max(calls)].event.new = mine
                         /\ runs[Max(calls)].event.old = first
  OBVIOUS
<1>1. InOrder(r) /\ Pending(r, {})
  BY DEF Cascades
<1>2. stored[n].type \in {"insert", "update"}
  <2>1. stored[n] \in Row
    BY DEF WritesOf, Base, Types
  <2> QED
    BY <2>1 DEF Row, Kinds
<1>3. CASE stored[n].type = "insert"
  BY <1>1, <1>3, InsertIsTriggered
<1>4. CASE stored[n].type = "update"
  <2>1. calls = Calls(r, q, "update", stored[n].pk) /\ Matches("update", q)
    BY <1>4
  <2>2. ups = Updates(r, n) /\ mine = Mine(r, n) /\ first = Min(Mine(r, n))
    BY DEF Updates, Mine
  <2> HIDE DEF calls, ups, mine, first
  <2>3. /\ Cardinality(calls) = Cardinality({m \in Updates(r, n) : m >= Min(Mine(r, n))})
        /\ runs[Max(calls)].event.new = Mine(r, n)
        /\ runs[Max(calls)].event.old = Min(Mine(r, n))
    BY <1>1, <1>4, <2>1, UpdateIsTriggered
  <2> QED
    BY <1>4, <2>2, <2>3
<1> QED
  BY <1>2, <1>3, <1>4
-----------------------------------------------------------------------------
(* The rows that are lost.                                                 *)

LEMMA UncalledRows ==
  ASSUME Base
  PROVE  Uncalled \subseteq DOMAIN stored
<1>1. ASSUME stack # <<>>, NEW c \in Top.queue
      PROVE  c.event.new \subseteq DOMAIN stored
  BY <1>1, TopFacts DEF Base, Ranges
<1> QED
  BY <1>1 DEF Uncalled

LEMMA LostRowsStep ==
  ASSUME Base, LostRows, [Next]_vars
  PROVE  LostRows'
<1>1. CASE UNCHANGED vars
  BY <1>1 DEF LostRows, vars
<1> SUFFICES ASSUME Next
             PROVE  LostRows'
  BY <1>1
<1>2. DOMAIN stored \subseteq DOMAIN stored'
  BY EveryStep DEF AnyStep, PushStep, PushAsyncStep, TurnPipelinesStep, TurnMonitorStep,
     TurnMonitorRaisesStep, SkipStep, EnterStep, RaiseInTaskStep, RaiseInRunStep, WriteStep, EndStep,
     FinishStagesStep, ReturnTaskStep, CrashStep, StoredAppends
<1>3. CASE LookupRaisesInTask
  BY <1>2, <1>3, UncalledRows DEF LookupRaisesInTask, LostRows
<1>4. CASE Crash
  <2>1. \A i \in DOMAIN ready : ready[i].kind = "pipelines" => ready[i].id \in DOMAIN stored
    BY DEF Base, Ranges
  <2> QED
    BY <1>2, <1>4, <2>1, UncalledRows DEF Crash, LostRows
<1>5. CASE ~LookupRaisesInTask /\ ~Crash
  <2>1. UNCHANGED lost
    BY <1>5 DEF Next, Engine, Push, PushAsync, TurnPipelines, TurnMonitor, TurnMonitorRaises, SkipDisabled,
       SkipCondition, Enter, RaiseInTask, RaiseInRun, LookupRaises, Write, WriteRaises, FinishStages,
       ReturnRun, ReturnTask
  <2> QED
    BY <1>2, <2>1 DEF LostRows
<1> QED
  BY <1>3, <1>4, <1>5

-----------------------------------------------------------------------------
(* The inductive invariant.                                                *)
IInv == Base /\ Writing /\ Logging /\ Quiet /\ Raising /\ Counting /\ Cascades /\ LostRows

LEMMA IInvInit == Init => IInv
<1> SUFFICES ASSUME Init
             PROVE  IInv
  OBVIOUS
<1>1. /\ DOMAIN stored = {} /\ DOMAIN runs = {} /\ DOMAIN stack = {} /\ DOMAIN ready = {}
  BY DEF Init
<1>2. Base
  BY <1>1, TypesInit DEF Base, Ranges, Frames, Runs
<1>3. Writing /\ Logging /\ Quiet /\ Raising /\ Cascades
  BY <1>1 DEF Writing, CascadeSeesAllWrites, Logging, LogsComeChildrenFirst, Quiet, SystemRuns, LogRows,
              Raising, Cascades, Runs
<1>4. Counting
  <2>1. Errors = {} /\ faults = 0
    BY <1>1 DEF Errors, Runs, Init
  <2> QED
    BY <2>1, FS_EmptySet DEF Counting
<1>5. LostRows
  BY DEF Init, LostRows
<1> QED
  BY <1>2, <1>3, <1>4, <1>5 DEF IInv

LEMMA IInvStep == IInv /\ [Next]_vars => IInv'
<1> SUFFICES ASSUME IInv, [Next]_vars
             PROVE  IInv'
  OBVIOUS
<1>1. Base /\ Writing /\ Logging /\ SystemRuns /\ LogRows /\ Raising /\ Counting /\ Cascades /\ LostRows
  BY DEF IInv, Quiet
<1>2. Base'
  BY <1>1, TypesStep, RangesStep, FramesStep DEF Base
<1>3. Writing'
  BY <1>1, WritingStep
<1>4. Logging'
  BY <1>1, LoggingStep
<1>5. SystemRuns' /\ LogRows'
  BY <1>1, SystemRunsStep, LogRowsStep
<1>6. Raising'
  BY <1>1, RaisingStep
<1>7. Cascades'
  BY <1>1, CascadesStep
<1>8. Counting'
  BY <1>1, CountingStep
<1>9. LostRows'
  BY <1>1, LostRowsStep
<1> QED
  BY <1>2, <1>3, <1>4, <1>5, <1>6, <1>7, <1>8, <1>9 DEF IInv, Quiet

LEMMA IInvAlways == Spec => []IInv
<1> QED BY IInvInit, IInvStep, PTL DEF Spec

LEMMA BaseTypes ==
  ASSUME Base, LostRows
  PROVE  TypeOK
<1>1. /\ program \in Programs /\ lost \subseteq DOMAIN stored
      /\ pushes \in 0..MaxPushes /\ faults \in 0..MaxFaults /\ crashes \in 0..MaxCrashes
      /\ \A n \in DOMAIN stored : stored[n].by \in Runs \cup {0, -1}
  BY DEF Base, Types, Ranges, LostRows
<1>2. ASSUME NEW r \in Runs
      PROVE  /\ runs[r].pipeline \in Pipelines
             /\ runs[r].event \in Events
             /\ runs[r].status \in Statuses
             /\ runs[r].log \in {"none", "queued", "stored", "lost"}
  <2>1. runs[r] \in Run
    BY DEF Base, Types, Runs
  <2>2. runs[r].event.new \subseteq DOMAIN stored
    BY DEF Base, Ranges
  <2>3. runs[r].event \in Event
    BY <2>1 DEF Run
  <2>4. runs[r].event \in Events
    BY <2>2, <2>3 DEF Event, Events, Kinds
  <2> QED
    BY <2>1, <2>4 DEF Run
<1>3. ASSUME NEW i \in DOMAIN stack
      PROVE  IF i = Len(stack) THEN stack[i].run = 0
             ELSE runs[stack[i].run].parent = stack[i + 1].run
  BY DEF Base, Frames
<1>4. {stack[i].run : i \in DOMAIN stack} \ {0} = {r \in Runs : runs[r].status = "running"}
  <2>1. ASSUME NEW i \in DOMAIN stack, stack[i].run # 0
        PROVE  stack[i].run \in Runs /\ runs[stack[i].run].status = "running"
    BY <2>1 DEF Base, Frames
  <2>2. ASSUME NEW r \in Runs, runs[r].status = "running"
        PROVE  r # 0 /\ \E i \in DOMAIN stack : stack[i].run = r
    BY <2>2, NamesAreNumbers DEF Base, Frames
  <2> QED
    BY <2>1, <2>2
<1> QED
  BY <1>1, <1>2, <1>3, <1>4 DEF TypeOK

LEMMA RaisingEndsOne ==
  ASSUME Base, Raising, Counting
  PROVE  ErrorsStopWhereTheyBelong
<1> SUFFICES ASSUME NEW r \in Runs, NEW c \in Children(r), runs[c].status = "raised"
             PROVE  runs[r].status = "ERROR" /\ c = Max(Children(r))
  BY DEF ErrorsStopWhereTheyBelong, Counting, Errors
<1>1. Children(r) \subseteq Nat
  BY NamesAreNumbers
<1>2. \A d \in Children(r) : (\A x \in Children(r) : x <= d) => Max(Children(r)) = d
  BY <1>1, MinMaxFacts
<1> QED
  BY <1>2 DEF Raising

LEMMA QuietMonitor ==
  ASSUME Base, Quiet
  PROVE  MonitoringIsQuiet
<1>1. ASSUME NEW r \in Runs
      PROVE  Cardinality({n \in DOMAIN stored : stored[n].by = -1 /\ stored[n].pk = r})
                = IF runs[r].log = "stored" THEN 1 ELSE 0
  <2> DEFINE S == {n \in DOMAIN stored : stored[n].by = -1 /\ stored[n].pk = r}
  <2>1. CASE runs[r].log = "stored"
    <3>1. PICK n \in DOMAIN stored : stored[n].by = -1 /\ stored[n].pk = r
      BY <2>1 DEF Quiet, LogRows
    <3>2. S = {n}
      BY <3>1 DEF Quiet, LogRows
    <3> QED
      BY <2>1, <3>2, FS_Singleton
  <2>2. CASE runs[r].log # "stored"
    <3>1. S = {}
      BY <2>2 DEF Quiet, LogRows
    <3> QED
      BY <2>2, <3>1, FS_EmptySet
  <2> QED
    BY <2>1, <2>2
<1> QED
  BY <1>1 DEF MonitoringIsQuiet, Quiet, SystemRuns

-----------------------------------------------------------------------------
(***************************************************************************)
(* The properties                                                          *)
(***************************************************************************)
\* The variables have their types, and the stack of frames is the chain of the runs in
\* progress, each called by the one below it.
THEOREM StackIsTheRunsInProgress == Spec => []TypeOK
<1>1. IInv => TypeOK
  BY BaseTypes DEF IInv
<1> QED BY IInvAlways, <1>1, PTL

\* Whatever the pipelines are and write, a run that finishes has handed every row it wrote
\* to every pipeline of the row's topic: inserted rows once, updated ones with OLD from
\* the first and NEW from all of its updates in the end.
THEOREM EveryWriteIsAlwaysTriggered == Spec => []EveryWriteIsTriggered
<1>1. IInv => EveryWriteIsTriggered
  BY CascadesTriggerAll DEF IInv
<1> QED BY IInvAlways, <1>1, PTL

\* No run starts another before its own last stage is done.
THEOREM CascadesAlwaysSeeAllWrites == Spec => []CascadeSeesAllWrites
<1>1. IInv => CascadeSeesAllWrites
  BY DEF IInv, Writing
<1> QED BY IInvAlways, <1>1, PTL

\* A run that raises makes an ERROR of the run that called it, which calls nothing more,
\* and no failure, of a stage, a run or a lookup, makes an ERROR of more than one run.
THEOREM ErrorsAlwaysStopThere == Spec => []ErrorsStopWhereTheyBelong
<1>1. IInv => ErrorsStopWhereTheyBelong
  BY RaisingEndsOne DEF IInv
<1> QED BY IInvAlways, <1>1, PTL

\* Runs on system topics trigger nothing and are not logged, and every other log is one
\* row, once it is stored.
THEOREM MonitoringIsAlwaysQuiet == Spec => []MonitoringIsQuiet
<1>1. IInv => MonitoringIsQuiet
  BY QuietMonitor DEF IInv
<1> QED BY IInvAlways, <1>1, PTL

\* The log of a run is stored after those of the runs it started, or these are lost.
THEOREM LogsAlwaysComeChildrenFirst == Spec => []LogsComeChildrenFirst
<1>1. IInv => LogsComeChildrenFirst
  BY DEF IInv, Logging
<1> QED BY IInvAlways, <1>1, PTL
==============================================================================
