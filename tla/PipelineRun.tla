---------------------------- MODULE PipelineRun ----------------------------
(***************************************************************************)
(* One replica of the service running pipelines.  A client pushes a row    *)
(* into a topic; the pipelines of that topic run, write rows into other    *)
(* topics, and these writes trigger the pipelines of those topics, until   *)
(* nothing more is triggered.  A run of a pipeline, and everything below   *)
(* it, happens within one turn of the event loop: the call stack is the    *)
(* variable "stack".  What is handed to asyncio.ensure_future, the pushes  *)
(* of the asynchronous route and the monitor logs of finished runs, waits  *)
(* in "ready".                                                             *)
(*                                                                         *)
(* What a pipeline writes is given by "program": the sequence of its       *)
(* writes, the stages, units and loops that contain them flattened (the    *)
(* triggers a unit collects are lost with the run when it fails, so where  *)
(* units begin and end makes no difference).  A row's content is the set   *)
(* of writes it shows; a write is named by its position in "stored".       *)
(* The calls that nested loops make are a set, each with its place: the    *)
(* values of the loop variables, the outermost first.                      *)
(***************************************************************************)
EXTENDS Integers, Sequences, FiniteSets, FiniteSetsExt

CONSTANTS
    PipelineList,   \* the pipelines, in the order they are loaded:
                    \* a sequence of [topic, type, enabled]
    Programs,       \* what they may write: functions from the domain of
                    \* PipelineList to sequences of [topic, type, pk]
    SystemTopics,   \* topics of kind "system"
    MonitorTopic,   \* "raw_pipeline_monitor"
    EntryTopic,     \* the topic clients push into
    MonitorOn,      \* settings.PIPELINE_MONITOR_ON
    MaxPushes,      \* bound: rows pushed by clients
    MaxFaults,      \* bound: conditions not met; conditions, actions, lookups raising
    MaxCrashes      \* bound: how often the process dies

Pipelines == DOMAIN PipelineList

ASSUME ConstantsAssumption ==
    /\ PipelineList \in Seq([topic: STRING, type: STRING, enabled: BOOLEAN])
    /\ Programs \subseteq
          [Pipelines -> Seq([topic: STRING, type: {"insert", "update"}, pk: Nat])]
    /\ EntryTopic \in STRING /\ MonitorTopic \in STRING
    /\ MaxPushes \in Nat /\ MaxFaults \in Nat /\ MaxCrashes \in Nat

VARIABLES
    program,  \* what each pipeline writes, chosen once and for all
    stored,   \* every row written, in order: [topic, type, pk, by], by the
              \* run named, a client (0) or the monitor (-1)
    runs,     \* every call of run_pipeline, in order
    stack,    \* the frames of the turn in progress, innermost first
    ready,    \* tasks waiting for a turn, oldest first
    pushes,   \* how many rows clients have pushed
    lost,     \* history: the rows whose task ended before it called any pipeline
    faults,
    crashes

vars == <<program, stored, runs, stack, ready, pushes, lost, faults, crashes>>

-----------------------------------------------------------------------------
IsSystem(p) == PipelineList[p].topic \in SystemTopics
InsertOf(topic, pk, n) ==
    [topic |-> topic, type |-> "insert", pk |-> pk, new |-> {n}, old |-> 0]

\* load_pipeline_by_topic_id and __match_trigger_type: the pipelines an event
\* triggers; the call of each has the place of the event and then its own in the list.
Matches(type, p) ==
    PipelineList[p].type \in {"insert-or-merge", type}

Matching(event, t, kind, i, j) ==
    {[pipeline |-> q, event |-> event, at |-> <<t, kind, i, j, q>>] :
        q \in {p \in Pipelines : PipelineList[p].topic = event.topic /\ Matches(event.type, p)}}

\* The call with place a is made before that with place b; and the event with place b,
\* of which only the first four matter, is reached after the calls of the event of a.
Before(a, b) ==
    \E k \in 1..5 : a[k] < b[k] /\ \A m \in 1..(k - 1) : a[m] = b[m]
EventBefore(a, b) ==
    \E k \in 1..4 : a[k] < b[k] /\ \A m \in 1..(k - 1) : a[m] = b[m]

\* Among the writes W of a run (positions in stored): those of one kind, the first to a
\* topic and the first update of a row.
OfType(W, type)    == {n \in W : stored[n].type = type}
SameTopic(m, n)    == stored[m].topic = stored[n].topic
SameRow(m, n)      == SameTopic(m, n) /\ stored[m].pk = stored[n].pk
FirstOfTopic(W, n) == \A m \in W : SameTopic(m, n) => n <= m
FirstOfRow(W, n)   == \A m \in OfType(W, "update") : SameRow(m, n) => n <= m

\* Mutant of MergedUpdate: OLD comes from the last of the updates.
MergedUpdateLastOld(W, i, j) ==
    [topic |-> stored[j].topic, type |-> "update", pk |-> stored[j].pk,
     new |-> {m \in OfType(W, "update") : m <= i /\ SameRow(m, j)},
     old |-> Max({m \in OfType(W, "update") : m <= i /\ SameRow(m, j)})]

\* The updates up to i of the row that j updates first, merged: OLD from j, NEW from all.
MergedUpdate(W, i, j) ==
    [topic |-> stored[j].topic, type |-> "update", pk |-> stored[j].pk,
     new |-> {m \in OfType(W, "update") : m <= i /\ SameRow(m, j)}, old |-> j]

\* __trigger_all_pipeline, the updates of the topic first written by t: each of them, i,
\* is merged into its row, and then all rows merged so far are triggered, in the order of
\* their first updates j.
UpdateEvents(W, t) ==
    {x \in OfType(W, "update") \X OfType(W, "update") :
        SameTopic(x[1], t) /\ SameTopic(x[2], t) /\ FirstOfRow(W, x[2]) /\ x[2] <= x[1]}
InsertEvents(W, t) == {n \in OfType(W, "insert") : SameTopic(n, t)}

UpdateCalls(W, t) ==
    UNION {Matching(MergedUpdate(W, x[1], x[2]), t, 0, x[1], x[2]) : x \in UpdateEvents(W, t)}

InsertCalls(W, t) ==
    UNION {Matching(InsertOf(stored[n].topic, stored[n].pk, n), t, 1, n, n) :
        n \in InsertEvents(W, t)}

\* __trigger_all_pipeline: topic by topic, the updates and then the inserts.
Cascade(W) ==
    UNION {UpdateCalls(W, t) \cup InsertCalls(W, t) : t \in {n \in W : FirstOfTopic(W, n)}}

\* The places of its events, those included that no pipeline is waiting for.
EventPlaces(W) ==
    UNION {{<<t, 0, x[1], x[2]>> : x \in UpdateEvents(W, t)}
           \cup {<<t, 1, n, n>> : n \in InsertEvents(W, t)} : t \in {n \in W : FirstOfTopic(W, n)}}

\* A frame: the run it belongs to (0 is the task itself), the writes it made,
\* and, once it is cascading, the calls it still has to make.
Frame(run, step, queue) ==
    [run |-> run, step |-> step, writes |-> {}, queue |-> queue]
Top == Head(stack)

\* "at" is history: where in the loops of its trigger the run was called.
NewRun(call, status) ==
    [pipeline |-> call.pipeline, event |-> call.event, parent |-> Top.run,
     status |-> status, log |-> "none", at |-> call.at]

\* Mutants of Finally: runs on system topics are logged as well, or the newest
\* log is stored first.
FinallyLogsAll(r, status) ==
    /\ runs' = [runs EXCEPT ![r] = [@ EXCEPT !.status = status, !.log = "queued"]]
    /\ ready' = Append(ready, [kind |-> "monitor", id |-> r])

FinallyNewestFirst(r, status) ==
    LET logged == MonitorOn /\ ~IsSystem(runs[r].pipeline) IN
    /\ runs' = [runs EXCEPT ![r] = [@ EXCEPT !.status = status,
                                             !.log = IF logged THEN "queued" ELSE "none"]]
    /\ ready' = IF logged THEN <<[kind |-> "monitor", id |-> r]>> \o ready ELSE ready

\* The "finally" of run_pipeline, for run r ending with this status: the log
\* becomes a task unless the pipeline belongs to a system topic.
Finally(r, status) ==
    LET logged == MonitorOn /\ ~IsSystem(runs[r].pipeline) IN
    /\ runs' = [runs EXCEPT ![r] = [@ EXCEPT !.status = status,
                                             !.log = IF logged THEN "queued" ELSE "none"]]
    /\ ready' = IF logged THEN Append(ready, [kind |-> "monitor", id |-> r]) ELSE ready

-----------------------------------------------------------------------------
Init ==
    /\ program \in Programs
    /\ stored = <<>>
    /\ runs = <<>>
    /\ stack = <<>>
    /\ ready = <<>>
    /\ pushes = 0
    /\ lost = {}
    /\ faults = 0
    /\ crashes = 0

\* A row is stored; its position becomes its name.
Store(topic, type, pk, by) ==
    stored' = Append(stored, [topic |-> topic, type |-> type, pk |-> pk, by |-> by])

\* trigger_pipeline on an inserted row.
TaskCalls(topic, pk, n) == Matching(InsertOf(topic, pk, n), n, 1, n, n)

\* push_pipeline_data: the row is stored and its pipelines run in this turn.
Push ==
    /\ stack = <<>>
    /\ pushes < MaxPushes
    /\ pushes' = pushes + 1
    /\ Store(EntryTopic, "insert", pushes', 0)
    /\ stack' = <<Frame(0, "cascade", TaskCalls(EntryTopic, pushes', Len(stored')))>>
    /\ UNCHANGED <<program, runs, ready, lost, faults, crashes>>

\* Mutant of PushAsync: the coroutine is made and never scheduled.
PushAsyncForgets ==
    /\ stack = <<>>
    /\ pushes < MaxPushes
    /\ pushes' = pushes + 1
    /\ Store(EntryTopic, "insert", pushes', 0)
    /\ UNCHANGED <<program, runs, stack, ready, lost, faults, crashes>>

\* push_pipeline_data_async: the row is stored, its pipelines become a task.
PushAsync ==
    /\ stack = <<>>
    /\ pushes < MaxPushes
    /\ pushes' = pushes + 1
    /\ Store(EntryTopic, "insert", pushes', 0)
    /\ ready' = Append(ready, [kind |-> "pipelines", id |-> Len(stored')])
    /\ UNCHANGED <<program, runs, stack, lost, faults, crashes>>

\* The event loop gives a turn to the task of an asynchronous push.
TurnPipelines ==
    /\ stack = <<>>
    /\ ready # <<>>
    /\ Head(ready).kind = "pipelines"
    /\ LET n == Head(ready).id IN
       stack' = <<Frame(0, "cascade", TaskCalls(EntryTopic, stored[n].pk, n))>>
    /\ ready' = Tail(ready)
    /\ UNCHANGED <<program, stored, runs, pushes, lost, faults, crashes>>

\* It gives a turn to sync_pipeline_monitor_log, which stores the log and
\* triggers the pipelines of the monitor topic ...
TurnMonitor ==
    /\ stack = <<>>
    /\ ready # <<>>
    /\ Head(ready).kind = "monitor"
    /\ LET r == Head(ready).id IN
       /\ Store(MonitorTopic, "insert", r, -1)
       /\ runs' = [runs EXCEPT ![r].log = "stored"]
       /\ stack' = <<Frame(0, "cascade", TaskCalls(MonitorTopic, r, Len(stored')))>>
    /\ ready' = Tail(ready)
    /\ UNCHANGED <<program, pushes, lost, faults, crashes>>

\* ... or raises before that, and nobody is told.
TurnMonitorRaises ==
    /\ stack = <<>>
    /\ ready # <<>>
    /\ Head(ready).kind = "monitor"
    /\ faults < MaxFaults
    /\ faults' = faults + 1
    /\ runs' = [runs EXCEPT ![Head(ready).id].log = "lost"]
    /\ ready' = Tail(ready)
    /\ UNCHANGED <<program, stored, stack, pushes, lost, crashes>>

-----------------------------------------------------------------------------
Runs        == DOMAIN runs
Children(r) == {c \in Runs : runs[c].parent = r}

Cascading == stack # <<>> /\ Top.step = "cascade"

\* The row of the task in progress, as long as the task has called no pipeline.
Uncalled ==
    IF stack = <<>> THEN {}
    ELSE LET rows == UNION {c.event.new : c \in Top.queue} IN
         IF Top.run = 0 /\ \A r \in Children(0) : runs[r].event.new \cap rows = {} THEN rows ELSE {}

\* The next call of the innermost frame, and the frames once it was made.
Calling(c) ==
    /\ Cascading
    /\ c \in Top.queue
    /\ \A d \in Top.queue \ {c} : Before(c.at, d.at)
Called(c) == [stack EXCEPT ![1].queue = @ \ {c}]

\* run_pipeline on a pipeline that is disabled.
SkipDisabled(c) ==
    /\ Calling(c)
    /\ ~PipelineList[c.pipeline].enabled
    /\ runs' = Append(runs, NewRun(c, "skipped"))
    /\ stack' = Called(c)
    /\ UNCHANGED <<program, stored, ready, pushes, lost, faults, crashes>>

\* should_run says no: no log is kept of that.
SkipCondition(c) ==
    /\ Calling(c)
    /\ PipelineList[c.pipeline].enabled
    /\ faults < MaxFaults
    /\ faults' = faults + 1
    /\ runs' = Append(runs, NewRun(c, "skipped"))
    /\ stack' = Called(c)
    /\ UNCHANGED <<program, stored, ready, pushes, lost, crashes>>

\* A topic, its data source or its pipelines are looked up before each event of a
\* cascade, and the lookup raises: in the run that triggers the event, after the calls
\* for the events before it, and this run becomes an ERROR ...
LookupRaises ==
    /\ Cascading /\ Top.run # 0
    /\ ~IsSystem(runs[Top.run].pipeline)
    /\ faults < MaxFaults
    /\ faults' = faults + 1
    /\ \E at \in EventPlaces(Top.writes) :
          /\ \A c \in Children(Top.run) : EventBefore(runs[c].at, at)
          /\ \A d \in Top.queue : ~EventBefore(d.at, at)
    /\ Finally(Top.run, "ERROR")
    /\ stack' = Tail(stack)
    /\ UNCHANGED <<program, stored, pushes, lost, crashes>>

\* ... or in the task of a row, which ends before it calls any pipeline.  (When no
\* pipeline is waiting for the row, the task has nothing left to do anyway.)
LookupRaisesInTask ==
    /\ Cascading /\ Top.run = 0
    /\ Uncalled # {}
    /\ faults < MaxFaults
    /\ faults' = faults + 1
    /\ lost' = lost \cup Uncalled
    /\ stack' = <<>>
    /\ UNCHANGED <<program, stored, runs, ready, pushes, crashes>>

\* It runs.
Enter(c) ==
    /\ Calling(c)
    /\ PipelineList[c.pipeline].enabled
    /\ runs' = Append(runs, NewRun(c, "running"))
    /\ stack' = <<Frame(Len(runs'), "stages", {})>> \o Called(c)
    /\ UNCHANGED <<program, stored, ready, pushes, lost, faults, crashes>>

\* Looking up the pipeline's topic or evaluating its condition raises, before
\* the "try" of run_pipeline: the exception ends the caller, a task ...
RaiseInTask(c) ==
    /\ Calling(c) /\ Top.run = 0
    /\ PipelineList[c.pipeline].enabled
    /\ faults < MaxFaults
    /\ faults' = faults + 1
    /\ runs' = Append(runs, NewRun(c, "raised"))
    /\ stack' = <<>>
    /\ UNCHANGED <<program, stored, ready, pushes, lost, crashes>>

\* Mutants of RaiseInRun: the exception passes through every run on the stack,
\* or is swallowed and the caller goes on to its next call.
RaiseThroughRuns(c) ==
    /\ Calling(c) /\ Top.run # 0
    /\ PipelineList[c.pipeline].enabled
    /\ faults < MaxFaults
    /\ faults' = faults + 1
    /\ runs' = Append(runs, NewRun(c, "raised"))
    /\ stack' = <<>>
    /\ UNCHANGED <<program, stored, ready, pushes, lost, crashes>>

RaiseSwallowed(c) ==
    /\ Calling(c) /\ Top.run # 0
    /\ PipelineList[c.pipeline].enabled
    /\ faults < MaxFaults
    /\ faults' = faults + 1
    /\ runs' = Append(runs, NewRun(c, "raised"))
    /\ stack' = Called(c)
    /\ UNCHANGED <<program, stored, ready, pushes, lost, crashes>>

\* ... or a run that has finished its own stages and becomes an ERROR.
RaiseInRun(c) ==
    /\ Calling(c) /\ Top.run # 0
    /\ PipelineList[c.pipeline].enabled
    /\ faults < MaxFaults
    /\ faults' = faults + 1
    /\ LET logged == MonitorOn /\ ~IsSystem(runs[Top.run].pipeline) IN
       /\ runs' = Append([runs EXCEPT ![Top.run] =
                             [@ EXCEPT !.status = "ERROR",
                                       !.log = IF logged THEN "queued" ELSE "none"]],
                         NewRun(c, "raised"))
       /\ ready' = IF logged THEN Append(ready, [kind |-> "monitor", id |-> Top.run])
                   ELSE ready
    /\ stack' = Tail(stack)
    /\ UNCHANGED <<program, stored, pushes, lost, crashes>>

\* The next action of the pipeline writes a row.
Write ==
    LET todo == program[runs[Top.run].pipeline]
        at   == Cardinality(Top.writes) + 1 IN
    /\ stack # <<>> /\ Top.step = "stages"
    /\ at \in DOMAIN todo
    /\ Store(todo[at].topic, todo[at].type, todo[at].pk, Top.run)
    /\ stack' = [stack EXCEPT ![1].writes = @ \cup {Len(stored')}]
    /\ UNCHANGED <<program, runs, ready, pushes, lost, faults, crashes>>

\* An action, or the condition of a stage or unit, raises: the rows the run has
\* written stay, their triggers are dropped.
WriteRaises ==
    /\ stack # <<>> /\ Top.step = "stages"
    /\ faults < MaxFaults
    /\ faults' = faults + 1
    /\ Finally(Top.run, "ERROR")
    /\ stack' = Tail(stack)
    /\ UNCHANGED <<program, stored, pushes, lost, crashes>>

\* Mutant of FinishStages: the cascade does not wait for the last stage.
FinishStagesEarly ==
    /\ stack # <<>> /\ Top.step = "stages"
    /\ stack' = [stack EXCEPT ![1].step = "cascade",
                              ![1].queue = IF IsSystem(runs[Top.run].pipeline) THEN {}
                                           ELSE Cascade(Top.writes)]
    /\ UNCHANGED <<program, stored, runs, ready, pushes, lost, faults, crashes>>

\* All stages are done: the pipelines the writes trigger are next, unless this
\* pipeline belongs to a system topic.
FinishStages ==
    /\ stack # <<>> /\ Top.step = "stages"
    /\ Cardinality(Top.writes) = Len(program[runs[Top.run].pipeline])
    /\ stack' = [stack EXCEPT ![1].step = "cascade",
                              ![1].queue = IF IsSystem(runs[Top.run].pipeline) THEN {}
                                           ELSE Cascade(Top.writes)]
    /\ UNCHANGED <<program, stored, runs, ready, pushes, lost, faults, crashes>>

\* Every pipeline it triggers has been called: the run, or the task, returns.
ReturnRun ==
    /\ Cascading /\ Top.queue = {} /\ Top.run # 0
    /\ Finally(Top.run, "FINISHED")
    /\ stack' = Tail(stack)
    /\ UNCHANGED <<program, stored, pushes, lost, faults, crashes>>

\* Mutant of ReturnTask: the task waits for the logs it has scheduled.
ReturnTaskAwaitsLogs ==
    /\ Cascading /\ Top.queue = {} /\ Top.run = 0
    /\ ready = <<>>
    /\ stack' = <<>>
    /\ UNCHANGED <<program, stored, runs, ready, pushes, lost, faults, crashes>>

ReturnTask ==
    /\ Cascading /\ Top.queue = {} /\ Top.run = 0
    /\ stack' = <<>>
    /\ UNCHANGED <<program, stored, runs, ready, pushes, lost, faults, crashes>>

\* The process dies and starts again: stored rows are all that is left.
Crash ==
    /\ crashes < MaxCrashes
    /\ stack # <<>> \/ ready # <<>>
    /\ crashes' = crashes + 1
    /\ runs' = [r \in DOMAIN runs |->
                   [runs[r] EXCEPT !.status = IF @ = "running" THEN "lost" ELSE @,
                                   !.log = IF @ = "queued" THEN "lost" ELSE @]]
    /\ lost' = lost \cup Uncalled
                   \cup {t.id : t \in {ready[i] : i \in {j \in DOMAIN ready : ready[j].kind = "pipelines"}}}
    /\ stack' = <<>>
    /\ ready' = <<>>
    /\ UNCHANGED <<program, stored, pushes, faults>>

-----------------------------------------------------------------------------
Engine ==
    \/ TurnPipelines \/ TurnMonitor \/ TurnMonitorRaises
    \/ stack # <<>> /\ \E c \in Top.queue :
          SkipDisabled(c) \/ SkipCondition(c) \/ Enter(c) \/ RaiseInTask(c) \/ RaiseInRun(c)
    \/ LookupRaises \/ LookupRaisesInTask
    \/ Write \/ WriteRaises \/ FinishStages \/ ReturnRun \/ ReturnTask

Next == Push \/ PushAsync \/ Engine \/ Crash

Spec == Init /\ [][Next]_vars

\* The event loop runs on as long as it has something to run.
FairSpec == Spec /\ WF_vars(Engine)

-----------------------------------------------------------------------------
(***************************************************************************)
(* Properties                                                              *)
(***************************************************************************)
WritesOf(r) == {n \in DOMAIN stored : stored[n].by = r}
AllWritten(r) == Cardinality(WritesOf(r)) = Len(program[runs[r].pipeline])

\* The calls of pipeline q, by run r, for a row of q's topic.
Calls(r, q, type, pk) ==
    {c \in Children(r) : /\ runs[c].pipeline = q
                         /\ runs[c].event.type = type
                         /\ runs[c].event.pk = pk}

Statuses == {"running", "skipped", "raised", "FINISHED", "ERROR", "lost"}
Events == [topic: STRING, type: {"insert", "update"}, pk: Nat,
           new: SUBSET DOMAIN stored, old: Nat]

\* The variables have their types, and the frames on the stack are those of the
\* runs in progress, each started by the frame below it.
TypeOK ==
    /\ program \in Programs
    /\ \A n \in DOMAIN stored : stored[n].by \in Runs \cup {0, -1}
    /\ \A r \in Runs :
          /\ runs[r].pipeline \in Pipelines
          /\ runs[r].event \in Events
          /\ runs[r].status \in Statuses
          /\ runs[r].log \in {"none", "queued", "stored", "lost"}
    /\ {stack[i].run : i \in DOMAIN stack} \ {0} = {r \in Runs : runs[r].status = "running"}
    /\ \A i \in DOMAIN stack :
          IF i = Len(stack) THEN stack[i].run = 0
          ELSE runs[stack[i].run].parent = stack[i + 1].run
    /\ lost \subseteq DOMAIN stored
    /\ pushes \in 0..MaxPushes /\ faults \in 0..MaxFaults /\ crashes \in 0..MaxCrashes

\* A finished run has handed every row it wrote to every pipeline of the row's
\* topic: an inserted row once; an updated row once for every update of that
\* topic from the row's first update on, and the last time with OLD from its
\* first update and NEW from all of them.
EveryWriteIsTriggered ==
    \A r \in Runs : runs[r].status = "FINISHED" /\ ~IsSystem(runs[r].pipeline) =>
        \A n \in WritesOf(r), q \in Pipelines :
            LET w     == stored[n]
                calls == Calls(r, q, w.type, w.pk)
                ups   == {m \in WritesOf(r) : stored[m].topic = w.topic /\ stored[m].type = "update"}
                mine  == {m \in ups : stored[m].pk = w.pk}
                first == Min(mine) IN
            PipelineList[q].topic = w.topic /\ Matches(w.type, q) =>
                IF w.type = "insert"
                THEN Cardinality({c \in calls : runs[c].event.new = {n}}) = 1
                ELSE /\ Cardinality(calls) = Cardinality({m \in ups : m >= first})
                     /\ runs[Max(calls)].event.new = mine
                     /\ runs[Max(calls)].event.old = first

\* A triggered pipeline starts from a store that holds every row its trigger's
\* run writes: no run starts another before its own last stage is done.
CascadeSeesAllWrites ==
    \A c \in Runs : runs[c].parent # 0 =>
        /\ AllWritten(runs[c].parent)
        /\ \A n \in WritesOf(runs[c].parent), m \in WritesOf(c) : n < m

\* A failure ends one run and no other.  A run that is called and raises, before it has
\* started, makes an ERROR of the run that called it, which calls nothing after it; and
\* there are never more runs that ended as ERROR than there were failures (a stage that
\* fails, a run that raises, a lookup that raises between the calls of a cascade), so
\* that no failure reaches a run further up.
ErrorsStopWhereTheyBelong ==
    /\ \A r \in Runs : \A c \in Children(r) : runs[c].status = "raised" =>
          runs[r].status = "ERROR" /\ c = Max(Children(r))
    /\ Cardinality({r \in Runs : runs[r].status = "ERROR"}) <= faults

\* Monitoring does not feed on itself: runs on system topics trigger nothing
\* and are not logged, so every log row stands for a run of another topic, and
\* no run has two.
MonitoringIsQuiet ==
    /\ \A r \in Runs : IsSystem(runs[r].pipeline) =>
          Children(r) = {} /\ runs[r].log = "none"
    /\ \A r \in Runs :
          Cardinality({n \in DOMAIN stored : stored[n].by = -1 /\ stored[n].pk = r})
              = IF runs[r].log = "stored" THEN 1 ELSE 0

\* When the log of a run can be read, those of the runs it started are there
\* too, or will never be.
LogsComeChildrenFirst ==
    \A c \in Runs : runs[c].parent # 0 =>
        (runs[runs[c].parent].log = "stored" => runs[c].log # "queued")

\* Every row a client was told is received is handed to a pipeline of the entry topic, at
\* once or later, or its own task is lost before that: while the row waits, or is the next
\* to be handed over, the process dies or the lookup of its topic and pipelines raises.
\* Whatever else fails, and a crash when the row is not waiting, costs it nothing.
ReceivedIsProcessed ==
    \A k \in 1..MaxPushes :
        pushes >= k ~> \/ \E r \in Children(0) : runs[r].event.pk = k /\ runs[r].event.topic = EntryTopic
                       \/ \E n \in lost : stored[n].by = 0 /\ stored[n].pk = k

\* Pushes, cascades and logs come to rest.
ComesToRest == <>[](stack = <<>> /\ ready = <<>>)
=============================================================================
