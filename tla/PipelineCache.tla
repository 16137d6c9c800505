--------------------------- MODULE PipelineCache ---------------------------
(***************************************************************************)
(* The two caches of pipelines that every replica of the service keeps in  *)
(* its own memory, by id and by topic, over the metadata store all         *)
(* replicas share.  The handlers that load and change pipelines run on the *)
(* event loop of their replica, one at a time; the routes of               *)
(* routers/cache.py run on a thread of their own and may come between the  *)
(* two halves of a load, the query and the filling of the cache.  Other    *)
(* replicas may come in between anywhere.                                  *)
(*                                                                         *)
(* The content of a pipeline, other than its topic, is the number of the   *)
(* change that made it ("rev").  The variables floorOf and floorOfList are *)
(* history, which no code keeps: how many changes of the store an entry of *)
(* a replica must show at least, because of a change the replica made or   *)
(* because it was told to clear its caches.  For that a load remembers how *)
(* many changes the store had seen at its query ("since", history too).    *)
(***************************************************************************)
EXTENDS Integers

CONSTANTS
    Replicas,
    PipelineIds,
    TopicIds,
    None,        \* no row in the store, no entry in a cache, no load under way
    MaxChanges   \* bound: how often pipelines are changed

ASSUME CacheAssumption ==
    /\ MaxChanges \in Nat
    /\ None \notin [topic: TopicIds, rev: Nat]

VARIABLES
    pipelines,         \* the store: pipelines by id
    changes,           \* how many changes it has seen
    pipelineById,      \* PIPELINE_BY_ID of each replica
    pipelinesByTopic,  \* PIPELINES_BY_TOPIC_ID of each replica
    loading,           \* the load each replica is in the middle of
    floorOf,           \* history: how fresh each entry by id must be
    floorOfList        \* history: how fresh each entry by topic must be

store  == <<pipelines, changes>>
caches == <<pipelineById, pipelinesByTopic>>
floors == <<floorOf, floorOfList>>
vars   == <<store, caches, loading, floors>>

-----------------------------------------------------------------------------
Pipeline == [topic: TopicIds, rev: 1..MaxChanges]

\* The pipelines of a topic: a row, or None, for every id.
ListOf(t) ==
    [p \in PipelineIds |->
        IF pipelines[p] # None /\ pipelines[p].topic = t THEN pipelines[p] ELSE None]

Idle(r) == loading[r] = None

\* The entries of replica r under these keys are deleted.
Drop(cache, r, keys) ==
    [cache EXCEPT ![r] = [key \in DOMAIN @ |-> IF key \in keys THEN None ELSE @[key]]]

Invalidate(r, ids, topics) ==
    /\ pipelineById' = Drop(pipelineById, r, ids)
    /\ pipelinesByTopic' = Drop(pipelinesByTopic, r, topics)

\* From now on these entries, if there are any, must be as fresh as the store.
Raise(floor, r, keys) ==
    [floor EXCEPT ![r] = [key \in DOMAIN @ |-> IF key \in keys THEN changes' ELSE @[key]]]

Expect(r, ids, topics) ==
    /\ floorOf' = Raise(floorOf, r, ids)
    /\ floorOfList' = Raise(floorOfList, r, topics)

Init ==
    /\ pipelines = [p \in PipelineIds |-> None]
    /\ changes = 0
    /\ pipelineById = [r \in Replicas |-> [p \in PipelineIds |-> None]]
    /\ pipelinesByTopic = [r \in Replicas |-> [t \in TopicIds |-> None]]
    /\ loading = [r \in Replicas |-> None]
    /\ floorOf = [r \in Replicas |-> [p \in PipelineIds |-> 0]]
    /\ floorOfList = [r \in Replicas |-> [t \in TopicIds |-> 0]]

-----------------------------------------------------------------------------
(***************************************************************************)
(* Loads.  A load that finds an entry, or nothing in the store, changes    *)
(* nothing; otherwise it goes on to fill the cache.                        *)
(***************************************************************************)

\* load_pipeline_by_id: the query ...
QueryById(r, p) ==
    /\ Idle(r)
    /\ pipelineById[r][p] = None
    /\ pipelines[p] # None
    /\ loading' = [loading EXCEPT ![r] = [cache |-> "id", key |-> p, value |-> pipelines[p],
                                             since |-> changes]]
    /\ UNCHANGED <<store, caches, floors>>

\* ... and the filling.
FillById(r) ==
    /\ ~Idle(r) /\ loading[r].cache = "id"
    /\ pipelineById' = [pipelineById EXCEPT ![r][loading[r].key] = loading[r].value]
    /\ loading' = [loading EXCEPT ![r] = None]
    /\ UNCHANGED <<store, pipelinesByTopic, floors>>

\* load_pipeline_by_topic_id, where an empty list is cached like any other.
QueryByTopic(r, t) ==
    /\ Idle(r)
    /\ pipelinesByTopic[r][t] = None
    /\ loading' = [loading EXCEPT ![r] = [cache |-> "topic", key |-> t, value |-> ListOf(t),
                                             since |-> changes]]
    /\ UNCHANGED <<store, caches, floors>>

FillByTopic(r) ==
    /\ ~Idle(r) /\ loading[r].cache = "topic"
    /\ pipelinesByTopic' = [pipelinesByTopic EXCEPT ![r][loading[r].key] = loading[r].value]
    /\ loading' = [loading EXCEPT ![r] = None]
    /\ UNCHANGED <<store, pipelineById, floors>>

-----------------------------------------------------------------------------
(***************************************************************************)
(* Changes: the store first, then the caches of the replica that made it.  *)
(***************************************************************************)
\* Mutant of Change: the handler runs on a thread, beside the event loop.
ChangeOnThread(r, p, t) ==
    /\ changes < MaxChanges
    /\ changes' = changes + 1
    /\ pipelines' = [pipelines EXCEPT ![p] = [topic |-> t, rev |-> changes + 1]]
    /\ UNCHANGED loading

Change(r, p, t) ==
    /\ Idle(r)
    /\ changes < MaxChanges
    /\ changes' = changes + 1
    /\ pipelines' = [pipelines EXCEPT ![p] = [topic |-> t, rev |-> changes + 1]]
    /\ UNCHANGED loading

\* create_pipeline: no cache is touched.
CreatePipeline(r, p, t) ==
    /\ pipelines[p] = None
    /\ Change(r, p, t)
    /\ UNCHANGED <<caches, floorOfList>>
    /\ floorOf' = Raise(floorOf, r, {p})

\* update_pipeline: the list of the topic the pipeline has now is dropped, not
\* that of the topic it had.
UpdatePipeline(r, p, t) ==
    /\ pipelines[p] # None
    /\ Change(r, p, t)
    /\ Invalidate(r, {p}, {t})
    /\ Expect(r, {p}, {t})

\* Mutant of UpdatePipelineField: only the entry by id is dropped.
UpdatePipelineFieldById(r, p) ==
    /\ pipelines[p] # None
    /\ Change(r, p, pipelines[p].topic)
    /\ Invalidate(r, {p}, {})
    /\ Expect(r, {p}, TopicIds)

\* update_pipeline_status and update_pipeline_name set one field.
UpdatePipelineField(r, p) ==
    /\ pipelines[p] # None
    /\ Change(r, p, pipelines[p].topic)
    /\ Invalidate(r, {p}, TopicIds)
    /\ Expect(r, {p}, TopicIds)

\* import_pipeline_to_db
ImportPipeline(r, p, t) ==
    /\ pipelines[p] = None
    /\ Change(r, p, t)
    /\ Invalidate(r, PipelineIds, TopicIds)
    /\ Expect(r, PipelineIds, TopicIds)

\* How fresh an entry is that no clearing up to now has kept from being made: it shows the
\* store as it is, or as a load under way has found it.
Age(r, cache, key) ==
    IF ~Idle(r) /\ loading[r].cache = cache /\ loading[r].key = key THEN loading[r].since ELSE changes

\* clear_pipelines_cache and clear_all, on a thread: they cannot call back a
\* load that has queried the store and not yet filled the cache.  No load uses
\* both caches, so that they are cleared one after the other shows nowhere.
ClearPipelines(r) ==
    /\ UNCHANGED <<store, loading>>
    /\ Invalidate(r, PipelineIds, TopicIds)
    /\ floorOf' = [floorOf EXCEPT ![r] = [p \in PipelineIds |-> Age(r, "id", p)]]
    /\ floorOfList' = [floorOfList EXCEPT ![r] = [t \in TopicIds |-> Age(r, "topic", t)]]

Step(r) ==
    \/ FillById(r) \/ FillByTopic(r) \/ ClearPipelines(r)
    \/ \E t \in TopicIds : QueryByTopic(r, t)
    \/ \E p \in PipelineIds :
          \/ QueryById(r, p)
          \/ UpdatePipelineField(r, p)
          \/ \E t \in TopicIds :
                CreatePipeline(r, p, t) \/ UpdatePipeline(r, p, t) \/ ImportPipeline(r, p, t)

Next == \E r \in Replicas : Step(r)

Spec == Init /\ [][Next]_vars

-----------------------------------------------------------------------------
(***************************************************************************)
(* Properties                                                              *)
(***************************************************************************)
Optional(S) == S \cup {None}
List == [PipelineIds -> Optional(Pipeline)]
Load == [cache: {"id"}, key: PipelineIds, value: Pipeline, since: 0..MaxChanges]
        \cup [cache: {"topic"}, key: TopicIds, value: List, since: 0..MaxChanges]

\* The values the variables take.
TypeOK ==
    /\ pipelines \in [PipelineIds -> Optional(Pipeline)]
    /\ changes \in 0..MaxChanges
    /\ pipelineById \in [Replicas -> [PipelineIds -> Optional(Pipeline)]]
    /\ pipelinesByTopic \in [Replicas -> [TopicIds -> Optional(List)]]
    /\ loading \in [Replicas -> Optional(Load)]
    /\ floorOf \in [Replicas -> [PipelineIds -> 0..MaxChanges]]
    /\ floorOfList \in [Replicas -> [TopicIds -> 0..MaxChanges]]

\* Was the stored pipeline last changed before the store had seen n changes?
Settled(p, n) == pipelines[p] # None /\ pipelines[p].rev <= n

\* What a replica answers by the id of a pipeline is the stored pipeline, unless another
\* replica changed it after this one last changed it or cleared its caches; or, when the
\* clearing came in the middle of a load of this very pipeline, changed it after that
\* load's query.  So its own update, renaming, enabling or disabling is in force at once,
\* and all that outlives a clearing is the one answer that was on its way.
ByIdIsFresh ==
    \A r \in Replicas, p \in PipelineIds :
        pipelineById[r][p] # None /\ Settled(p, floorOf[r][p]) =>
            pipelineById[r][p] = pipelines[p]

\* The list by which a replica triggers the pipelines of a topic agrees with the store
\* about every pipeline not changed, by any replica, since this one cleared its caches (or
\* queried the list, when the clearing came in the middle of its load), changed a field of
\* any pipeline, imported one, or updated one into the topic: whether it belongs to the topic, and with
\* what content.  Nothing is promised about a pipeline that is new in the topic, nor about
\* one that was updated into another topic, which the list of the old one keeps.
ByTopicIsFresh ==
    \A r \in Replicas, t \in TopicIds, p \in PipelineIds :
        pipelinesByTopic[r][t] # None /\ Settled(p, floorOfList[r][t]) =>
            pipelinesByTopic[r][t][p] = ListOf(t)[p]

=============================================================================
