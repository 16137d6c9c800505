------------------------ MODULE PipelineCache_proofs ------------------------
(***************************************************************************)
(* Proofs about PipelineCache, for any number of replicas, pipelines,      *)
(* topics and changes.                                                     *)
(***************************************************************************)
EXTENDS PipelineCache, TLAPS

LEMMA ListOfType ==
  ASSUME NEW t \in TopicIds, pipelines \in [PipelineIds -> Optional(Pipeline)]
  PROVE  ListOf(t) \in List
  BY DEF ListOf, List, Optional, Pipeline

\* A family of entries, by replica and key, after those of r under these keys were
\* all given one value.
Overwritten(old, new, r, keys, value, K, S) ==
    /\ new \in [Replicas -> [K -> S]]
    /\ \A q \in Replicas, k \in K :
          new[q][k] = IF q = r /\ k \in keys THEN value ELSE old[q][k]

LEMMA DropOverwrites ==
  ASSUME NEW r \in Replicas, NEW K, NEW keys, NEW S, None \in S,
         NEW cache \in [Replicas -> [K -> S]]
  PROVE  Overwritten(cache, Drop(cache, r, keys), r, keys, None, K, S)
<1>1. DOMAIN cache[r] = K
  OBVIOUS
<1>2. Drop(cache, r, keys) =
        [cache EXCEPT ![r] = [k \in K |-> IF k \in keys THEN None ELSE cache[r][k]]]
  BY <1>1 DEF Drop
<1> QED BY <1>2 DEF Overwritten

LEMMA RaiseOverwrites ==
  ASSUME NEW r \in Replicas, NEW K, NEW keys, NEW S, changes' \in S,
         NEW floor \in [Replicas -> [K -> S]]
  PROVE  Overwritten(floor, Raise(floor, r, keys), r, keys, changes', K, S)
<1>1. DOMAIN floor[r] = K
  OBVIOUS
<1>2. Raise(floor, r, keys) =
        [floor EXCEPT ![r] = [k \in K |-> IF k \in keys THEN changes' ELSE floor[r][k]]]
  BY <1>1 DEF Raise
<1> QED BY <1>2 DEF Overwritten

-----------------------------------------------------------------------------
(***************************************************************************)
(* The inductive invariant.  A load under way promises what the entry it   *)
(* is about to make must keep, so freshness is stated of loads too; rows   *)
(* and floors lie in the past, so that a change is news to every floor;    *)
(* and only rows that exist are cached, for no row is ever deleted.        *)
(***************************************************************************)
InThePast ==
    /\ \A p \in PipelineIds : pipelines[p] # None => pipelines[p].rev <= changes
    /\ \A r \in Replicas, p \in PipelineIds : floorOf[r][p] <= changes
    /\ \A r \in Replicas, t \in TopicIds : floorOfList[r][t] <= changes

OnlyRows ==
    \A r \in Replicas, p \in PipelineIds :
        pipelines[p] = None =>
            /\ pipelineById[r][p] = None
            /\ ~Idle(r) /\ loading[r].cache = "id" => loading[r].key # p

\* The load of replica r: what it found is as fresh as its query was, and no more is
\* expected of the entry it is about to make.
LoadFresh(r) ==
    /\ loading[r].since <= changes
    /\ loading[r].cache = "id" =>
          /\ floorOf[r][loading[r].key] <= loading[r].since
          /\ Settled(loading[r].key, loading[r].since) => loading[r].value = pipelines[loading[r].key]
    /\ loading[r].cache = "topic" =>
          /\ floorOfList[r][loading[r].key] <= loading[r].since
          /\ \A p \in PipelineIds : Settled(p, loading[r].since) =>
                loading[r].value[p] = ListOf(loading[r].key)[p]
LoadIsFresh == \A r \in Replicas : ~Idle(r) => LoadFresh(r)

FreshInv ==
    /\ TypeOK
    /\ InThePast
    /\ OnlyRows
    /\ ByIdIsFresh
    /\ ByTopicIsFresh
    /\ LoadIsFresh

LEMMA FreshInit == Init => FreshInv
  BY CacheAssumption
     DEF Init, FreshInv, TypeOK, InThePast, OnlyRows, ByIdIsFresh, ByTopicIsFresh,
         LoadIsFresh, LoadFresh, Optional, Idle, Settled

-----------------------------------------------------------------------------
\* After a change by replica r to pipeline p nothing of p is left in the entries
\* by id of r, and its floors are raised just where entries are gone.
LEMMA ChangeKeeps ==
  ASSUME FreshInv, NEW r \in Replicas, NEW p \in PipelineIds, NEW t \in TopicIds,
         Change(r, p, t),
         NEW ids, p \in ids, NEW topics,
         Overwritten(pipelineById, pipelineById', r, ids, None,
                     PipelineIds, Optional(Pipeline)),
         Overwritten(pipelinesByTopic, pipelinesByTopic', r, topics, None,
                     TopicIds, Optional(List)),
         Overwritten(floorOf, floorOf', r, ids, changes', PipelineIds, 0..MaxChanges),
         Overwritten(floorOfList, floorOfList', r, topics, changes',
                     TopicIds, 0..MaxChanges)
  PROVE  FreshInv'
<1>1. /\ Idle(r) /\ changes \in Nat /\ changes' = changes + 1
      /\ changes' \in 0..MaxChanges /\ changes' \in 1..MaxChanges
      /\ pipelines' = [pipelines EXCEPT ![p] = [topic |-> t, rev |-> changes + 1]]
      /\ loading' = loading
  BY CacheAssumption DEF Change, FreshInv, TypeOK
<1>2. /\ pipelines' \in [PipelineIds -> Optional(Pipeline)]
      /\ pipelines'[p] = [topic |-> t, rev |-> changes']
      /\ pipelines'[p].topic = t /\ pipelines'[p].rev = changes'
      /\ \A q \in PipelineIds : q # p => pipelines'[q] = pipelines[q]
  BY <1>1 DEF FreshInv, TypeOK, Pipeline, Optional
\* What the four families of entries are now, point by point.
<1>a. /\ pipelineById' \in [Replicas -> [PipelineIds -> Optional(Pipeline)]]
      /\ \A s \in Replicas, q \in PipelineIds :
            pipelineById'[s][q] = IF s = r /\ q \in ids THEN None ELSE pipelineById[s][q]
  BY DEF Overwritten
<1>b. /\ pipelinesByTopic' \in [Replicas -> [TopicIds -> Optional(List)]]
      /\ \A s \in Replicas, u \in TopicIds :
            pipelinesByTopic'[s][u] =
                IF s = r /\ u \in topics THEN None ELSE pipelinesByTopic[s][u]
  BY DEF Overwritten
<1>c. /\ floorOf' \in [Replicas -> [PipelineIds -> 0..MaxChanges]]
      /\ \A s \in Replicas, q \in PipelineIds :
            floorOf'[s][q] = IF s = r /\ q \in ids THEN changes' ELSE floorOf[s][q]
  BY DEF Overwritten
<1>d. /\ floorOfList' \in [Replicas -> [TopicIds -> 0..MaxChanges]]
      /\ \A s \in Replicas, u \in TopicIds :
            floorOfList'[s][u] = IF s = r /\ u \in topics THEN changes' ELSE floorOfList[s][u]
  BY DEF Overwritten
<1>e. /\ \A s \in Replicas, q \in PipelineIds : floorOf[s][q] \in Int /\ floorOf[s][q] <= changes
      /\ \A s \in Replicas, u \in TopicIds :
            floorOfList[s][u] \in Int /\ floorOfList[s][u] <= changes
      /\ \A q \in PipelineIds : pipelines[q] # None =>
            pipelines[q].rev \in Int /\ pipelines[q].rev <= changes
  BY DEF FreshInv, TypeOK, InThePast, Optional, Pipeline
<1>3. TypeOK'
  <2>1. loading' \in [Replicas -> Optional(Load)]
    BY <1>1 DEF FreshInv, TypeOK
  <2> QED BY <1>1, <1>2, <1>a, <1>b, <1>c, <1>d, <2>1 DEF TypeOK
<1>4. InThePast'
  <2>1. \A q \in PipelineIds : pipelines'[q] # None => pipelines'[q].rev <= changes'
    BY <1>1, <1>2, <1>e
  <2>2. \A s \in Replicas, q \in PipelineIds : floorOf'[s][q] <= changes'
    BY <1>1, <1>c, <1>e
  <2>3. ASSUME NEW s \in Replicas, NEW u \in TopicIds PROVE floorOfList'[s][u] <= changes'
    <3>1. floorOfList'[s][u] = changes' \/ floorOfList'[s][u] = floorOfList[s][u]
      BY <1>d
    <3> QED BY <1>1, <1>e, <3>1
  <2> QED BY <2>1, <2>2, <2>3 DEF InThePast
<1>5. OnlyRows'
  <2> SUFFICES ASSUME NEW s \in Replicas, NEW q \in PipelineIds, pipelines'[q] = None
               PROVE  /\ pipelineById'[s][q] = None
                      /\ loading'[s] # None /\ loading'[s].cache = "id" => loading'[s].key # q
    BY DEF OnlyRows, Idle
  <2>1. pipelines[q] = None => /\ pipelineById[s][q] = None
                               /\ loading[s] # None /\ loading[s].cache = "id" =>
                                    loading[s].key # q
    BY DEF FreshInv, OnlyRows, Idle
  <2>2. CASE q # p
    BY <1>1, <1>2, <1>a, <2>1, <2>2
  <2>3. CASE q = p
    BY <1>1, <1>2, <2>3, CacheAssumption
  <2> QED BY <2>2, <2>3
<1>6. \A q \in PipelineIds, u \in TopicIds : q # p => ListOf(u)'[q] = ListOf(u)[q]
  BY <1>2 DEF ListOf
\* p itself is settled for nobody but r, and for r only where r keeps nothing.
<1>7. \A s \in Replicas, q \in PipelineIds :
        Settled(q, floorOf[s][q])' => \/ s = r /\ q \in ids
                                      \/ q # p /\ Settled(q, floorOf[s][q])
  BY <1>1, <1>2, <1>c, <1>e DEF Settled
<1>8. \A s \in Replicas, u \in TopicIds, q \in PipelineIds :
        Settled(q, floorOfList[s][u])' => \/ s = r /\ u \in topics
                                          \/ q # p /\ Settled(q, floorOfList[s][u])
  BY <1>1, <1>2, <1>d, <1>e DEF Settled
<1>9. ByIdIsFresh'
  <2> SUFFICES ASSUME NEW s \in Replicas, NEW q \in PipelineIds,
                      pipelineById'[s][q] # None, Settled(q, floorOf[s][q])'
               PROVE  pipelineById'[s][q] = pipelines'[q]
    BY DEF ByIdIsFresh
  <2>1. ~(s = r /\ q \in ids) /\ pipelineById'[s][q] = pipelineById[s][q]
    BY <1>a
  <2>2. q # p /\ Settled(q, floorOf[s][q])
    BY <1>7, <2>1
  <2> QED BY <1>2, <2>1, <2>2 DEF FreshInv, ByIdIsFresh
<1>10. ByTopicIsFresh'
  <2> SUFFICES ASSUME NEW s \in Replicas, NEW u \in TopicIds, NEW q \in PipelineIds,
                      pipelinesByTopic'[s][u] # None, Settled(q, floorOfList[s][u])'
               PROVE  pipelinesByTopic'[s][u][q] = ListOf(u)'[q]
    BY DEF ByTopicIsFresh
  <2>1. ~(s = r /\ u \in topics) /\ pipelinesByTopic'[s][u] = pipelinesByTopic[s][u]
    BY <1>b
  <2>2. q # p /\ Settled(q, floorOfList[s][u])
    BY <1>8, <2>1
  <2> QED BY <1>6, <2>1, <2>2 DEF FreshInv, ByTopicIsFresh
<1>11. LoadIsFresh'
  <2> SUFFICES ASSUME NEW s \in Replicas, loading[s] # None
               PROVE  LoadFresh(s)'
    BY <1>1 DEF LoadIsFresh, Idle
  <2>1. s # r /\ loading'[s] = loading[s] /\ ~Idle(s) /\ loading[s] \in Load /\ LoadFresh(s)
    BY <1>1 DEF Idle, FreshInv, TypeOK, Optional, LoadIsFresh
  <2>2. loading[s].since \in Int /\ loading[s].since <= changes /\ changes \in Int
    BY <1>1, <2>1 DEF Load, LoadFresh
  <2>3. loading'[s].since <= changes'
    BY <1>1, <2>1, <2>2
  <2>4. \A q \in PipelineIds : Settled(q, loading[s].since)' => q # p /\ Settled(q, loading[s].since)
    BY <1>1, <1>2, <2>1, <2>2 DEF Settled
  <2>5. CASE loading[s].cache = "id"
    <3>1. loading[s].key \in PipelineIds
      BY <2>1, <2>5 DEF Load
    <3>2. floorOf'[s][loading[s].key] = floorOf[s][loading[s].key]
      BY <1>c, <2>1, <3>1
    <3>3. Settled(loading[s].key, loading[s].since)' => loading[s].value = pipelines'[loading[s].key]
      BY <1>1, <1>2, <2>1, <2>4, <2>5, <3>1 DEF LoadFresh
    <3> QED BY <1>1, <2>1, <2>3, <2>5, <3>2, <3>3 DEF LoadFresh, Settled
  <2>6. CASE loading[s].cache = "topic"
    <3>1. loading[s].key \in TopicIds
      BY <2>1, <2>6 DEF Load
    <3>2. floorOfList'[s][loading[s].key] = floorOfList[s][loading[s].key]
      BY <1>d, <2>1, <3>1
    <3>3. ASSUME NEW q \in PipelineIds, Settled(q, loading[s].since)'
          PROVE  loading[s].value[q] = ListOf(loading[s].key)'[q]
      <4>1. ListOf(loading[s].key)'[q] = ListOf(loading[s].key)[q]
        BY <1>1, <1>6, <2>1, <2>4, <3>1, <3>3
      <4> QED BY <2>1, <2>4, <2>6, <3>1, <3>3, <4>1 DEF LoadFresh
    <3> QED BY <1>1, <2>1, <2>3, <2>6, <3>2, <3>3 DEF LoadFresh, Settled
  <2>7. loading[s].cache \in {"id", "topic"}
    BY <2>1 DEF Load
  <2> QED BY <2>1, <2>3, <2>5, <2>6, <2>7
<1> QED BY <1>3, <1>4, <1>5, <1>9, <1>10, <1>11 DEF FreshInv

-----------------------------------------------------------------------------
(***************************************************************************)
(* The steps.                                                              *)
(***************************************************************************)
LEMMA CacheTypes ==
  ASSUME TypeOK
  PROVE  /\ pipelineById \in [Replicas -> [PipelineIds -> Optional(Pipeline)]]
         /\ pipelinesByTopic \in [Replicas -> [TopicIds -> Optional(List)]]
         /\ floorOf \in [Replicas -> [PipelineIds -> 0..MaxChanges]]
         /\ floorOfList \in [Replicas -> [TopicIds -> 0..MaxChanges]]
         /\ None \in Optional(Pipeline) /\ None \in Optional(List)
  BY DEF TypeOK, Optional

\* A load that goes on while store and floors stay as they are.
LEMMA LoadStaysFresh ==
  ASSUME FreshInv, NEW s \in Replicas, ~Idle(s), loading'[s] = loading[s],
         pipelines' = pipelines, changes' = changes, floorOf' = floorOf, floorOfList' = floorOfList
  PROVE  LoadFresh(s)'
<1>1. LoadFresh(s)
  BY DEF FreshInv, LoadIsFresh
<1> QED BY <1>1 DEF LoadFresh, Settled, ListOf

LEMMA LoadEnds ==
  ASSUME FreshInv, NEW r \in Replicas,
         \A s \in Replicas : loading'[s] = IF s = r THEN None ELSE loading[s],
         pipelines' = pipelines, changes' = changes, floorOf' = floorOf, floorOfList' = floorOfList
  PROVE  LoadIsFresh'
<1> SUFFICES ASSUME NEW s \in Replicas, ~Idle(s)'
             PROVE  LoadFresh(s)'
  BY DEF LoadIsFresh
<1>1. s # r /\ loading'[s] = loading[s] /\ ~Idle(s)
  BY DEF Idle
<1> QED BY <1>1, LoadStaysFresh

LEMMA QueryByIdKeeps ==
  ASSUME FreshInv, NEW r \in Replicas, NEW p \in PipelineIds, QueryById(r, p)
  PROVE  FreshInv'
<1> DEFINE l == [cache |-> "id", key |-> p, value |-> pipelines[p], since |-> changes]
<1>1. /\ pipelines' = pipelines /\ changes' = changes
      /\ pipelineById' = pipelineById /\ pipelinesByTopic' = pipelinesByTopic
      /\ floorOf' = floorOf /\ floorOfList' = floorOfList
      /\ loading' = [loading EXCEPT ![r] = l]
      /\ pipelines[p] # None
  BY DEF QueryById, store, caches, floors
<1>2. l \in Load
  BY <1>1 DEF FreshInv, TypeOK, Load, Optional
<1>3. \A s \in Replicas : loading'[s] = IF s = r THEN l ELSE loading[s]
  BY <1>1 DEF FreshInv, TypeOK
<1>4. loading' \in [Replicas -> Optional(Load)]
  BY <1>1, <1>2 DEF FreshInv, TypeOK, Optional
<1>5. TypeOK' /\ InThePast' /\ ByIdIsFresh' /\ ByTopicIsFresh'
  BY <1>1, <1>4 DEF FreshInv, TypeOK, InThePast, ByIdIsFresh, ByTopicIsFresh, Settled, ListOf
<1>6. OnlyRows'
  BY <1>1, <1>3 DEF FreshInv, OnlyRows, Idle
<1>7. LoadIsFresh'
  <2> SUFFICES ASSUME NEW s \in Replicas, ~Idle(s)'
               PROVE  LoadFresh(s)'
    BY DEF LoadIsFresh
  <2>1. CASE s # r
    BY <1>1, <1>3, <2>1, LoadStaysFresh DEF Idle
  <2>2. CASE s = r
    <3>1. loading'[r] = l /\ changes \in Int /\ floorOf[r][p] <= changes
      BY <1>3 DEF FreshInv, TypeOK, InThePast
    <3> QED BY <1>1, <2>2, <3>1 DEF LoadFresh
  <2> QED BY <2>1, <2>2
<1> QED BY <1>5, <1>6, <1>7 DEF FreshInv

LEMMA QueryByTopicKeeps ==
  ASSUME FreshInv, NEW r \in Replicas, NEW t \in TopicIds, QueryByTopic(r, t)
  PROVE  FreshInv'
<1> DEFINE l == [cache |-> "topic", key |-> t, value |-> ListOf(t), since |-> changes]
<1>1. /\ pipelines' = pipelines /\ changes' = changes
      /\ pipelineById' = pipelineById /\ pipelinesByTopic' = pipelinesByTopic
      /\ floorOf' = floorOf /\ floorOfList' = floorOfList
      /\ loading' = [loading EXCEPT ![r] = l]
  BY DEF QueryByTopic, store, caches, floors
<1>2. l \in Load
  BY ListOfType DEF FreshInv, TypeOK, Load
<1>3. \A s \in Replicas : loading'[s] = IF s = r THEN l ELSE loading[s]
  BY <1>1 DEF FreshInv, TypeOK
<1>4. loading' \in [Replicas -> Optional(Load)]
  BY <1>1, <1>2 DEF FreshInv, TypeOK, Optional
<1>5. TypeOK' /\ InThePast' /\ ByIdIsFresh' /\ ByTopicIsFresh'
  BY <1>1, <1>4 DEF FreshInv, TypeOK, InThePast, ByIdIsFresh, ByTopicIsFresh, Settled, ListOf
<1>6. OnlyRows'
  BY <1>1, <1>3 DEF FreshInv, OnlyRows, Idle
<1>7. \A u \in TopicIds : ListOf(u)' = ListOf(u)
  BY <1>1 DEF ListOf
<1>8. LoadIsFresh'
  <2> SUFFICES ASSUME NEW s \in Replicas, ~Idle(s)'
               PROVE  LoadFresh(s)'
    BY DEF LoadIsFresh
  <2>1. CASE s # r
    BY <1>1, <1>3, <2>1, LoadStaysFresh DEF Idle
  <2>2. CASE s = r
    <3>1. loading'[r] = l /\ changes \in Int /\ floorOfList[r][t] <= changes
      BY <1>3 DEF FreshInv, TypeOK, InThePast
    <3> QED BY <1>1, <1>7, <2>2, <3>1 DEF LoadFresh
  <2> QED BY <2>1, <2>2
<1> QED BY <1>5, <1>6, <1>8 DEF FreshInv

LEMMA FillByIdKeeps ==
  ASSUME FreshInv, NEW r \in Replicas, FillById(r)
  PROVE  FreshInv'
<1> DEFINE l == loading[r]
<1>1. /\ pipelines' = pipelines /\ changes' = changes
      /\ pipelinesByTopic' = pipelinesByTopic
      /\ floorOf' = floorOf /\ floorOfList' = floorOfList
      /\ pipelineById' = [pipelineById EXCEPT ![r][l.key] = l.value]
      /\ loading' = [loading EXCEPT ![r] = None]
      /\ l # None /\ l.cache = "id"
  BY DEF FillById, store, floors, Idle
<1>2. l \in Load /\ l.key \in PipelineIds /\ l.value \in Pipeline
  BY <1>1 DEF FreshInv, TypeOK, Load, Optional
<1>3. \A s \in Replicas : loading'[s] = IF s = r THEN None ELSE loading[s]
  BY <1>1 DEF FreshInv, TypeOK
<1>4. \A s \in Replicas, q \in PipelineIds :
        pipelineById'[s][q] = IF s = r /\ q = l.key THEN l.value ELSE pipelineById[s][q]
  BY <1>1, <1>2 DEF FreshInv, TypeOK
<1>5. loading' \in [Replicas -> Optional(Load)]
  BY <1>1 DEF FreshInv, TypeOK, Optional
<1>6. pipelineById' \in [Replicas -> [PipelineIds -> Optional(Pipeline)]]
  BY <1>1, <1>2 DEF FreshInv, TypeOK, Optional
<1>7. TypeOK' /\ InThePast' /\ ByTopicIsFresh'
  BY <1>1, <1>5, <1>6 DEF FreshInv, TypeOK, InThePast, ByTopicIsFresh, Settled, ListOf
<1>8. OnlyRows'
  BY <1>1, <1>3, <1>4 DEF FreshInv, OnlyRows, Idle
<1>9. ByIdIsFresh'
  <2> SUFFICES ASSUME NEW s \in Replicas, NEW q \in PipelineIds,
                      pipelineById'[s][q] # None, Settled(q, floorOf[s][q])
               PROVE  pipelineById'[s][q] = pipelines[q]
    BY <1>1 DEF ByIdIsFresh, Settled
  <2>1. CASE s = r /\ q = l.key
    <3>1. LoadFresh(r) /\ l.since \in Int /\ floorOf[r][q] \in Int /\ pipelines[q].rev \in Int
      BY <1>1, <1>2, <2>1 DEF FreshInv, LoadIsFresh, Idle, Load, TypeOK, Settled, Optional, Pipeline
    <3>2. Settled(q, l.since)
      BY <1>1, <2>1, <3>1 DEF LoadFresh, Settled
    <3> QED BY <1>1, <1>4, <2>1, <3>1, <3>2 DEF LoadFresh
  <2>2. CASE ~(s = r /\ q = l.key)
    BY <1>4, <2>2 DEF FreshInv, ByIdIsFresh
  <2> QED BY <2>1, <2>2
<1>10. LoadIsFresh'
  BY <1>1, <1>3, LoadEnds
<1> QED BY <1>7, <1>8, <1>9, <1>10 DEF FreshInv

LEMMA FillByTopicKeeps ==
  ASSUME FreshInv, NEW r \in Replicas, FillByTopic(r)
  PROVE  FreshInv'
<1> DEFINE l == loading[r]
<1>1. /\ pipelines' = pipelines /\ changes' = changes
      /\ pipelineById' = pipelineById
      /\ floorOf' = floorOf /\ floorOfList' = floorOfList
      /\ pipelinesByTopic' = [pipelinesByTopic EXCEPT ![r][l.key] = l.value]
      /\ loading' = [loading EXCEPT ![r] = None]
      /\ l # None /\ l.cache = "topic"
  BY DEF FillByTopic, store, floors, Idle
<1>2. l \in Load /\ l.key \in TopicIds /\ l.value \in List
  BY <1>1 DEF FreshInv, TypeOK, Load, Optional
<1>3. \A s \in Replicas : loading'[s] = IF s = r THEN None ELSE loading[s]
  BY <1>1 DEF FreshInv, TypeOK
<1>4. \A s \in Replicas, u \in TopicIds :
        pipelinesByTopic'[s][u] =
            IF s = r /\ u = l.key THEN l.value ELSE pipelinesByTopic[s][u]
  BY <1>1, <1>2 DEF FreshInv, TypeOK
<1>5. loading' \in [Replicas -> Optional(Load)]
  BY <1>1 DEF FreshInv, TypeOK, Optional
<1>6. pipelinesByTopic' \in [Replicas -> [TopicIds -> Optional(List)]]
  BY <1>1, <1>2 DEF FreshInv, TypeOK, Optional
<1>7. TypeOK' /\ InThePast' /\ ByIdIsFresh'
  BY <1>1, <1>5, <1>6 DEF FreshInv, TypeOK, InThePast, ByIdIsFresh, Settled
<1>8. OnlyRows'
  BY <1>1, <1>3 DEF FreshInv, OnlyRows, Idle
<1>9. \A u \in TopicIds : ListOf(u)' = ListOf(u)
  BY <1>1 DEF ListOf
<1>10. ByTopicIsFresh'
  <2> SUFFICES ASSUME NEW s \in Replicas, NEW u \in TopicIds, NEW q \in PipelineIds,
                      pipelinesByTopic'[s][u] # None, Settled(q, floorOfList[s][u])
               PROVE  pipelinesByTopic'[s][u][q] = ListOf(u)[q]
    BY <1>1, <1>9 DEF ByTopicIsFresh, Settled
  <2>1. CASE s = r /\ u = l.key
    <3>1. LoadFresh(r) /\ l.since \in Int /\ floorOfList[r][u] \in Int /\ pipelines[q].rev \in Int
      BY <1>1, <1>2, <2>1 DEF FreshInv, LoadIsFresh, Idle, Load, TypeOK, Settled, Optional, Pipeline
    <3>2. Settled(q, l.since)
      BY <1>1, <2>1, <3>1 DEF LoadFresh, Settled
    <3> QED BY <1>1, <1>4, <2>1, <3>1, <3>2 DEF LoadFresh
  <2>2. CASE ~(s = r /\ u = l.key)
    BY <1>4, <2>2 DEF FreshInv, ByTopicIsFresh
  <2> QED BY <2>1, <2>2
<1>11. LoadIsFresh'
  BY <1>1, <1>3, LoadEnds
<1> QED BY <1>7, <1>8, <1>10, <1>11 DEF FreshInv

\* A row that does not exist is in no cache, so a creation leaves no entry to drop.
LEMMA CreateKeeps ==
  ASSUME FreshInv, NEW r \in Replicas, NEW p \in PipelineIds, NEW t \in TopicIds,
         CreatePipeline(r, p, t)
  PROVE  FreshInv'
<1>1. /\ pipelines[p] = None /\ Change(r, p, t)
      /\ pipelineById' = pipelineById /\ pipelinesByTopic' = pipelinesByTopic
      /\ floorOfList' = floorOfList
      /\ floorOf' = Raise(floorOf, r, {p})
      /\ changes' \in 0..MaxChanges
  BY CacheAssumption DEF CreatePipeline, Change, caches, FreshInv, TypeOK
<1>2. TypeOK
  BY DEF FreshInv
<1>3. pipelineById[r][p] = None
  BY <1>1 DEF FreshInv, OnlyRows
<1>4. Overwritten(pipelineById, pipelineById', r, {p}, None, PipelineIds, Optional(Pipeline))
  BY <1>1, <1>2, <1>3, CacheTypes DEF Overwritten
<1>5. Overwritten(pipelinesByTopic, pipelinesByTopic', r, {}, None, TopicIds, Optional(List))
  BY <1>1, <1>2, CacheTypes DEF Overwritten
<1>6. Overwritten(floorOf, floorOf', r, {p}, changes', PipelineIds, 0..MaxChanges)
  BY <1>1, <1>2, CacheTypes, RaiseOverwrites
<1>7. Overwritten(floorOfList, floorOfList', r, {}, changes', TopicIds, 0..MaxChanges)
  BY <1>1, <1>2, CacheTypes DEF Overwritten
<1> QED BY <1>1, <1>4, <1>5, <1>6, <1>7, ChangeKeeps

\* The other changes drop what they make stale.
LEMMA InvalidatingKeeps ==
  ASSUME FreshInv, NEW r \in Replicas, NEW p \in PipelineIds, NEW t \in TopicIds,
         NEW ids, p \in ids, NEW topics,
         Change(r, p, t), Invalidate(r, ids, topics), Expect(r, ids, topics)
  PROVE  FreshInv'
<1>1. TypeOK /\ changes' \in 0..MaxChanges
  BY CacheAssumption DEF Change, FreshInv, TypeOK
<1>2. Overwritten(pipelineById, pipelineById', r, ids, None, PipelineIds, Optional(Pipeline))
  BY <1>1, CacheTypes, DropOverwrites DEF Invalidate
<1>3. Overwritten(pipelinesByTopic, pipelinesByTopic', r, topics, None,
                  TopicIds, Optional(List))
  BY <1>1, CacheTypes, DropOverwrites DEF Invalidate
<1>4. Overwritten(floorOf, floorOf', r, ids, changes', PipelineIds, 0..MaxChanges)
  BY <1>1, CacheTypes, RaiseOverwrites DEF Expect
<1>5. Overwritten(floorOfList, floorOfList', r, topics, changes', TopicIds, 0..MaxChanges)
  BY <1>1, CacheTypes, RaiseOverwrites DEF Expect
<1> QED BY <1>2, <1>3, <1>4, <1>5, ChangeKeeps

\* A clearing asks of the entry a load is about to make only what its query has found.
LEMMA ClearKeeps ==
  ASSUME FreshInv, NEW r \in Replicas, ClearPipelines(r)
  PROVE  FreshInv'
<1>1. /\ pipelines' = pipelines /\ changes' = changes /\ loading' = loading
      /\ Invalidate(r, PipelineIds, TopicIds)
      /\ TypeOK /\ changes' \in 0..MaxChanges /\ changes \in Nat
  BY CacheAssumption DEF ClearPipelines, store, FreshInv, TypeOK
<1>2. /\ pipelineById' \in [Replicas -> [PipelineIds -> Optional(Pipeline)]]
      /\ \A s \in Replicas, q \in PipelineIds :
            pipelineById'[s][q] = IF s = r THEN None ELSE pipelineById[s][q]
  <2>1. Overwritten(pipelineById, pipelineById', r, PipelineIds, None,
                    PipelineIds, Optional(Pipeline))
    BY <1>1, CacheTypes, DropOverwrites DEF Invalidate
  <2> QED BY <2>1 DEF Overwritten
<1>3. /\ pipelinesByTopic' \in [Replicas -> [TopicIds -> Optional(List)]]
      /\ \A s \in Replicas, u \in TopicIds :
            pipelinesByTopic'[s][u] = IF s = r THEN None ELSE pipelinesByTopic[s][u]
  <2>1. Overwritten(pipelinesByTopic, pipelinesByTopic', r, TopicIds, None,
                    TopicIds, Optional(List))
    BY <1>1, CacheTypes, DropOverwrites DEF Invalidate
  <2> QED BY <2>1 DEF Overwritten
<1>0. ~Idle(r) => loading[r] \in Load /\ LoadFresh(r) /\ loading[r].since <= changes
  BY DEF FreshInv, LoadIsFresh, LoadFresh, Idle, TypeOK, Optional
<1>a. \A cache, key : Age(r, cache, key) \in 0..MaxChanges /\ Age(r, cache, key) <= changes
  BY <1>0, <1>1 DEF Age, Load, TypeOK
<1>4. /\ floorOf' \in [Replicas -> [PipelineIds -> 0..MaxChanges]]
      /\ \A s \in Replicas, q \in PipelineIds : floorOf'[s][q] =
            IF s = r THEN Age(r, "id", q) ELSE floorOf[s][q]
  BY <1>1, <1>a DEF ClearPipelines, TypeOK
<1>5. /\ floorOfList' \in [Replicas -> [TopicIds -> 0..MaxChanges]]
      /\ \A s \in Replicas, u \in TopicIds : floorOfList'[s][u] =
            IF s = r THEN Age(r, "topic", u) ELSE floorOfList[s][u]
  BY <1>1, <1>a DEF ClearPipelines, TypeOK
<1>6. TypeOK'
  BY <1>1, <1>2, <1>3, <1>4, <1>5 DEF TypeOK
<1>7. InThePast'
  <2>1. \A q \in PipelineIds : pipelines'[q] # None => pipelines'[q].rev <= changes'
    BY <1>1 DEF FreshInv, InThePast
  <2>2. \A s \in Replicas, q \in PipelineIds : floorOf'[s][q] <= changes'
    BY <1>1, <1>4, <1>a DEF FreshInv, InThePast
  <2>3. \A s \in Replicas, u \in TopicIds : floorOfList'[s][u] <= changes'
    BY <1>1, <1>5, <1>a DEF FreshInv, InThePast
  <2> QED BY <2>1, <2>2, <2>3 DEF InThePast
<1>8. OnlyRows'
  BY <1>1, <1>2 DEF FreshInv, OnlyRows, Idle
<1>9. \A u \in TopicIds : ListOf(u)' = ListOf(u)
  BY <1>1 DEF ListOf
<1>10. ByIdIsFresh'
  <2> SUFFICES ASSUME NEW s \in Replicas, NEW q \in PipelineIds,
                      pipelineById'[s][q] # None, Settled(q, floorOf[s][q])'
               PROVE  pipelineById'[s][q] = pipelines'[q]
    BY DEF ByIdIsFresh
  <2>1. pipelineById'[s][q] = pipelineById[s][q] /\ floorOf'[s][q] = floorOf[s][q]
    BY <1>2, <1>4
  <2>2. Settled(q, floorOf[s][q])
    BY <1>1, <2>1 DEF Settled
  <2> QED BY <1>1, <2>1, <2>2 DEF FreshInv, ByIdIsFresh
<1>11. ByTopicIsFresh'
  <2> SUFFICES ASSUME NEW s \in Replicas, NEW u \in TopicIds, NEW q \in PipelineIds,
                      pipelinesByTopic'[s][u] # None, Settled(q, floorOfList[s][u])'
               PROVE  pipelinesByTopic'[s][u][q] = ListOf(u)'[q]
    BY DEF ByTopicIsFresh
  <2>1. /\ pipelinesByTopic'[s][u] = pipelinesByTopic[s][u]
        /\ floorOfList'[s][u] = floorOfList[s][u]
    BY <1>3, <1>5
  <2>2. Settled(q, floorOfList[s][u])
    BY <1>1, <2>1 DEF Settled
  <2> QED BY <1>9, <2>1, <2>2 DEF FreshInv, ByTopicIsFresh
<1>12. LoadIsFresh'
  <2> SUFFICES ASSUME NEW s \in Replicas, ~Idle(s)
               PROVE  LoadFresh(s)'
    BY <1>1 DEF LoadIsFresh, Idle
  <2>1. loading[s] \in Load /\ loading'[s] = loading[s] /\ LoadFresh(s)
    BY <1>1 DEF Idle, TypeOK, Optional, FreshInv, LoadIsFresh
  <2>2. CASE loading[s].cache = "id"
    <3>1. loading[s].key \in PipelineIds /\ loading[s].since \in Int
      BY <2>1, <2>2 DEF Load
    <3>2. floorOf'[s][loading[s].key] <= loading[s].since
      BY <1>4, <2>1, <2>2, <3>1 DEF LoadFresh, Age, Idle
    <3> QED BY <1>1, <2>1, <2>2, <3>2 DEF LoadFresh, Settled
  <2>3. CASE loading[s].cache = "topic"
    <3>1. loading[s].key \in TopicIds /\ loading[s].since \in Int
      BY <2>1, <2>3 DEF Load
    <3>2. floorOfList'[s][loading[s].key] <= loading[s].since
      BY <1>5, <2>1, <2>3, <3>1 DEF LoadFresh, Age, Idle
    <3> QED BY <1>1, <1>9, <2>1, <2>3, <3>1, <3>2 DEF LoadFresh, Settled
  <2>4. loading[s].cache \in {"id", "topic"}
    BY <2>1 DEF Load
  <2> QED BY <2>2, <2>3, <2>4
<1> QED BY <1>6, <1>7, <1>8, <1>10, <1>11, <1>12 DEF FreshInv

LEMMA StutterKeeps == FreshInv /\ UNCHANGED vars => FreshInv'
  BY DEF FreshInv, TypeOK, InThePast, OnlyRows, ByIdIsFresh, ByTopicIsFresh, LoadIsFresh,
         LoadFresh, Settled, ListOf, Idle, vars, store, caches, floors

LEMMA FreshStep == FreshInv /\ [Next]_vars => FreshInv'
<1> SUFFICES ASSUME FreshInv, [Next]_vars
             PROVE  FreshInv'
  OBVIOUS
<1>1. ASSUME NEW r \in Replicas, Step(r)
      PROVE  FreshInv'
  <2>1. CASE FillById(r)
    BY <2>1, FillByIdKeeps
  <2>2. CASE FillByTopic(r)
    BY <2>2, FillByTopicKeeps
  <2>3. CASE ClearPipelines(r)
    BY <2>3, ClearKeeps
  <2>4. ASSUME NEW t \in TopicIds, QueryByTopic(r, t)
        PROVE  FreshInv'
    BY <2>4, QueryByTopicKeeps
  <2>5. ASSUME NEW p \in PipelineIds, QueryById(r, p)
        PROVE  FreshInv'
    BY <2>5, QueryByIdKeeps
  <2>6. ASSUME NEW p \in PipelineIds, UpdatePipelineField(r, p)
        PROVE  FreshInv'
    <3>1. pipelines[p].topic \in TopicIds
      BY <2>6 DEF UpdatePipelineField, FreshInv, TypeOK, Optional, Pipeline
    <3> QED BY <2>6, <3>1, InvalidatingKeeps DEF UpdatePipelineField
  <2>7. ASSUME NEW p \in PipelineIds, NEW t \in TopicIds, CreatePipeline(r, p, t)
        PROVE  FreshInv'
    BY <2>7, CreateKeeps
  <2>8. ASSUME NEW p \in PipelineIds, NEW t \in TopicIds, UpdatePipeline(r, p, t)
        PROVE  FreshInv'
    BY <2>8, InvalidatingKeeps DEF UpdatePipeline
  <2>9. ASSUME NEW p \in PipelineIds, NEW t \in TopicIds, ImportPipeline(r, p, t)
        PROVE  FreshInv'
    BY <2>9, InvalidatingKeeps DEF ImportPipeline
  <2> QED BY <1>1, <2>1, <2>2, <2>3, <2>4, <2>5, <2>6, <2>7, <2>8, <2>9 DEF Step
<1>2. CASE UNCHANGED vars
  BY <1>2, StutterKeeps
<1> QED BY <1>1, <1>2 DEF Next

-----------------------------------------------------------------------------
(***************************************************************************)
(* The theorems.                                                           *)
(***************************************************************************)
\* The variables keep their types: in particular no cache ever holds that a
\* pipeline does not exist, and revisions and floors stay within MaxChanges.
THEOREM TypeCorrect == Spec => []TypeOK
<1>1. FreshInv => TypeOK
  BY DEF FreshInv
<1> QED BY FreshInit, FreshStep, <1>1, PTL DEF Spec

\* What a replica answers by the id of a pipeline is the stored pipeline, unless another
\* replica changed it after this one last changed it or cleared its caches, or after the
\* query of the load that the clearing came in the middle of.
THEOREM ByIdIsAlwaysFresh == Spec => []ByIdIsFresh
<1>1. FreshInv => ByIdIsFresh
  BY DEF FreshInv
<1> QED BY FreshInit, FreshStep, <1>1, PTL DEF Spec

\* The cached pipelines of a topic agree with the store about every pipeline not changed
\* since the replica last dropped the list in a change of its own or in a clearing, or
\* since the query of the load that the clearing came in the middle of.
THEOREM ByTopicIsAlwaysFresh == Spec => []ByTopicIsFresh
<1>1. FreshInv => ByTopicIsFresh
  BY DEF FreshInv
<1> QED BY FreshInit, FreshStep, <1>1, PTL DEF Spec
=============================================================================
