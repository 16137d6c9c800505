------------------------------ MODULE TopicRow ------------------------------
(***************************************************************************)
(* Concurrent write actions of the pipeline engine on one logical row of a *)
(* topic: every worker is one run of an insert-or-merge-row, merge-row or  *)
(* write-factor action whose "by" condition selects that row, and every    *)
(* call to the topic storage is one atomic step.  Workers run in different *)
(* replicas of the service (or Dask tasks), so their calls interleave.     *)
(*                                                                         *)
(* The data is abstracted to what the properties tell apart.  Each run     *)
(* contributes one increment (a "sum" or "count" mapping), and a row keeps *)
(* how many times it holds the contribution of each run; the amounts and   *)
(* the other columns are left out.  A row is named by the run that         *)
(* inserted it.                                                            *)
(***************************************************************************)
EXTENDS Integers, FiniteSets

CONSTANTS
    Workers,       \* the action runs
    None,          \* no row
    MaxAttempts,   \* RetryPolicy.max_attempts
    MaxPatches,    \* bound: how often a client patches the row
    Deployments    \* the deployments under study

(***************************************************************************)
(* A deployment: is the topic of type "aggregate"; the store of the topic  *)
(* ("sql" stands for MySQL and Oracle, which treat these calls alike);     *)
(* settings.STORAGE_ENGINE, the store of the metadata; and whether the     *)
(* topic's table has a unique index over the "by" factors.                 *)
(***************************************************************************)
Stores == {"sql", "mongo"}
AllDeployments ==
    [aggregate: BOOLEAN, store: Stores, engine: Stores, unique: BOOLEAN]

ASSUME ConstantsAssumption ==
    /\ None \notin Workers
    /\ MaxAttempts \in Nat
    /\ MaxPatches \in Nat
    /\ Deployments \subseteq AllDeployments

VARIABLES
    deployment,  \* chosen once and for all
    rows,        \* the matching rows of the topic, by the run that inserted them
    pc,          \* where each run stands
    kind,        \* action.type of each run
    target,      \* the row a run last found
    seen,        \* what that row held when the run last read it
    count_,      \* execute's count_ of lock conflicts
    trigger,     \* the TriggerData the run returned
    copy,        \* the row as a patching client last read it
    patches      \* how many patches were stored

vars == <<deployment, rows, pc, kind, target, seen, count_, trigger, copy, patches>>

-----------------------------------------------------------------------------
Kinds == {"insert-or-merge-row", "merge-row", "write-factor"}

\* A row without "version_" has version NoVersion.
NoVersion == -1
Version   == Nat \cup {NoVersion}
Row       == [live: BOOLEAN, version: Version, counts: [Workers -> Nat]]
NoCounts  == [w \in Workers |-> 0]
EmptyRow  == [live |-> FALSE, version |-> NoVersion, counts |-> NoCounts]
Trigger   == [type: {"none", "insert", "update"}, old: Row]
NoTrigger == [type |-> "none", old |-> EmptyRow]

Live == {r \in Workers : rows[r].live}

Goto(w, l)  == pc' = [pc EXCEPT ![w] = l]
Done(w, t)  == Goto(w, "done") /\ trigger' = [trigger EXCEPT ![w] = t]
Ended(w)    == pc[w] \in {"done", "failed", "exhausted"}

\* Mutant of ChecksVersion: no statement carries the version.
NeverChecksVersion == FALSE

\* The store checks the version in the statement that writes the row.  The
\* Mongo filter is built from the first key of {"_id", "version_"} alone.
ChecksVersion == deployment.store = "sql"

\* get_id_name() follows settings.STORAGE_ENGINE, not the topic's data source.
WrongIdName == deployment.engine # deployment.store

\* What an insert leaves in "version_".  Only tables of aggregate topics have it.
InsertVersion ==
    IF /\ deployment.aggregate
       /\ deployment.store = "sql" \/ deployment.engine = "mongo"
    THEN 0
    ELSE NoVersion

\* Mutant of Accumulate: the value is computed from what the run has read.
AccumulateRead(w, read, now) == [read EXCEPT !.counts[w] = @ + 1]

\* "col = col + v" or $inc: the store adds to what the row holds now, not to
\* what the run has read.
Accumulate(w, read, now) == [now EXCEPT !.counts[w] = @ + 1]

\* Mutant of SetVersion: the update forgets "version_".
KeepVersion(row, v) == row

SetVersion(row, v) == [row EXCEPT !.version = v]

-----------------------------------------------------------------------------
Init ==
    /\ deployment \in Deployments
    /\ rows = [r \in Workers |-> EmptyRow]
    /\ pc = [w \in Workers |-> "idle"]
    /\ kind = [w \in Workers |-> "insert-or-merge-row"]
    /\ target = [w \in Workers |-> None]
    /\ seen = [w \in Workers |-> EmptyRow]
    /\ count_ = [w \in Workers |-> 0]
    /\ trigger = [w \in Workers |-> NoTrigger]
    /\ copy = [row |-> None, data |-> EmptyRow]
    /\ patches = 0

\* The worker reaches the action.
Start(w) ==
    /\ pc[w] = "idle"
    /\ \E k \in Kinds : kind' = [kind EXCEPT ![w] = k]
    /\ Goto(w, "query")
    /\ UNCHANGED <<deployment, rows, target, seen, count_, trigger, copy, patches>>

\* query_topic_data finds no row: only insert-or-merge-row goes on.
QueryMiss(w) ==
    /\ pc[w] = "query"
    /\ Live = {}
    /\ Goto(w, IF kind[w] = "insert-or-merge-row" THEN "insert" ELSE "failed")
    /\ UNCHANGED <<deployment, rows, kind, target, seen, count_, trigger, copy, patches>>

\* query_topic_data finds one of the rows.  On an aggregate topic the row is
\* read again by the retry callback.
QueryHit(w) ==
    /\ pc[w] = "query"
    /\ \E r \in Live : target' = [target EXCEPT ![w] = r]
    /\ Goto(w, IF deployment.aggregate THEN "retry"
               ELSE IF kind[w] = "merge-row" /\ WrongIdName THEN "failed"
               ELSE "find_old")
    /\ UNCHANGED <<deployment, rows, kind, seen, count_, trigger, copy, patches>>

\* insert_topic_data stores a new row.
Insert(w) ==
    /\ pc[w] = "insert"
    /\ ~(deployment.unique /\ Live # {})
    /\ rows' = [rows EXCEPT ![w] =
                  [live |-> TRUE, version |-> InsertVersion,
                   counts |-> [NoCounts EXCEPT ![w] = 1]]]
    /\ Done(w, [type |-> "insert", old |-> EmptyRow])
    /\ UNCHANGED <<deployment, kind, target, seen, count_, copy, patches>>

\* Mutants of InsertConflict: the aggregate branch does not catch the error, or
\* tries the insert again.
InsertConflictFails(w) ==
    /\ pc[w] = "insert"
    /\ deployment.unique /\ Live # {}
    /\ Goto(w, "failed")
    /\ UNCHANGED <<deployment, rows, kind, target, seen, count_, trigger, copy, patches>>

InsertConflictRepeats(w) ==
    /\ pc[w] = "insert"
    /\ deployment.unique /\ Live # {}
    /\ Goto(w, "insert")
    /\ UNCHANGED <<deployment, rows, kind, target, seen, count_, trigger, copy, patches>>

\* InsertConflictError: the aggregate branch turns to the update, the other
\* branch does not catch it.
InsertConflict(w) ==
    /\ pc[w] = "insert"
    /\ deployment.unique /\ Live # {}
    /\ Goto(w, IF deployment.aggregate THEN "retry" ELSE "failed")
    /\ UNCHANGED <<deployment, rows, kind, target, seen, count_, trigger, copy, patches>>

\* Mutant of RetryRead: a retry refreshes the version alone.
RetryReadVersion(w) ==
    /\ pc[w] = "retry"
    /\ \E r \in Live :
         /\ target' = [target EXCEPT ![w] = r]
         /\ seen' = [seen EXCEPT ![w] =
                        IF count_[w] = 0 THEN rows[r] ELSE [@ EXCEPT !.version = rows[r].version]]
         /\ Goto(w, IF rows[r].version = NoVersion THEN "failed" ELSE "write")
    /\ UNCHANGED <<deployment, rows, kind, count_, trigger, copy, patches>>

\* update_retry_callback, up to the write.
RetryRead(w) ==
    /\ pc[w] = "retry"
    /\ \E r \in Live :
         /\ target' = [target EXCEPT ![w] = r]
         /\ seen' = [seen EXCEPT ![w] = rows[r]]
         /\ Goto(w, IF rows[r].version = NoVersion THEN "failed" ELSE "write")
    /\ UNCHANGED <<deployment, rows, kind, count_, trigger, copy, patches>>

\* topic_data_update_one_with_version succeeds.
WriteWithVersion(w) ==
    LET r == target[w] IN
    /\ pc[w] = "write"
    /\ ChecksVersion => rows[r].version = seen[w].version
    /\ rows' = [rows EXCEPT ![r] =
                  SetVersion(Accumulate(w, seen[w], @), seen[w].version + 1)]
    /\ Done(w, [type |-> "update", old |-> seen[w]])
    /\ UNCHANGED <<deployment, kind, target, seen, count_, copy, patches>>

\* What becomes of a run that met a conflict, when it gives up at `limit`.
Conflict(w, limit) ==
    /\ \/ /\ count_[w] < limit
          /\ count_' = [count_ EXCEPT ![w] = @ + 1]
          /\ Goto(w, "retry")
       \/ /\ count_[w] >= limit
          /\ Goto(w, "exhausted")
          /\ UNCHANGED count_
    /\ UNCHANGED <<deployment, kind, target, seen, trigger, copy, patches>>

\* Mutants of LockConflict: one retry too few, one too many, or the row is
\* written before its version is compared.
LockConflictEarly(w) ==
    /\ pc[w] = "write" /\ ChecksVersion
    /\ rows[target[w]].version # seen[w].version
    /\ Conflict(w, MaxAttempts - 1)
    /\ UNCHANGED rows

LockConflictLate(w) ==
    /\ pc[w] = "write" /\ ChecksVersion
    /\ rows[target[w]].version # seen[w].version
    /\ Conflict(w, MaxAttempts + 1)
    /\ UNCHANGED rows

LockConflictWrites(w) ==
    /\ pc[w] = "write" /\ ChecksVersion
    /\ rows[target[w]].version # seen[w].version
    /\ Conflict(w, MaxAttempts)
    /\ rows' = [rows EXCEPT ![target[w]] = Accumulate(w, seen[w], @)]

\* It raises OptimisticLockError.  Mongo has no version to compare: it reports
\* a conflict when the document already held everything the update sets.  Once
\* the retries are spent, execute reads its unassigned "result".
LockConflict(w) ==
    LET now == rows[target[w]].version IN
    /\ pc[w] = "write"
    /\ IF ChecksVersion THEN now # seen[w].version ELSE now = seen[w].version + 1
    /\ Conflict(w, MaxAttempts)
    /\ UNCHANGED rows

\* update_topic_data_one reads the old row by id ...
FindOld(w) ==
    /\ pc[w] = "find_old"
    /\ seen' = [seen EXCEPT ![w] = rows[target[w]]]
    /\ Goto(w, "update_one")
    /\ UNCHANGED <<deployment, rows, kind, target, count_, trigger, copy, patches>>

\* ... and updates it by id, with no version check.
UpdateOne(w) ==
    LET r == target[w] IN
    /\ pc[w] = "update_one"
    /\ rows' = [rows EXCEPT ![r] = Accumulate(w, seen[w], @)]
    /\ Done(w, [type |-> "update", old |-> seen[w]])
    /\ UNCHANGED <<deployment, kind, target, seen, count_, copy, patches>>

-----------------------------------------------------------------------------
\* A client of /topic/data/patch reads a row ...
PatchRead ==
    /\ patches < MaxPatches
    /\ \E r \in Live : copy' = [row |-> r, data |-> rows[r]]
    /\ UNCHANGED <<deployment, rows, pc, kind, target, seen, count_, trigger, patches>>

\* ... and stores the whole row back: by id, version_ one above the copy's.
PatchWrite ==
    LET r == copy.row
        v == copy.data.version IN
    /\ r # None
    /\ rows' = [rows EXCEPT ![r] =
                  SetVersion(copy.data, IF v = NoVersion THEN v ELSE v + 1)]
    /\ copy' = [row |-> None, data |-> EmptyRow]
    /\ patches' = patches + 1
    /\ UNCHANGED <<deployment, pc, kind, target, seen, count_, trigger>>

-----------------------------------------------------------------------------
Work(w) ==
    \/ QueryMiss(w)        \/ QueryHit(w)
    \/ Insert(w)           \/ InsertConflict(w)
    \/ RetryRead(w)
    \/ WriteWithVersion(w) \/ LockConflict(w)
    \/ FindOld(w)          \/ UpdateOne(w)

Next ==
    \/ \E w \in Workers : Start(w) \/ Work(w)
    \/ PatchRead
    \/ PatchWrite

Spec == Init /\ [][Next]_vars

\* An action that has begun is run to its end: nothing in it waits.
FairSpec == Spec /\ \A w \in Workers : WF_vars(Work(w))

-----------------------------------------------------------------------------
(***************************************************************************)
(* Properties                                                              *)
(***************************************************************************)
PCs == {"idle", "query", "insert", "retry", "write", "find_old", "update_one",
        "done", "failed", "exhausted"}

\* The values the variables take.
TypeOK ==
    /\ deployment \in AllDeployments
    /\ rows \in [Workers -> Row]
    /\ pc \in [Workers -> PCs]
    /\ kind \in [Workers -> Kinds]
    /\ target \in [Workers -> Workers \cup {None}]
    /\ seen \in [Workers -> Row]
    /\ count_ \in [Workers -> 0..MaxAttempts]
    /\ trigger \in [Workers -> Trigger]
    /\ copy \in [row: Workers \cup {None}, data: Row]
    /\ patches \in 0..MaxPatches

\* The contribution of w is in the rows exactly once, or nowhere at all.
CountedOnce(w) ==
    \E r \in Workers :
        /\ rows[r].counts[w] = 1
        /\ \A q \in Workers \ {r} : rows[q].counts[w] = 0
CountedNever(w) == \A r \in Workers : rows[r].counts[w] = 0

\* Exactly-once accumulation: whatever the interleaving of queries, inserts,
\* conflicts and retries, a run that ended well is counted exactly once and
\* every other run not at all, until a client patches a row by hand.
ExactlyOnce ==
    patches = 0 =>
        \A w \in Workers : IF pc[w] = "done" THEN CountedOnce(w) ELSE CountedNever(w)

\* The setting in which the version column really orders the updates of a row.
Versioned ==
    /\ deployment.aggregate
    /\ deployment.store = "sql"
    /\ patches = 0

Updated(w) == pc[w] = "done" /\ trigger[w].type = "update"

\* First committer wins: no two updates of a row are computed from the same
\* version of it, and every one is computed from an older version than the
\* row has now, so the OLD values handed to the triggered pipelines never fork.
NoForkedUpdate ==
    Versioned =>
        \A w \in Workers : Updated(w) =>
            /\ trigger[w].old.version < rows[target[w]].version
            /\ \A x \in Workers \ {w} :
                   Updated(x) /\ target[x] = target[w] =>
                       trigger[x].old.version # trigger[w].old.version

\* The OLD value of an update trigger holds the contributions of exactly the
\* run that inserted the row and the updates of older versions: a difference
\* NEW - OLD taken downstream is this run's own contribution.
OldIsPrefix ==
    Versioned =>
        \A w, x \in Workers :
            Updated(w) =>
                trigger[w].old.counts[x] =
                    IF \/ x = target[w]
                       \/ /\ Updated(x) /\ target[x] = target[w]
                          /\ trigger[x].old.version < trigger[w].old.version
                    THEN 1 ELSE 0

\* The version of a row is the number of updates it has absorbed.
VersionCountsUpdates ==
    Versioned =>
        \A r \in Live :
            rows[r].version = Cardinality({w \in Workers : Updated(w) /\ target[w] = r})

\* A run gives up only after MaxAttempts + 1 conflicts, and each of them is
\* another run's progress: with one row, its version shows them all.
ExhaustionIsEarned ==
    Versioned /\ deployment.unique =>
        \A w \in Workers : pc[w] = "exhausted" =>
            \E r \in Live : rows[r].version > MaxAttempts

\* On an aggregate topic whose rows carry versions an insert-or-merge-row run
\* always ends well or by running out of retries: neither a lost race to
\* insert nor a row that appears after the query makes it fail.
InsertOrMergeNeverFails ==
    /\ deployment.aggregate
    /\ deployment.store = "sql" \/ deployment.engine = "mongo"
    => \A w \in Workers : kind[w] = "insert-or-merge-row" => pc[w] # "failed"

\* A run that has begun ends.
Termination == \A w \in Workers : pc[w] = "query" ~> Ended(w)

-----------------------------------------------------------------------------
(***************************************************************************)
(* The refinement of AtomicContribution.  A contribution held twice would  *)
(* show as 2.                                                              *)
(***************************************************************************)
StatusOf(l) ==
    IF l = "done" THEN "applied"
    ELSE IF l \in {"failed", "exhausted"} THEN "rejected" ELSE "pending"

HowOften(w) == IF CountedNever(w) THEN 0 ELSE IF CountedOnce(w) THEN 1 ELSE 2

Atomic == INSTANCE AtomicContribution WITH
              status  <- [w \in Workers |-> StatusOf(pc[w])],
              counted <- [w \in Workers |-> HowOften(w)]

\* Whatever the deployment, the calls to the store that make up an action run
\* amount to one atomic contribution or to none, as long as no client patches.
RefinesAtomic == Atomic!Spec

-----------------------------------------------------------------------------
\* What the log line of update_recovery_callback says: when the retries are
\* spent the action does its recovery, so no run ends without its update.
RecoveryIsExecuted == \A w \in Workers : pc[w] # "exhausted"

=============================================================================
