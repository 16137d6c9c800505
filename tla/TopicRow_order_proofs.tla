------------------------ MODULE TopicRow_order_proofs ------------------------
(***************************************************************************)
(* More proofs about TopicRow: where the version column is checked it      *)
(* orders the updates of a row, so that OLD values are prefixes of its     *)
(* history, and retries run out only against that much progress of others; *)
(* insert-or-merge-row does not fail where rows carry versions; and every  *)
(* run amounts to one atomic contribution or to none.                      *)
(***************************************************************************)
EXTENDS TopicRow_proofs

-----------------------------------------------------------------------------
(* The order of updates.                                                   *)

\* What version v of row r holds of run x.
Prefix(r, v, x) ==
    IF x = r \/ (Updated(x) /\ target[x] = r /\ trigger[x].old.version < v) THEN 1 ELSE 0

\* Beside what is to be shown: the statements of topics without versions are not
\* reached, rows come from inserts, and what a run holds before it writes is a prefix.
Reached ==
    /\ \A w \in Workers : pc[w] \notin {"find_old", "update_one"}
    /\ \A w \in Workers : pc[w] = "done" => trigger[w].type \in {"insert", "update"}
    /\ \A r \in Workers : rows[r].live => trigger[r].type = "insert"
HeldIsPrefix ==
    \A w \in Workers : pc[w] = "write" =>
        /\ seen[w].version <= rows[target[w]].version
        /\ \A x \in Workers : seen[w].counts[x] = Prefix(target[w], seen[w].version, x)
Unforked ==
    \A w \in Workers : Updated(w) =>
        /\ trigger[w].old.version < rows[target[w]].version
        /\ \A x \in Workers \ {w} :
               Updated(x) /\ target[x] = target[w] =>
                   trigger[x].old.version # trigger[w].old.version
OldPrefix ==
    \A w, x \in Workers : Updated(w) =>
        trigger[w].old.counts[x] = Prefix(target[w], trigger[w].old.version, x)

OrderInv == Versioned => Reached /\ HeldIsPrefix /\ Unforked /\ OldPrefix
RowInv   == TypeInv /\ CountInv /\ OrderInv

\* A live row holds the prefix that ends in its version: all of its history.
LEMMA RowIsPrefix ==
  ASSUME RowInv, Versioned, NEW r \in Workers, rows[r].live, NEW x \in Workers
  PROVE  rows[r].counts[x] = Prefix(r, rows[r].version, x)
<1>1. Counted /\ OnLiveRows /\ Reached /\ Unforked
  BY DEF RowInv, CountInv, OrderInv, Versioned
<1>2. rows[r].counts[x] = IF pc[x] = "done" /\ Home(x) = r THEN 1 ELSE 0
  BY <1>1 DEF Counted
<1>3. pc[r] = "done" /\ trigger[r].type = "insert"
  BY <1>1 DEF OnLiveRows, Reached
<1>4. CASE x = r
  BY <1>2, <1>3, <1>4 DEF Home, Prefix
<1>5. CASE x # r
  <2>1. (pc[x] = "done" /\ Home(x) = r) <=> (Updated(x) /\ target[x] = r)
    BY <1>1, <1>5 DEF Reached, Home, Updated
  <2>2. Updated(x) /\ target[x] = r => trigger[x].old.version < rows[r].version
    BY <1>1 DEF Unforked
  <2> QED BY <1>2, <1>5, <2>1, <2>2 DEF Prefix
<1> QED BY <1>4, <1>5

LEMMA OrderInit == Init => OrderInv
  BY DEF Init, OrderInv, Reached, HeldIsPrefix, Unforked, OldPrefix, Updated, EmptyRow

\* Steps of a run that write no row and end no run in success keep the order, if the
\* run holds a prefix when it is about to write.
LEMMA OrderQuiet ==
  ASSUME RowInv, Versioned, NEW w \in Workers,
         NEW l \in PCs \ {"done", "find_old", "update_one"},
         pc[w] # "done", pc' = [pc EXCEPT ![w] = l],
         \A x \in Workers \ {w} : target'[x] = target[x] /\ seen'[x] = seen[x],
         l = "write" =>
             /\ seen'[w].version <= rows[target'[w]].version
             /\ \A x \in Workers :
                    seen'[w].counts[x] = Prefix(target'[w], seen'[w].version, x),
         UNCHANGED <<rows, trigger>>
  PROVE  (Reached /\ HeldIsPrefix /\ Unforked /\ OldPrefix)'
<1>1. Reached /\ HeldIsPrefix /\ Unforked /\ OldPrefix
  BY DEF RowInv, OrderInv
<1>2. \A x \in Workers : pc'[x] = IF x = w THEN l ELSE pc[x]
  BY DEF RowInv, TypeInv, TypeOK
<1>3. \A x \in Workers : Updated(x)' <=> Updated(x)
  BY <1>2 DEF Updated
<1>4. \A x \in Workers : Updated(x) => x # w /\ target'[x] = target[x]
  BY DEF Updated
<1>5. Reached'
  BY <1>1, <1>2 DEF Reached
<1>6. Unforked'
  BY <1>1, <1>3, <1>4 DEF Unforked
<1>7. OldPrefix'
  BY <1>1, <1>3, <1>4 DEF OldPrefix, Prefix
<1>8. HeldIsPrefix'
  <2> SUFFICES ASSUME NEW o \in Workers, pc'[o] = "write"
               PROVE  /\ seen'[o].version <= rows'[target'[o]].version
                      /\ \A x \in Workers : seen'[o].counts[x] = Prefix(target[o], seen[o].version, x)'
    BY DEF HeldIsPrefix
  <2>1. CASE o = w
    BY <1>2, <1>3, <1>4, <2>1 DEF Prefix
  <2>2. CASE o # w
    BY <1>1, <1>2, <1>3, <1>4, <2>2 DEF HeldIsPrefix, Prefix
  <2> QED BY <2>1, <2>2
<1> QED BY <1>5, <1>6, <1>7, <1>8

\* The update of a row under the version check adds to the history of that row alone.
LEMMA OrderUpdate ==
  ASSUME RowInv, Versioned, NEW w \in Workers, WriteWithVersion(w)
  PROVE  (Reached /\ HeldIsPrefix /\ Unforked /\ OldPrefix)'
<1> DEFINE r == target[w]
           v == seen[w].version
<1>1. Reached /\ HeldIsPrefix /\ Unforked /\ OldPrefix /\ OnLiveRows
  BY DEF RowInv, OrderInv, CountInv, Versioned
<1>2. pc[w] = "write" /\ r \in Workers /\ rows[r].live /\ rows[r].version = v
  BY <1>1 DEF WriteWithVersion, ChecksVersion, Versioned, RowInv, TypeInv, TypeOK, Holding, OnLiveRows
<1>3. v \in Version /\ seen[w] \in Row /\ v + 1 \in Version /\ v < v + 1
  <2>1. seen[w] \in Row
    BY DEF RowInv, TypeInv, TypeOK
  <2>2. v \in Version
    BY <2>1 DEF Row
  <2> QED BY <2>1, <2>2 DEF Version, NoVersion
<1>4. /\ rows'[r].live /\ rows'[r].version = v + 1
      /\ \A q \in Workers \ {r} : rows'[q] = rows[q]
  <2> DEFINE acc == Accumulate(w, seen[w], rows[r])
  <2>1. acc \in Row /\ acc.live = rows[r].live
    <3>1. rows[r] \in Row
      BY <1>2 DEF RowInv, TypeInv, TypeOK
    <3> QED BY <1>3, <3>1, AccumulateRow
  <2> DEFINE new == SetVersion(acc, v + 1)
  <2>2. rows' = [rows EXCEPT ![r] = new]
    BY DEF WriteWithVersion
  <2>3. new.live = acc.live /\ new.version = v + 1
    <3> HIDE DEF acc
    <3> QED BY <1>3, <2>1, SetVersionRow
  <2> HIDE DEF acc, new
  <2> QED BY <1>2, <2>1, <2>2, <2>3 DEF RowInv, TypeInv, TypeOK
<1>5. /\ pc'[w] = "done" /\ \A x \in Workers \ {w} : pc'[x] = pc[x]
      /\ trigger'[w].type = "update" /\ trigger'[w].old = seen[w]
      /\ \A x \in Workers \ {w} : trigger'[x] = trigger[x]
      /\ target' = target /\ seen' = seen
  BY DEF WriteWithVersion, Done, Goto, RowInv, TypeInv, TypeOK
<1>6. Updated(w)' /\ ~Updated(w) /\ \A x \in Workers \ {w} : Updated(x)' <=> Updated(x)
  BY <1>2, <1>5 DEF Updated
<1>7. \A x \in Workers : Updated(x) => trigger[x].old.version \in Int
  <2> SUFFICES ASSUME NEW x \in Workers PROVE trigger[x].old.version \in Int
    OBVIOUS
  <2>1. trigger[x].old \in Row
    BY DEF RowInv, TypeInv, TypeOK, Trigger
  <2> QED BY <2>1 DEF Row, Version, NoVersion
<1> DEFINE After(q, u, x) ==
               IF x = q \/ (Updated(x)' /\ target[x] = q /\ trigger'[x].old.version < u) THEN 1 ELSE 0
<1>8. \A q, x \in Workers : \A u \in Int : q # r \/ u <= v => After(q, u, x) = Prefix(q, u, x)
  <2> SUFFICES ASSUME NEW q \in Workers, NEW x \in Workers, NEW u \in Int, q # r \/ u <= v
               PROVE  After(q, u, x) = Prefix(q, u, x)
    OBVIOUS
  <2>1. CASE x = w
    BY <1>3, <1>5, <1>6, <2>1 DEF Prefix, Version, NoVersion
  <2>2. CASE x # w
    BY <1>5, <1>6, <2>2 DEF Prefix
  <2> QED BY <2>1, <2>2
<1>9. Reached'
  <2>1. w # r
    BY <1>1, <1>2 DEF OnLiveRows
  <2>2. ASSUME NEW q \in Workers, rows'[q].live PROVE trigger'[q].type = "insert"
    <3>1. rows[q].live /\ pc[q] = "done"
      BY <1>1, <1>2, <1>4, <2>2 DEF OnLiveRows
    <3> QED BY <1>1, <1>2, <1>5, <3>1 DEF Reached
  <2> QED BY <1>1, <1>5, <2>2 DEF Reached
<1>10. HeldIsPrefix'
  <2> SUFFICES ASSUME NEW o \in Workers, pc'[o] = "write"
               PROVE  /\ seen[o].version <= rows'[target[o]].version
                      /\ \A x \in Workers : seen[o].counts[x] = After(target[o], seen[o].version, x)
    BY <1>5 DEF HeldIsPrefix, Prefix
  <2>1. o # w /\ pc[o] = "write"
    BY <1>5
  <2>2. seen[o].version \in Int /\ target[o] \in Workers
    <3>1. seen[o] \in Row /\ target[o] \in Workers
      BY <2>1 DEF RowInv, TypeInv, TypeOK, Holding
    <3> QED BY <3>1 DEF Row, Version, NoVersion
  <2>3. /\ seen[o].version <= rows[target[o]].version
        /\ \A x \in Workers : seen[o].counts[x] = Prefix(target[o], seen[o].version, x)
    BY <1>1, <2>1 DEF HeldIsPrefix
  <2>4. target[o] # r \/ seen[o].version <= v
    BY <1>2, <2>3
  <2>5. seen[o].version <= rows'[target[o]].version
    BY <1>2, <1>3, <1>4, <2>2, <2>3 DEF Version, NoVersion
  <2>6. ASSUME NEW x \in Workers PROVE seen[o].counts[x] = After(target[o], seen[o].version, x)
    <3> HIDE DEF After
    <3> QED BY <1>8, <2>2, <2>3, <2>4
  <2> QED BY <2>5, <2>6
<1>11. Unforked'
  <2> SUFFICES ASSUME NEW o \in Workers, Updated(o)'
               PROVE  /\ trigger'[o].old.version < rows'[target[o]].version
                      /\ \A x \in Workers \ {o} : Updated(x)' /\ target[x] = target[o] =>
                             trigger'[x].old.version # trigger'[o].old.version
    BY <1>5 DEF Unforked
  <2>1. \A x \in Workers : Updated(x) /\ target[x] = r => trigger[x].old.version < v
    BY <1>1, <1>2 DEF Unforked
  <2>2. \A x \in Workers : Updated(x) => target[x] \in Workers
    BY <1>1 DEF OnLiveRows, Home, Updated
  <2>3. CASE o = w
    BY <1>3, <1>4, <1>5, <1>6, <1>7, <2>1, <2>3 DEF Version, NoVersion
  <2>4. CASE o # w
    <3>1. Updated(o) /\ trigger'[o] = trigger[o]
      BY <1>5, <1>6, <2>4
    <3>2. trigger[o].old.version < rows'[target[o]].version
      <4>1. CASE target[o] = r
        BY <1>3, <1>4, <1>7, <2>1, <3>1, <4>1 DEF Version, NoVersion
      <4>2. CASE target[o] # r
        BY <1>1, <1>4, <2>2, <3>1, <4>2 DEF Unforked
      <4> QED BY <4>1, <4>2
    <3>3. ASSUME NEW x \in Workers \ {o}, Updated(x)', target[x] = target[o]
          PROVE  trigger'[x].old.version # trigger[o].old.version
      <4>1. CASE x = w
        BY <1>3, <1>5, <1>7, <2>1, <3>1, <3>3, <4>1 DEF Version, NoVersion
      <4>2. CASE x # w
        BY <1>1, <1>5, <1>6, <3>1, <3>3, <4>2 DEF Unforked
      <4> QED BY <4>1, <4>2
    <3> QED BY <3>1, <3>2, <3>3
  <2> QED BY <2>3, <2>4
<1>12. OldPrefix'
  <2> SUFFICES ASSUME NEW o \in Workers, NEW x \in Workers, Updated(o)'
               PROVE  trigger'[o].old.counts[x] = After(target[o], trigger'[o].old.version, x)
    BY <1>5 DEF OldPrefix, Prefix
  <2> HIDE DEF After
  <2>1. CASE o = w
    <3>1. seen[w].counts[x] = Prefix(r, v, x)
      BY <1>1, <1>2 DEF HeldIsPrefix
    <3>2. v \in Int /\ v <= v
      BY <1>3 DEF Version, NoVersion
    <3>3. After(r, v, x) = Prefix(r, v, x)
      BY <1>2, <1>8, <3>2
    <3> QED BY <1>5, <2>1, <3>1, <3>3
  <2>2. CASE o # w
    <3>1. Updated(o) /\ trigger'[o] = trigger[o] /\ target[o] \in Workers
      BY <1>1, <1>5, <1>6, <2>2 DEF OnLiveRows, Home, Updated
    <3> DEFINE u == trigger[o].old.version
    <3>2. u \in Int /\ (target[o] # r \/ u <= v)
      BY <1>1, <1>2, <1>3, <1>7, <3>1 DEF Unforked, Version, NoVersion
    <3>3. trigger[o].old.counts[x] = Prefix(target[o], u, x)
      BY <1>1, <3>1 DEF OldPrefix
    <3>4. After(target[o], u, x) = Prefix(target[o], u, x)
      BY <1>8, <3>1, <3>2
    <3> QED BY <3>1, <3>3, <3>4
  <2> QED BY <2>1, <2>2
<1> QED BY <1>9, <1>10, <1>11, <1>12

\* A new row has no history but its insert.
LEMMA OrderInsert ==
  ASSUME RowInv, Versioned, NEW w \in Workers, Insert(w)
  PROVE  (Reached /\ HeldIsPrefix /\ Unforked /\ OldPrefix)'
<1>1. Reached /\ HeldIsPrefix /\ Unforked /\ OldPrefix /\ OnLiveRows
  BY DEF RowInv, OrderInv, CountInv, Versioned
<1>2. pc[w] = "insert" /\ ~rows[w].live
  BY <1>1 DEF Insert, OnLiveRows
<1>3. \A q \in Workers \ {w} : rows'[q] = rows[q]
  BY DEF Insert, RowInv, TypeInv, TypeOK
<1>4. /\ pc'[w] = "done" /\ \A x \in Workers \ {w} : pc'[x] = pc[x]
      /\ trigger'[w].type = "insert" /\ \A x \in Workers \ {w} : trigger'[x] = trigger[x]
      /\ target' = target /\ seen' = seen
  BY DEF Insert, Done, Goto, RowInv, TypeInv, TypeOK
<1>5. \A x \in Workers : (Updated(x)' <=> Updated(x)) /\ (Updated(x) => x # w)
  BY <1>2, <1>4 DEF Updated
<1>6. \A x \in Workers : Updated(x) => target[x] \in Workers /\ target[x] # w
  BY <1>1, <1>2 DEF OnLiveRows, Home, Updated
<1>7. Reached'
  <2>1. \A q \in Workers : rows'[q].live => trigger'[q].type = "insert"
    BY <1>1, <1>3, <1>4 DEF Reached
  <2> QED BY <1>1, <1>4, <2>1 DEF Reached
<1>8. HeldIsPrefix'
  <2> SUFFICES ASSUME NEW o \in Workers, pc'[o] = "write"
               PROVE  /\ seen[o].version <= rows'[target[o]].version
                      /\ \A x \in Workers : seen[o].counts[x] = Prefix(target[o], seen[o].version, x)
    BY <1>4, <1>5 DEF HeldIsPrefix, Prefix
  <2>1. pc[o] = "write" /\ target[o] \in Workers /\ target[o] # w
    BY <1>1, <1>2, <1>4 DEF OnLiveRows, RowInv, TypeInv, Holding
  <2> QED BY <1>1, <1>3, <2>1 DEF HeldIsPrefix
<1>9. Unforked'
  BY <1>1, <1>3, <1>4, <1>5, <1>6 DEF Unforked
<1>10. OldPrefix'
  <2> SUFFICES ASSUME NEW o \in Workers, NEW x \in Workers, Updated(o)
               PROVE  trigger[o].old.counts[x] = Prefix(target[o], trigger[o].old.version, x)
    BY <1>4, <1>5 DEF OldPrefix, Prefix
  <2> QED BY <1>1 DEF OldPrefix
<1> QED BY <1>7, <1>8, <1>9, <1>10

LEMMA OrderStep == RowInv /\ [Next]_vars => OrderInv'
<1> SUFFICES ASSUME RowInv, [Next]_vars, Versioned' PROVE (Reached /\ HeldIsPrefix /\ Unforked /\ OldPrefix)'
  BY DEF OrderInv
<1> DEFINE Goal == (Reached /\ HeldIsPrefix /\ Unforked /\ OldPrefix)'
<1>1. Versioned
  <2>1. deployment' = deployment
    BY DEF Next, Work, vars, Start, QueryMiss, QueryHit, Insert, InsertConflict, RetryRead,
           WriteWithVersion, LockConflict, Conflict, FindOld, UpdateOne, PatchRead, PatchWrite
  <2>2. patches' = 0 => patches = 0
    <3>1. patches' = patches \/ (PatchWrite /\ patches' = patches + 1)
      BY DEF Next, Work, vars, Start, QueryMiss, QueryHit, Insert, InsertConflict, RetryRead,
             WriteWithVersion, LockConflict, Conflict, FindOld, UpdateOne, PatchRead, PatchWrite
    <3>2. patches \in Nat
      BY ConstantsAssumption DEF RowInv, TypeInv, TypeOK
    <3> QED BY <3>1, <3>2
  <2> QED BY <2>1, <2>2 DEF Versioned
<1>2. patches = 0 /\ patches' = 0 /\ deployment.aggregate
  BY <1>1 DEF Versioned
<1>3. Reached
  BY <1>1 DEF RowInv, OrderInv
<1> USE DEF RowInv, TypeInv, TypeOK
<1>4. ASSUME NEW w \in Workers, Start(w) \/ QueryMiss(w) \/ InsertConflict(w) \/ LockConflict(w) PROVE Goal
  <2>1. PICK l \in {"query", "insert", "failed", "retry", "exhausted"} : pc' = [pc EXCEPT ![w] = l]
    BY <1>4 DEF Start, QueryMiss, InsertConflict, LockConflict, Conflict, Goto
  <2>2. pc[w] # "done" /\ UNCHANGED <<rows, trigger, target, seen>>
    BY <1>4 DEF Start, QueryMiss, InsertConflict, LockConflict, Conflict
  <2> QED BY <1>1, <2>1, <2>2, OrderQuiet DEF PCs
<1>5. ASSUME NEW w \in Workers, QueryHit(w) PROVE Goal
  <2>1. pc' = [pc EXCEPT ![w] = "retry"]
    BY <1>2, <1>5 DEF QueryHit, Goto
  <2>2. pc[w] # "done" /\ UNCHANGED <<rows, trigger, seen>> /\ \A x \in Workers \ {w} : target'[x] = target[x]
    BY <1>5 DEF QueryHit
  <2> QED BY <1>1, <2>1, <2>2, OrderQuiet DEF PCs
<1>6. ASSUME NEW w \in Workers, Insert(w) PROVE Goal
  BY <1>1, <1>6, OrderInsert
<1>7. ASSUME NEW w \in Workers, RetryRead(w) PROVE Goal
  <2>1. PICK r \in Live : /\ target' = [target EXCEPT ![w] = r]
                          /\ seen' = [seen EXCEPT ![w] = rows[r]]
                          /\ Goto(w, IF rows[r].version = NoVersion THEN "failed" ELSE "write")
    BY <1>7 DEF RetryRead
  <2>2. PICK l \in {"failed", "write"} : pc' = [pc EXCEPT ![w] = l]
    BY <2>1 DEF Goto
  <2>3. pc[w] # "done" /\ UNCHANGED <<rows, trigger>>
    BY <1>7 DEF RetryRead
  <2>4. r \in Workers /\ rows[r].live /\ target'[w] = r /\ seen'[w] = rows[r]
    BY <2>1 DEF Live
  <2>5. \A x \in Workers \ {w} : target'[x] = target[x] /\ seen'[x] = seen[x]
    BY <2>1
  <2>6. \A x \in Workers : rows[r].counts[x] = Prefix(r, rows[r].version, x)
    BY <1>1, <2>4, RowIsPrefix
  <2>7. rows[r].version <= rows[r].version
    <3>1. rows[r] \in Row
      BY <2>4
    <3> QED BY <3>1 DEF Row, Version, NoVersion
  <2>8. /\ seen'[w].version <= rows[target'[w]].version
        /\ \A x \in Workers : seen'[w].counts[x] = Prefix(target'[w], seen'[w].version, x)
    BY <2>4, <2>6, <2>7
  <2>9. l \in PCs \ {"done", "find_old", "update_one"}
    BY <2>2 DEF PCs
  <2> HIDE DEF RowInv, TypeInv, TypeOK
  <2> QED BY <1>1, <2>2, <2>3, <2>5, <2>8, <2>9, OrderQuiet
<1>8. ASSUME NEW w \in Workers, WriteWithVersion(w) PROVE Goal
  BY <1>1, <1>8, OrderUpdate
<1>9. ASSUME NEW w \in Workers, FindOld(w) \/ UpdateOne(w) PROVE Goal
  BY <1>3, <1>9 DEF Reached, FindOld, UpdateOne
<1>10. CASE PatchRead \/ UNCHANGED vars
  <2>1. UNCHANGED <<rows, pc, target, seen, trigger>>
    BY <1>10 DEF PatchRead, vars
  <2> QED BY <1>1, <2>1 DEF OrderInv, Reached, HeldIsPrefix, Unforked, OldPrefix, Prefix, Updated
<1>11. CASE PatchWrite
  BY <1>2, <1>11 DEF PatchWrite
<1> QED
  BY <1>4, <1>5, <1>6, <1>7, <1>8, <1>9, <1>10, <1>11 DEF Next, Work

\* For any number of runs the invariant holds.
THEOREM RowInvHolds == Spec => []RowInv
<1>1. Init => RowInv
  BY TypeInit, CountInit, OrderInit DEF RowInv
<1>2. RowInv /\ [Next]_vars => RowInv'
  BY TypeStep, CountStep, OrderStep DEF RowInv
<1> QED BY <1>1, <1>2, PTL DEF Spec

\* First committer wins, for any number of runs: two updates of a row never start from
\* the same version of it (topic_data_update_one_with_version of the SQL templates).
THEOREM UpdatesNeverFork == Spec => []NoForkedUpdate
<1>1. RowInv => NoForkedUpdate
  BY DEF RowInv, OrderInv, Unforked, NoForkedUpdate
<1> QED BY <1>1, RowInvHolds, PTL

\* The OLD value a run hands to the pipelines it triggers holds exactly the insert and
\* the updates of older versions.
THEOREM OldAlwaysIsPrefix == Spec => []OldIsPrefix
<1>1. RowInv => OldIsPrefix
  <2> SUFFICES ASSUME RowInv, Versioned, NEW w \in Workers, NEW x \in Workers, Updated(w)
               PROVE  trigger[w].old.counts[x] =
                          IF \/ x = target[w]
                             \/ /\ Updated(x) /\ target[x] = target[w]
                                /\ trigger[x].old.version < trigger[w].old.version
                          THEN 1 ELSE 0
    BY DEF OldIsPrefix
  <2>1. trigger[w].old.counts[x] = Prefix(target[w], trigger[w].old.version, x)
    BY DEF RowInv, OrderInv, OldPrefix
  <2> QED BY <2>1 DEF Prefix
<1> QED BY <1>1, RowInvHolds, PTL

-----------------------------------------------------------------------------
(* Retries run out only against progress.                                  *)

\* With a unique index there is one row, and its version has passed every conflict.
OneRow == \A q, r \in Live : q = r
Passed ==
    \A w \in Workers :
        /\ pc[w] \in {"idle", "query", "insert"} => count_[w] = 0
        /\ pc[w] = "retry" /\ count_[w] > 0 => \E r \in Live : rows[r].version >= count_[w]
        /\ pc[w] = "write" => seen[w].version >= count_[w]
        /\ pc[w] = "exhausted" => \E r \in Live : rows[r].version > MaxAttempts
EarnedInv == Versioned /\ deployment.unique => OneRow /\ Passed

\* Steps that write no row: what each run has passed is shown for the run alone.
LEMMA EarnedQuiet ==
  ASSUME RowInv, OneRow, Passed, NEW w \in Workers, NEW l \in PCs, pc' = [pc EXCEPT ![w] = l],
         \A x \in Workers \ {w} : count_'[x] = count_[x] /\ seen'[x] = seen[x],
         UNCHANGED rows,
         l \in {"idle", "query", "insert"} => count_'[w] = 0,
         l = "retry" /\ count_'[w] > 0 => \E r \in Live : rows[r].version >= count_'[w],
         l = "write" => seen'[w].version >= count_'[w],
         l = "exhausted" => \E r \in Live : rows[r].version > MaxAttempts
  PROVE  (OneRow /\ Passed)'
<1>1. Live' = Live
  BY DEF Live
<1>2. \A x \in Workers : pc'[x] = IF x = w THEN l ELSE pc[x]
  BY DEF RowInv, TypeInv, TypeOK
<1>3. OneRow'
  BY <1>1 DEF OneRow
<1>4. ASSUME NEW x \in Workers
      PROVE  /\ pc'[x] \in {"idle", "query", "insert"} => count_'[x] = 0
             /\ pc'[x] = "retry" /\ count_'[x] > 0 => \E r \in Live' : rows'[r].version >= count_'[x]
             /\ pc'[x] = "write" => seen'[x].version >= count_'[x]
             /\ pc'[x] = "exhausted" => \E r \in Live' : rows'[r].version > MaxAttempts
  <2>1. CASE x = w
    BY <1>1, <1>2, <2>1
  <2>2. CASE x # w
    BY <1>1, <1>2, <2>2 DEF Passed
  <2> QED BY <2>1, <2>2
<1> QED BY <1>3, <1>4 DEF Passed

LEMMA EarnedStep == RowInv /\ RowInv' /\ EarnedInv /\ [Next]_vars => EarnedInv'
<1> SUFFICES ASSUME RowInv, RowInv', EarnedInv, [Next]_vars, Versioned', deployment'.unique
             PROVE  (OneRow /\ Passed)'
  BY DEF EarnedInv
<1> DEFINE Goal == (OneRow /\ Passed)'
<1>1. deployment' = deployment
  BY DEF Next, Work, vars, Start, QueryMiss, QueryHit, Insert, InsertConflict, RetryRead,
         WriteWithVersion, LockConflict, Conflict, FindOld, UpdateOne, PatchRead, PatchWrite
<1>2. patches' = patches \/ (PatchWrite /\ patches' = patches + 1)
  BY DEF Next, Work, vars, Start, QueryMiss, QueryHit, Insert, InsertConflict, RetryRead,
         WriteWithVersion, LockConflict, Conflict, FindOld, UpdateOne, PatchRead, PatchWrite
<1>3. patches \in Nat /\ patches = 0
  BY <1>2, ConstantsAssumption DEF RowInv, TypeInv, TypeOK, Versioned
<1>4. /\ Versioned /\ deployment.unique /\ deployment.aggregate /\ ChecksVersion
      /\ OneRow /\ Passed /\ OnLiveRows /\ Reached /\ HeldIsPrefix
  BY <1>1, <1>3 DEF Versioned, EarnedInv, RowInv, OrderInv, CountInv, ChecksVersion
<1>5. \A w \in Workers : rows[w].version \in Version /\ seen[w].version \in Version /\ count_[w] \in 0..MaxAttempts
  <2> SUFFICES ASSUME NEW w \in Workers
               PROVE  rows[w].version \in Version /\ seen[w].version \in Version /\ count_[w] \in 0..MaxAttempts
    OBVIOUS
  <2>1. rows[w] \in Row /\ seen[w] \in Row /\ count_[w] \in 0..MaxAttempts
    BY DEF RowInv, TypeInv, TypeOK
  <2> QED BY <2>1 DEF Row
<1>6. ASSUME NEW w \in Workers, Start(w) \/ QueryMiss(w) \/ QueryHit(w) \/ InsertConflict(w)
      PROVE  Goal
  <2>1. PICK l \in {"query", "insert", "failed", "retry"} : pc' = [pc EXCEPT ![w] = l]
    BY <1>4, <1>6 DEF Start, QueryMiss, QueryHit, InsertConflict, Goto
  <2>2. pc[w] \in {"idle", "query", "insert"} /\ UNCHANGED <<rows, count_, seen>>
    BY <1>6 DEF Start, QueryMiss, QueryHit, InsertConflict
  <2>3. count_[w] = 0
    BY <1>4, <2>2 DEF Passed
  <2>4. l \in PCs /\ l # "write" /\ l # "exhausted"
    BY <2>1 DEF PCs
  <2>5. count_' = count_ /\ seen' = seen /\ rows' = rows /\ ~(count_'[w] > 0)
    BY <2>2, <2>3
  <2> QED BY <1>4, <2>1, <2>3, <2>4, <2>5, EarnedQuiet
<1>7. ASSUME NEW w \in Workers, RetryRead(w) PROVE Goal
  <2>1. PICK r \in Live : /\ seen' = [seen EXCEPT ![w] = rows[r]]
                          /\ Goto(w, IF rows[r].version = NoVersion THEN "failed" ELSE "write")
    BY <1>7 DEF RetryRead
  <2>2. PICK l \in {"failed", "write"} :
            pc' = [pc EXCEPT ![w] = l] /\ (l = "write" => rows[r].version # NoVersion)
    BY <2>1 DEF Goto
  <2>3. pc[w] = "retry" /\ UNCHANGED <<rows, count_>>
    BY <1>7 DEF RetryRead
  <2>4. l = "write" => rows[r].version >= count_[w]
    <3>1. rows[r].version \in Version /\ count_[w] \in Nat
      BY <1>5, ConstantsAssumption, <2>1 DEF Live
    <3>2. count_[w] > 0 => rows[r].version >= count_[w]
      BY <1>4, <2>1, <2>3 DEF OneRow, Passed
    <3> QED BY <2>2, <3>1, <3>2 DEF Version, NoVersion
  <2>5. seen'[w] = rows[r] /\ \A x \in Workers \ {w} : seen'[x] = seen[x]
    BY <2>1 DEF RowInv, TypeInv, TypeOK
  <2> QED BY <1>4, <2>2, <2>3, <2>4, <2>5, EarnedQuiet DEF PCs
<1>8. ASSUME NEW w \in Workers, LockConflict(w) PROVE Goal
  <2> DEFINE r == target[w]
  <2>1. /\ pc[w] = "write" /\ rows[r].version # seen[w].version
        /\ UNCHANGED <<rows, seen>>
    BY <1>4, <1>8 DEF LockConflict, Conflict
  <2>2. r \in Live /\ r \in Workers
    BY <1>4, <2>1 DEF OnLiveRows, Holding, Live, RowInv, TypeInv
  <2>3. rows[r].version >= count_[w] + 1
    <3>1. seen[w].version <= rows[r].version /\ seen[w].version >= count_[w]
      BY <1>4, <2>1 DEF HeldIsPrefix, Passed
    <3> QED BY <1>5, <2>1, <2>2, <3>1, ConstantsAssumption DEF Version, NoVersion
  <2>4. CASE count_[w] < MaxAttempts /\ count_' = [count_ EXCEPT ![w] = @ + 1] /\ Goto(w, "retry")
    <3>1. count_'[w] = count_[w] + 1 /\ \A x \in Workers \ {w} : count_'[x] = count_[x]
      BY <2>4 DEF RowInv, TypeInv, TypeOK
    <3>2. \E q \in Live : rows[q].version >= count_'[w]
      BY <2>2, <2>3, <3>1
    <3>3. pc' = [pc EXCEPT ![w] = "retry"] /\ "retry" \in PCs
      BY <2>4 DEF Goto, PCs
    <3> QED BY <1>4, <2>1, <3>1, <3>2, <3>3, EarnedQuiet
  <2>5. CASE count_[w] >= MaxAttempts /\ count_' = count_ /\ Goto(w, "exhausted")
    <3>1. rows[r].version > MaxAttempts
      BY <1>5, <2>2, <2>3, <2>5, ConstantsAssumption DEF Version, NoVersion
    <3> QED BY <1>4, <2>1, <2>2, <2>5, <3>1, EarnedQuiet DEF PCs, Goto
  <2> QED BY <1>8, <2>4, <2>5 DEF LockConflict, Conflict
<1>9. ASSUME NEW w \in Workers, Insert(w) PROVE Goal
  <2>1. Live = {} /\ rows[w].live = FALSE
    BY <1>4, <1>9 DEF Insert, Live, RowInv, TypeInv, TypeOK, Row
  <2>2. /\ pc'[w] = "done" /\ \A x \in Workers \ {w} : pc'[x] = pc[x]
        /\ UNCHANGED <<count_, seen>>
        /\ \A q \in Workers \ {w} : rows'[q] = rows[q]
    BY <1>9 DEF Insert, Done, Goto, RowInv, TypeInv, TypeOK
  <2>3. OneRow'
    BY <2>1, <2>2 DEF OneRow, Live
  <2> QED BY <1>4, <2>1, <2>2, <2>3 DEF Passed
<1>10. ASSUME NEW w \in Workers, WriteWithVersion(w) PROVE Goal
  <2> DEFINE r == target[w]
  <2>1. /\ pc[w] = "write" /\ rows[r].version = seen[w].version
        /\ UNCHANGED <<count_, seen>>
        /\ pc'[w] = "done" /\ \A x \in Workers \ {w} : pc'[x] = pc[x]
        /\ trigger'[w].type = "update" /\ trigger'[w].old = seen[w] /\ target' = target
    BY <1>4, <1>10 DEF WriteWithVersion, Done, Goto, RowInv, TypeInv, TypeOK
  <2>2. r \in Live /\ r \in Workers
    BY <1>4, <2>1 DEF OnLiveRows, Holding, Live, RowInv, TypeInv
  <2>3. \A q \in Workers \ {r} : rows'[q] = rows[q]
    BY <1>10 DEF WriteWithVersion, RowInv, TypeInv, TypeOK
  <2>4. r \in Live' /\ rows[r].version < rows'[r].version
    <3>1. Updated(w)' /\ Unforked' /\ OnLiveRows'
      BY <1>3, <2>1 DEF Updated, RowInv, OrderInv, CountInv, Versioned
    <3>2. rows'[r].live
      BY <2>1, <2>2, <3>1 DEF OnLiveRows, Home
    <3>3. seen[w].version < rows'[r].version
      BY <2>1, <3>1 DEF Unforked
    <3> QED BY <2>1, <2>2, <3>2, <3>3 DEF Live
  <2>5. \A q \in Workers : rows'[q].version \in Version
    <3> SUFFICES ASSUME NEW q \in Workers PROVE rows'[q].version \in Version
      OBVIOUS
    <3>1. rows'[q] \in Row
      BY DEF RowInv, TypeInv, TypeOK
    <3> QED BY <3>1 DEF Row
  <2>6. \A q \in Live : q = r
    BY <1>4, <2>2 DEF OneRow
  <2>7. OneRow'
    BY <2>2, <2>3, <2>6 DEF OneRow, Live
  <2>8. ASSUME NEW x \in Workers \ {w}
        PROVE  /\ pc[x] \in {"idle", "query", "insert"} => count_[x] = 0
               /\ pc[x] = "retry" /\ count_[x] > 0 => \E q \in Live' : rows'[q].version >= count_[x]
               /\ pc[x] = "write" => seen[x].version >= count_[x]
               /\ pc[x] = "exhausted" => \E q \in Live' : rows'[q].version > MaxAttempts
    <3>1. pc[x] = "retry" /\ count_[x] > 0 => rows'[r].version >= count_[x]
      <4>1. pc[x] = "retry" /\ count_[x] > 0 => rows[r].version >= count_[x]
        BY <1>4, <2>6 DEF Passed
      <4> QED BY <1>5, <2>2, <2>4, <2>5, <4>1, ConstantsAssumption DEF Version, NoVersion
    <3>2. pc[x] = "exhausted" => rows'[r].version > MaxAttempts
      <4>1. pc[x] = "exhausted" => rows[r].version > MaxAttempts
        BY <1>4, <2>6 DEF Passed
      <4> QED BY <1>5, <2>2, <2>4, <2>5, <4>1, ConstantsAssumption DEF Version, NoVersion
    <3> QED BY <1>4, <2>4, <3>1, <3>2 DEF Passed
  <2> QED BY <2>1, <2>7, <2>8 DEF Passed
<1>11. ASSUME NEW w \in Workers, FindOld(w) \/ UpdateOne(w) PROVE Goal
  BY <1>4, <1>11 DEF Reached, FindOld, UpdateOne
<1>12. CASE PatchRead \/ UNCHANGED vars
  <2>1. UNCHANGED <<rows, pc, seen, count_>>
    BY <1>12 DEF PatchRead, vars
  <2> QED BY <1>4, <2>1 DEF OneRow, Passed, Live
<1>13. CASE PatchWrite
  BY <1>3, <1>13 DEF PatchWrite, Versioned
<1> QED
  BY <1>6, <1>7, <1>8, <1>9, <1>10, <1>11, <1>12, <1>13 DEF Next, Work

\* A run gives up only when the one row of a unique index has been updated more than
\* MaxAttempts times: each of its conflicts was another run's update (retry_template).
THEOREM ExhaustionIsAlwaysEarned == Spec => []ExhaustionIsEarned
<1>1. Init => EarnedInv
  BY ConstantsAssumption DEF Init, EarnedInv, OneRow, Passed, Live, EmptyRow
<1>2. Spec => []EarnedInv
  BY <1>1, EarnedStep, RowInvHolds, PTL DEF Spec
<1>3. EarnedInv => ExhaustionIsEarned
  BY DEF EarnedInv, Passed, ExhaustionIsEarned
<1> QED BY <1>2, <1>3, PTL

-----------------------------------------------------------------------------
(* Versions count updates.                                                 *)

Updaters(r) == {w \in Workers : Updated(w) /\ target[w] = r}
UpdatersInv ==
    Versioned =>
        \A r \in Live : IsFiniteSet(Updaters(r)) /\ rows[r].version = Cardinality(Updaters(r))

LEMMA UpdatersStep == RowInv /\ UpdatersInv /\ [Next]_vars => UpdatersInv'
<1> SUFFICES ASSUME RowInv, UpdatersInv, [Next]_vars, Versioned', NEW r \in Workers, rows'[r].live
             PROVE  IsFiniteSet(Updaters(r)') /\ rows'[r].version = Cardinality(Updaters(r)')
  BY DEF UpdatersInv, Live, Updaters
<1> DEFINE Goal == IsFiniteSet(Updaters(r)') /\ rows'[r].version = Cardinality(Updaters(r)')
           Kept == Updaters(r)' = Updaters(r) /\ rows'[r] = rows[r]
<1>1. deployment' = deployment
  BY DEF Next, Work, vars, Start, QueryMiss, QueryHit, Insert, InsertConflict, RetryRead,
         WriteWithVersion, LockConflict, Conflict, FindOld, UpdateOne, PatchRead, PatchWrite
<1>2. patches' = patches \/ (PatchWrite /\ patches' = patches + 1)
  BY DEF Next, Work, vars, Start, QueryMiss, QueryHit, Insert, InsertConflict, RetryRead,
         WriteWithVersion, LockConflict, Conflict, FindOld, UpdateOne, PatchRead, PatchWrite
<1>3. patches \in Nat /\ patches = 0
  BY <1>2, ConstantsAssumption DEF RowInv, TypeInv, TypeOK, Versioned
<1>4. /\ Versioned /\ deployment.aggregate /\ ChecksVersion /\ InsertVersion = 0
      /\ OnLiveRows /\ Reached
  BY <1>1, <1>3 DEF Versioned, RowInv, OrderInv, CountInv, ChecksVersion, InsertVersion
<1>5. ASSUME Kept PROVE Goal
  BY <1>4, <1>5 DEF UpdatersInv, Live
<1>6. ASSUME NEW w \in Workers, NEW l \in PCs \ {"done"}, pc[w] # "done", pc' = [pc EXCEPT ![w] = l],
             \A x \in Workers \ {w} : target'[x] = target[x], UNCHANGED <<rows, trigger>>
      PROVE  Goal
  <2>1. \A x \in Workers : Updated(x)' <=> Updated(x)
    BY <1>6 DEF Updated, RowInv, TypeInv, TypeOK
  <2>2. \A x \in Workers : Updated(x) => x # w
    BY <1>6 DEF Updated
  <2>3. Updaters(r)' = Updaters(r)
    BY <1>6, <2>1, <2>2 DEF Updaters
  <2> QED BY <1>5, <1>6, <2>3
<1>7. ASSUME NEW w \in Workers,
             Start(w) \/ QueryMiss(w) \/ QueryHit(w) \/ InsertConflict(w) \/ RetryRead(w) \/ LockConflict(w)
      PROVE  Goal
  <2> DEFINE Goes(l) == pc' = [pc EXCEPT ![w] = l]
  <2>1. PICK l \in {"query", "insert", "failed", "find_old", "retry", "write", "exhausted"} : Goes(l)
    <3>1. Start(w) => Goes("query")
      BY DEF Start, Goto
    <3>2. QueryMiss(w) => Goes("insert") \/ Goes("failed")
      BY DEF QueryMiss, Goto
    <3>3. QueryHit(w) => Goes("retry") \/ Goes("failed") \/ Goes("find_old")
      BY DEF QueryHit, Goto
    <3>4. InsertConflict(w) => Goes("retry") \/ Goes("failed")
      BY DEF InsertConflict, Goto
    <3>5. RetryRead(w) => Goes("failed") \/ Goes("write")
      BY DEF RetryRead, Goto
    <3>6. LockConflict(w) => Goes("retry") \/ Goes("exhausted")
      BY DEF LockConflict, Conflict, Goto
    <3> HIDE DEF Goes
    <3> QED BY <1>7, <3>1, <3>2, <3>3, <3>4, <3>5, <3>6
  <2>2. /\ pc[w] # "done" /\ UNCHANGED <<rows, trigger>>
        /\ \A x \in Workers \ {w} : target'[x] = target[x]
    BY <1>7 DEF Start, QueryMiss, QueryHit, InsertConflict, RetryRead, LockConflict, Conflict,
                RowInv, TypeInv, TypeOK
  <2>3. l \in PCs \ {"done"}
    BY DEF PCs
  <2> QED BY <1>6, <2>1, <2>2, <2>3
<1>8. ASSUME NEW w \in Workers, Insert(w) PROVE Goal
  <2>1. pc[w] = "insert" /\ ~rows[w].live
    BY <1>4, <1>8 DEF Insert, OnLiveRows
  <2>2. /\ rows'[w].version = 0 /\ \A q \in Workers \ {w} : rows'[q] = rows[q]
        /\ target' = target
    BY <1>4, <1>8 DEF Insert, RowInv, TypeInv, TypeOK
  <2>3. \A x \in Workers : (Updated(x)' <=> Updated(x))
    BY <1>8, <2>1 DEF Insert, Done, Goto, Updated, RowInv, TypeInv, TypeOK
  <2>4. Updaters(r)' = Updaters(r)
    BY <2>2, <2>3 DEF Updaters
  <2>5. CASE r = w
    <3>1. Updaters(w) = {}
      BY <1>4, <2>1 DEF Updaters, Updated, OnLiveRows, Home
    <3> QED BY <2>2, <2>4, <2>5, <3>1, FS_EmptySet
  <2>6. CASE r # w
    BY <1>5, <2>2, <2>4, <2>6
  <2> QED BY <2>5, <2>6
<1>9. ASSUME NEW w \in Workers, WriteWithVersion(w) PROVE Goal
  <2> DEFINE v == seen[w].version
  <2>1. /\ pc[w] = "write" /\ rows[target[w]].version = v /\ target[w] \in Workers
        /\ rows[target[w]].live /\ target' = target
    BY <1>4, <1>9 DEF WriteWithVersion, Holding, OnLiveRows, RowInv, TypeInv
  <2>2. rows'[target[w]].version = v + 1 /\ \A q \in Workers \ {target[w]} : rows'[q] = rows[q]
    BY <1>9, <2>1 DEF WriteWithVersion, SetVersion, Accumulate, RowInv, TypeInv, TypeOK, Row
  <2>3. Updated(w)' /\ ~Updated(w) /\ \A x \in Workers \ {w} : Updated(x)' <=> Updated(x)
    BY <1>9, <2>1 DEF WriteWithVersion, Done, Goto, Updated, RowInv, TypeInv, TypeOK
  <2>4. CASE r = target[w]
    <3>1. Updaters(r)' = Updaters(r) \cup {w} /\ w \notin Updaters(r)
      BY <2>1, <2>3, <2>4 DEF Updaters
    <3>2. IsFiniteSet(Updaters(r)) /\ v = Cardinality(Updaters(r))
      BY <1>4, <2>1, <2>4 DEF UpdatersInv, Live
    <3> QED BY <2>2, <2>4, <3>1, <3>2, FS_AddElement
  <2>5. CASE r # target[w]
    <3>1. Updaters(r)' = Updaters(r)
      BY <2>1, <2>3, <2>5 DEF Updaters
    <3> QED BY <1>5, <2>2, <2>5, <3>1
  <2> QED BY <2>4, <2>5
<1>10. ASSUME NEW w \in Workers, FindOld(w) \/ UpdateOne(w) PROVE Goal
  BY <1>4, <1>10 DEF Reached, FindOld, UpdateOne
<1>11. CASE PatchRead \/ UNCHANGED vars
  <2>1. UNCHANGED <<rows, pc, target, trigger>>
    BY <1>11 DEF PatchRead, vars
  <2> QED BY <1>5, <2>1 DEF Updaters, Updated
<1>12. CASE PatchWrite
  BY <1>3, <1>12 DEF PatchWrite, Versioned
<1> QED
  BY <1>7, <1>8, <1>9, <1>10, <1>11, <1>12 DEF Next, Work

\* The version of a row is the number of updates it has absorbed, however many there are.
THEOREM VersionsCountUpdates == Spec => []VersionCountsUpdates
<1>1. Init => UpdatersInv
  BY DEF Init, UpdatersInv, Live, EmptyRow
<1>2. Spec => []UpdatersInv
  BY <1>1, UpdatersStep, RowInvHolds, PTL DEF Spec
<1>3. UpdatersInv => VersionCountsUpdates
  BY DEF UpdatersInv, Updaters, VersionCountsUpdates
<1> QED BY <1>2, <1>3, PTL

-----------------------------------------------------------------------------
(* Insert-or-merge-row ends well or runs out of retries.                   *)

\* Where inserts leave a version every row and every copy of a row has one.
Carries == deployment.aggregate /\ (deployment.store = "sql" \/ deployment.engine = "mongo")
CarriesInv ==
    Carries =>
        /\ \A r \in Live : rows[r].version # NoVersion
        /\ copy.row # None => copy.data.version # NoVersion
        /\ \A w \in Workers :
               /\ pc[w] \notin {"find_old", "update_one"}
               /\ kind[w] = "insert-or-merge-row" => pc[w] # "failed"

LEMMA CarriesStep == TypeInv /\ CarriesInv /\ [Next]_vars => CarriesInv'
<1> SUFFICES ASSUME TypeInv, CarriesInv, [Next]_vars, Carries'
             PROVE  /\ \A r \in Workers : rows'[r].live => rows'[r].version # NoVersion
                    /\ copy'.row # None => copy'.data.version # NoVersion
                    /\ \A w \in Workers :
                           /\ pc'[w] \notin {"find_old", "update_one"}
                           /\ kind'[w] = "insert-or-merge-row" => pc'[w] # "failed"
  BY DEF CarriesInv, Live
<1> DEFINE Goal == /\ \A r \in Workers : rows'[r].live => rows'[r].version # NoVersion
                   /\ copy'.row # None => copy'.data.version # NoVersion
                   /\ \A w \in Workers :
                          /\ pc'[w] \notin {"find_old", "update_one"}
                          /\ kind'[w] = "insert-or-merge-row" => pc'[w] # "failed"
<1>1. deployment' = deployment
  BY DEF Next, Work, vars, Start, QueryMiss, QueryHit, Insert, InsertConflict, RetryRead,
         WriteWithVersion, LockConflict, Conflict, FindOld, UpdateOne, PatchRead, PatchWrite
<1>2. /\ Carries /\ deployment.aggregate /\ InsertVersion = 0
      /\ \A r \in Workers : rows[r].live => rows[r].version # NoVersion
      /\ copy.row # None => copy.data.version # NoVersion
      /\ \A w \in Workers : /\ pc[w] \notin {"find_old", "update_one"}
                            /\ kind[w] = "insert-or-merge-row" => pc[w] # "failed"
  BY <1>1 DEF Carries, CarriesInv, InsertVersion, Live
<1>3. \A w \in Workers : rows[w] \in Row /\ seen[w] \in Row
  BY DEF TypeInv, TypeOK
<1>4. ASSUME NEW w \in Workers, NEW l \in {"query", "insert", "retry", "write", "exhausted", "done", "failed"},
             pc' = [pc EXCEPT ![w] = l],
             l = "failed" => kind'[w] # "insert-or-merge-row",
             \A x \in Workers \ {w} : kind'[x] = kind[x],
             copy' = copy,
             \A r \in Workers : rows'[r] = rows[r] \/ rows'[r].version # NoVersion
      PROVE  Goal
  BY <1>2, <1>4 DEF TypeInv, TypeOK
<1>5. ASSUME NEW w \in Workers, Start(w) \/ QueryHit(w) \/ InsertConflict(w) \/ LockConflict(w) PROVE Goal
  <2>1. PICK l \in {"query", "retry", "exhausted"} : pc' = [pc EXCEPT ![w] = l]
    BY <1>2, <1>5 DEF Start, QueryHit, InsertConflict, LockConflict, Conflict, Goto
  <2>2. rows' = rows /\ copy' = copy /\ \A x \in Workers \ {w} : kind'[x] = kind[x]
    BY <1>5 DEF Start, QueryHit, InsertConflict, LockConflict, Conflict, TypeInv, TypeOK
  <2> QED BY <1>4, <2>1, <2>2
<1>6. ASSUME NEW w \in Workers, QueryMiss(w) PROVE Goal
  <2>1. /\ pc' = [pc EXCEPT ![w] = IF kind[w] = "insert-or-merge-row" THEN "insert" ELSE "failed"]
        /\ UNCHANGED <<rows, copy, kind>>
    BY <1>6 DEF QueryMiss, Goto
  <2> QED BY <1>4, <2>1
<1>7. ASSUME NEW w \in Workers, Insert(w) PROVE Goal
  <2>1. pc' = [pc EXCEPT ![w] = "done"] /\ UNCHANGED <<copy, kind>>
    BY <1>7 DEF Insert, Done, Goto
  <2>2. rows'[w].version = 0 /\ \A r \in Workers \ {w} : rows'[r] = rows[r]
    BY <1>2, <1>7 DEF Insert, TypeInv, TypeOK
  <2>3. \A r \in Workers : rows'[r] = rows[r] \/ rows'[r].version # NoVersion
    BY <2>2 DEF NoVersion
  <2> QED BY <1>4, <2>1, <2>3
<1>8. ASSUME NEW w \in Workers, RetryRead(w) PROVE Goal
  <2>1. pc' = [pc EXCEPT ![w] = "write"] /\ UNCHANGED <<rows, copy, kind>>
    BY <1>2, <1>8 DEF RetryRead, Goto, Live
  <2> QED BY <1>4, <2>1
<1>9. ASSUME NEW w \in Workers, WriteWithVersion(w) PROVE Goal
  <2>1. pc' = [pc EXCEPT ![w] = "done"] /\ UNCHANGED <<copy, kind>>
    BY <1>9 DEF WriteWithVersion, Done, Goto
  <2>2. target[w] \in Workers
    BY <1>9 DEF WriteWithVersion, Holding, TypeInv
  <2>3. rows'[target[w]].version = seen[w].version + 1 /\ \A r \in Workers \ {target[w]} : rows'[r] = rows[r]
    BY <1>9, <2>2 DEF WriteWithVersion, SetVersion, Accumulate, TypeInv, TypeOK, Row
  <2>4. \A r \in Workers : rows'[r] = rows[r] \/ rows'[r].version # NoVersion
    <3>1. seen[w].version \in Version
      BY <1>3 DEF Row
    <3> QED BY <2>2, <2>3, <3>1 DEF Version, NoVersion
  <2> QED BY <1>4, <2>1, <2>4
<1>10. ASSUME NEW w \in Workers, FindOld(w) \/ UpdateOne(w) PROVE Goal
  BY <1>2, <1>10 DEF FindOld, UpdateOne
<1>11. CASE PatchRead
  BY <1>2, <1>11 DEF PatchRead, Live
<1>12. CASE PatchWrite
  <2>1. copy.row \in Workers /\ copy.data \in Row /\ copy.data.version # NoVersion
    BY <1>2, <1>12 DEF PatchWrite, TypeInv, TypeOK
  <2>2. copy.data.version \in Version
    BY <2>1 DEF Row
  <2>3. /\ rows'[copy.row].version = copy.data.version + 1
        /\ \A r \in Workers \ {copy.row} : rows'[r] = rows[r]
        /\ copy'.row = None /\ UNCHANGED <<pc, kind>>
    BY <1>12, <2>1 DEF PatchWrite, SetVersion, TypeInv, TypeOK, Row
  <2> QED BY <1>2, <2>1, <2>2, <2>3 DEF Version, NoVersion
<1>13. CASE UNCHANGED vars
  BY <1>2, <1>13 DEF vars
<1> QED
  BY <1>5, <1>6, <1>7, <1>8, <1>9, <1>10, <1>11, <1>12, <1>13 DEF Next, Work

\* On aggregate topics whose rows carry versions neither a lost race to insert nor a row
\* that appears after the query makes insert-or-merge-row fail, patches or not.
THEOREM InsertOrMergeDoesNotFail == Spec => []InsertOrMergeNeverFails
<1>1. Init => CarriesInv
  BY DEF Init, CarriesInv, Live, EmptyRow
<1>2. Spec => []TypeInv
  BY TypeInit, TypeStep, PTL DEF Spec
<1>3. Spec => []CarriesInv
  BY <1>1, <1>2, CarriesStep, PTL DEF Spec
<1>4. CarriesInv => InsertOrMergeNeverFails
  BY DEF CarriesInv, Carries, InsertOrMergeNeverFails
<1> QED BY <1>3, <1>4, PTL

-----------------------------------------------------------------------------
(* The refinement of AtomicContribution.                                   *)

\* A step moves at most one run, which had not ended.
LEMMA OneRunMoves ==
  ASSUME TypeInv, [Next]_vars
  PROVE  \/ pc' = pc
         \/ \E w \in Workers, l \in PCs : ~Ended(w) /\ pc' = [pc EXCEPT ![w] = l]
<1> DEFINE Moves(w, l) == ~Ended(w) /\ pc' = [pc EXCEPT ![w] = l]
<1>1. ASSUME NEW w \in Workers, Start(w) \/ Work(w)
      PROVE  \E l \in {"query", "insert", "failed", "find_old", "retry", "write", "exhausted",
                       "done", "update_one"} : Moves(w, l)
  <2>1. Start(w) => Moves(w, "query")
    BY DEF Start, Goto, Ended
  <2>2. QueryMiss(w) => Moves(w, "insert") \/ Moves(w, "failed")
    BY DEF QueryMiss, Goto, Ended
  <2>3. QueryHit(w) => Moves(w, "retry") \/ Moves(w, "failed") \/ Moves(w, "find_old")
    BY DEF QueryHit, Goto, Ended
  <2>4. InsertConflict(w) => Moves(w, "retry") \/ Moves(w, "failed")
    BY DEF InsertConflict, Goto, Ended
  <2>5. RetryRead(w) => Moves(w, "failed") \/ Moves(w, "write")
    BY DEF RetryRead, Goto, Ended
  <2>6. LockConflict(w) => Moves(w, "retry") \/ Moves(w, "exhausted")
    BY DEF LockConflict, Conflict, Goto, Ended
  <2>7. Insert(w) \/ WriteWithVersion(w) \/ UpdateOne(w) => Moves(w, "done")
    BY DEF Insert, WriteWithVersion, UpdateOne, Done, Goto, Ended
  <2>8. FindOld(w) => Moves(w, "update_one")
    BY DEF FindOld, Goto, Ended
  <2> HIDE DEF Moves
  <2> QED BY <1>1, <2>1, <2>2, <2>3, <2>4, <2>5, <2>6, <2>7, <2>8 DEF Work
<1>2. PatchRead \/ PatchWrite \/ UNCHANGED vars => pc' = pc
  BY DEF PatchRead, PatchWrite, vars
<1> QED BY <1>1, <1>2 DEF Next, PCs

\* What the abstract contribution counts.
LEMMA HowOftenIs ==
  ASSUME patches = 0, ExactlyOnce, NEW w \in Workers
  PROVE  HowOften(w) = IF pc[w] = "done" THEN 1 ELSE 0
BY DEF ExactlyOnce, HowOften, CountedOnce, CountedNever

\* Where no client patches, the calls to the store that make up an action run amount to
\* one atomic contribution or to none, for any number of runs, retries and deployments.
THEOREM CallsRefineAtomic == ASSUME MaxPatches = 0 PROVE Spec => RefinesAtomic
<1> DEFINE status == [w \in Workers |-> StatusOf(pc[w])]
           counted == [w \in Workers |-> HowOften(w)]
<1>1. Init => Atomic!Init
  <2> SUFFICES ASSUME Init PROVE status = [w \in Workers |-> "pending"] /\ counted = [w \in Workers |-> 0]
    BY DEF Atomic!Init
  <2>1. \A w \in Workers : CountedNever(w) /\ pc[w] = "idle"
    BY DEF Init, EmptyRow, NoCounts, CountedNever
  <2> QED BY <2>1 DEF StatusOf, HowOften
<1>2. TypeInv /\ CountInv /\ TypeInv' /\ CountInv' /\ [Next]_vars
          => [Atomic!Next]_<<status, counted>>
  <2> SUFFICES ASSUME TypeInv, CountInv, TypeInv', CountInv', [Next]_vars
               PROVE  Atomic!Next \/ UNCHANGED <<status, counted>>
    OBVIOUS
  <2>1. patches = 0 /\ patches' = 0
    BY ConstantsAssumption DEF TypeInv, TypeOK
  <2>2. ExactlyOnce /\ ExactlyOnce'
    BY CountedIsExact, PTL
  <2>3. counted = [w \in Workers |-> IF pc[w] = "done" THEN 1 ELSE 0]
    BY <2>1, <2>2, HowOftenIs
  <2>4. counted' = [w \in Workers |-> IF pc'[w] = "done" THEN 1 ELSE 0]
    BY <2>1, <2>2 DEF ExactlyOnce, HowOften, CountedOnce, CountedNever
  <2>5. status' = [w \in Workers |-> StatusOf(pc'[w])]
    BY DEF StatusOf
  <2>6. CASE pc' = pc
    BY <2>3, <2>4, <2>5, <2>6
  <2>7. ASSUME NEW w \in Workers, NEW l \in PCs, ~Ended(w), pc' = [pc EXCEPT ![w] = l]
        PROVE  Atomic!Next \/ UNCHANGED <<status, counted>>
    <3>1. /\ pc'[w] = l /\ \A x \in Workers \ {w} : pc'[x] = pc[x]
          /\ status[w] = "pending" /\ pc[w] # "done"
      BY <2>7 DEF TypeInv, TypeOK, StatusOf, Ended
    <3>2. CASE l = "done"
      <4>1. status' = [status EXCEPT ![w] = "applied"]
        BY <2>5, <3>1, <3>2 DEF StatusOf
      <4>2. counted' = [counted EXCEPT ![w] = @ + 1]
        <5> HIDE DEF counted
        <5> QED BY <2>3, <2>4, <3>1, <3>2
      <4> HIDE DEF status, counted
      <4> QED BY <3>1, <4>1, <4>2 DEF Atomic!Next, Atomic!Apply, status, counted
    <3>3. CASE l \in {"failed", "exhausted"}
      <4>1. status' = [status EXCEPT ![w] = "rejected"]
        BY <2>5, <3>1, <3>3 DEF StatusOf
      <4>2. counted' = counted
        BY <2>3, <2>4, <3>1, <3>3
      <4> QED BY <3>1, <4>1, <4>2 DEF Atomic!Next, Atomic!GiveUp
    <3>4. CASE l \notin {"done", "failed", "exhausted"}
      <4>1. status' = status
        BY <2>5, <2>7, <3>1, <3>4 DEF StatusOf, Ended
      <4>2. counted' = counted
        BY <2>3, <2>4, <3>1, <3>4
      <4> QED BY <4>1, <4>2
    <3> QED BY <3>2, <3>3, <3>4
  <2> QED BY <2>6, <2>7, OneRunMoves
<1>3. Spec => []TypeInv
  BY TypeInit, TypeStep, PTL DEF Spec
<1>4. Spec => []CountInv
  BY <1>3, CountInit, CountStep, PTL DEF Spec
<1> QED BY <1>1, <1>2, <1>3, <1>4, PTL DEF Spec, RefinesAtomic, Atomic!Spec

=============================================================================
