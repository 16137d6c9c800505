--------------------------- MODULE TopicRow_proofs ---------------------------
(***************************************************************************)
(* Proofs about TopicRow, for any set of action runs, any retry limit and  *)
(* any deployment.                                                         *)
(***************************************************************************)
EXTENDS TopicRow, FiniteSetTheorems, TLAPS

-----------------------------------------------------------------------------
(* Type correctness.                                                       *)

LEMMA EmptyRowType == EmptyRow \in Row /\ NoTrigger \in Trigger
  BY DEF EmptyRow, NoTrigger, Row, Trigger, Version, NoVersion, NoCounts

\* Adding a contribution yields a row, with that one count changed.
LEMMA AccumulateRow ==
  ASSUME NEW w \in Workers, NEW read \in Row, NEW now \in Row
  PROVE  /\ Accumulate(w, read, now) \in Row
         /\ Accumulate(w, read, now).live = now.live
         /\ Accumulate(w, read, now).version = now.version
         /\ \A x \in Workers : Accumulate(w, read, now).counts[x] =
                IF x = w THEN now.counts[x] + 1 ELSE now.counts[x]
  BY DEF Accumulate, Row

\* So does setting its version.
LEMMA SetVersionRow ==
  ASSUME NEW row \in Row, NEW v \in Version
  PROVE  /\ SetVersion(row, v) \in Row
         /\ SetVersion(row, v).live = row.live
         /\ SetVersion(row, v).version = v
         /\ SetVersion(row, v).counts = row.counts
  BY DEF SetVersion, Row

\* TypeOK is not inductive alone: a run about to read or write by id must have
\* found a row, and a client holding a copy has a patch left.
Holding == {"write", "find_old", "update_one"}
TypeInv ==
    /\ TypeOK
    /\ \A w \in Workers : pc[w] \in Holding => target[w] \in Workers
    /\ copy.row # None => patches < MaxPatches

LEMMA TypeInit == Init => TypeInv
  BY ConstantsAssumption, EmptyRowType
     DEF Init, TypeInv, TypeOK, PCs, Kinds, Holding

LEMMA TypeStep == TypeInv /\ [Next]_vars => TypeInv'
<1> SUFFICES ASSUME TypeInv, [Next]_vars PROVE TypeInv'
  OBVIOUS
<1> USE DEF TypeInv, TypeOK, PCs, Holding, Goto, Done
<1>1. ASSUME NEW w \in Workers, Start(w) PROVE TypeInv'
  BY <1>1 DEF Start
<1>2. ASSUME NEW w \in Workers, QueryMiss(w) PROVE TypeInv'
  BY <1>2 DEF QueryMiss
<1>3. ASSUME NEW w \in Workers, QueryHit(w) PROVE TypeInv'
  BY <1>3 DEF QueryHit, Live
<1>4. ASSUME NEW w \in Workers, Insert(w) PROVE TypeInv'
  <2> DEFINE new == [live |-> TRUE, version |-> InsertVersion,
                     counts |-> [NoCounts EXCEPT ![w] = 1]]
  <2>1. InsertVersion \in Version /\ [NoCounts EXCEPT ![w] = 1] \in [Workers -> Nat]
    BY DEF InsertVersion, Version, NoCounts, NoVersion
  <2>2. new \in Row
    BY <2>1 DEF Row
  <2>3. [type |-> "insert", old |-> EmptyRow] \in Trigger
    BY EmptyRowType DEF Trigger
  <2>4. rows' = [rows EXCEPT ![w] = new]
    BY <1>4 DEF Insert
  <2> HIDE DEF new
  <2>5. rows' \in [Workers -> Row]
    BY <2>2, <2>4
  <2>6. trigger' \in [Workers -> Trigger]
    BY <1>4, <2>3 DEF Insert
  <2>7. pc' = [pc EXCEPT ![w] = "done"]
    BY <1>4 DEF Insert
  <2>8. UNCHANGED <<deployment, kind, target, seen, count_, copy, patches>>
    BY <1>4 DEF Insert
  <2> QED BY <2>5, <2>6, <2>7, <2>8
<1>5. ASSUME NEW w \in Workers, InsertConflict(w) PROVE TypeInv'
  <2>1. PICK l \in {"retry", "failed"} : pc' = [pc EXCEPT ![w] = l]
    BY <1>5 DEF InsertConflict
  <2> QED BY <1>5, <2>1 DEF InsertConflict
<1>6. ASSUME NEW w \in Workers, RetryRead(w) PROVE TypeInv'
  BY <1>6 DEF RetryRead, Live
<1>7. ASSUME NEW w \in Workers, WriteWithVersion(w) PROVE TypeInv'
  <2>1. [type |-> "update", old |-> seen[w]] \in Trigger
    BY DEF Trigger
  <2>2. seen[w].version + 1 \in Version
    <3>1. seen[w].version \in Version
      BY DEF Row
    <3> QED BY <3>1 DEF Version, NoVersion
  <2>3. Accumulate(w, seen[w], rows[target[w]]) \in Row
    BY <1>7, AccumulateRow DEF WriteWithVersion
  <2>4. rows' \in [Workers -> Row]
    BY <1>7, <2>2, <2>3, SetVersionRow DEF WriteWithVersion
  <2> QED BY <1>7, <2>1, <2>4 DEF WriteWithVersion
<1>8. ASSUME NEW w \in Workers, LockConflict(w) PROVE TypeInv'
  BY <1>8, ConstantsAssumption DEF LockConflict, Conflict
<1>9. ASSUME NEW w \in Workers, FindOld(w) PROVE TypeInv'
  BY <1>9 DEF FindOld
<1>10. ASSUME NEW w \in Workers, UpdateOne(w) PROVE TypeInv'
  <2>1. [type |-> "update", old |-> seen[w]] \in Trigger
    BY DEF Trigger
  <2>2. rows' \in [Workers -> Row]
    BY <1>10, AccumulateRow DEF UpdateOne
  <2> QED BY <1>10, <2>1, <2>2 DEF UpdateOne
<1>11. CASE PatchRead
  BY <1>11 DEF PatchRead, Live
<1>12. CASE PatchWrite
  <2>1. copy.row \in Workers /\ copy.data \in Row /\ patches + 1 \in 0..MaxPatches
    BY <1>12, ConstantsAssumption DEF PatchWrite
  <2>2. (IF copy.data.version = NoVersion THEN copy.data.version
         ELSE copy.data.version + 1) \in Version
    BY <2>1 DEF Row, Version, NoVersion
  <2>3. rows' \in [Workers -> Row]
    BY <1>12, <2>1, <2>2, SetVersionRow DEF PatchWrite
  <2> QED BY <1>12, <2>1, <2>3, EmptyRowType, ConstantsAssumption DEF PatchWrite
<1>13. CASE UNCHANGED vars
  BY <1>13 DEF vars
<1> QED
  BY <1>1, <1>2, <1>3, <1>4, <1>5, <1>6, <1>7, <1>8, <1>9, <1>10, <1>11, <1>12, <1>13
     DEF Next, Work

\* The variables keep their types (the statuses, row contents and retry counts
\* the code can produce), patched or not.
THEOREM TypeCorrect == Spec => []TypeOK
<1>1. Spec => []TypeInv
  BY TypeInit, TypeStep, PTL DEF Spec
<1>2. TypeInv => TypeOK
  BY DEF TypeInv
<1> QED BY <1>1, <1>2, PTL

-----------------------------------------------------------------------------
(* Exactly-once accumulation.                                              *)

\* The row that holds the contribution of a run that ended well.
Home(w) == IF trigger[w].type = "insert" THEN w ELSE target[w]

\* ExactlyOnce says that a contribution is in one row; the induction needs to
\* know in which one, and that it is a row no later insert can overwrite.
Counted ==
    \A r, w \in Workers :
        rows[r].counts[w] = IF pc[w] = "done" /\ Home(w) = r THEN 1 ELSE 0
OnLiveRows ==
    /\ \A r \in Workers : rows[r].live => pc[r] = "done"
    /\ \A w \in Workers : pc[w] \in Holding => rows[target[w]].live
    /\ \A w \in Workers :
           pc[w] = "done" => Home(w) \in Workers /\ rows[Home(w)].live
CountInv == patches = 0 => Counted /\ OnLiveRows

LEMMA CountInit == Init => CountInv
  BY DEF Init, CountInv, Counted, OnLiveRows, Holding, EmptyRow, NoCounts

\* Steps of a run that store nothing keep the invariant: the run does not end
\* well, and what it holds, if anything, is a live row.
LEMMA CountQuiet ==
  ASSUME TypeInv, CountInv, NEW w \in Workers, NEW l \in PCs \ {"done"},
         pc[w] # "done", pc' = [pc EXCEPT ![w] = l],
         \A x \in Workers \ {w} : target'[x] = target[x],
         l \in Holding => rows[target'[w]].live,
         UNCHANGED <<rows, trigger, patches>>
  PROVE  CountInv'
  BY DEF TypeInv, TypeOK, CountInv, Counted, OnLiveRows, Home, PCs

\* Adding a contribution to a live row keeps the invariant.
LEMMA CountUpdate ==
  ASSUME TypeInv, CountInv, NEW w \in Workers, pc[w] \in Holding,
         rows' \in [Workers -> Row],
         \A r \in Workers \ {target[w]} : rows'[r] = rows[r],
         rows'[target[w]].live = rows[target[w]].live,
         \A x \in Workers : rows'[target[w]].counts[x] =
             IF x = w THEN rows[target[w]].counts[x] + 1
             ELSE rows[target[w]].counts[x],
         pc' = [pc EXCEPT ![w] = "done"],
         trigger'[w].type = "update",
         \A x \in Workers \ {w} : trigger'[x] = trigger[x],
         UNCHANGED <<target, patches>>
  PROVE  CountInv'
<1> SUFFICES ASSUME patches = 0 PROVE (Counted /\ OnLiveRows)'
  BY DEF CountInv
<1> USE DEF TypeInv, TypeOK, Home
<1>1. target[w] \in Workers /\ rows[target[w]].live /\ pc[w] # "done"
  BY DEF CountInv, OnLiveRows, Holding
<1>2. Home(w)' = target[w] /\ \A x \in Workers \ {w} : Home(x)' = Home(x)
  OBVIOUS
<1>3. OnLiveRows'
  <2>1. \A r \in Workers : rows'[r].live = rows[r].live
    OBVIOUS
  <2>2. \A x \in Workers : pc'[x] = IF x = w THEN "done" ELSE pc[x]
    OBVIOUS
  <2>3. OnLiveRows
    BY DEF CountInv
  <2>4. \A q \in Workers : rows'[q].live => pc'[q] = "done"
    BY <2>1, <2>2, <2>3 DEF OnLiveRows
  <2>5. \A x \in Workers : pc'[x] \in Holding => rows'[target'[x]].live
    BY <2>1, <2>2, <2>3 DEF OnLiveRows, Holding
  <2>6. \A x \in Workers :
            pc'[x] = "done" => Home(x)' \in Workers /\ rows'[Home(x)'].live
    <3> HIDE DEF Home
    <3> QED BY <1>1, <1>2, <2>1, <2>2, <2>3 DEF OnLiveRows
  <2> QED BY <2>4, <2>5, <2>6 DEF OnLiveRows
<1>4. ASSUME NEW r \in Workers, NEW x \in Workers
      PROVE  rows'[r].counts[x] = IF pc'[x] = "done" /\ Home(x)' = r THEN 1 ELSE 0
  <2>1. rows[r].counts[x] = IF pc[x] = "done" /\ Home(x) = r THEN 1 ELSE 0
    BY DEF CountInv, Counted
  <2>2. CASE x = w
    BY <1>1, <1>2, <2>1, <2>2
  <2>3. CASE x # w
    BY <1>1, <1>2, <2>1, <2>3
  <2> QED BY <2>2, <2>3
<1> QED BY <1>3, <1>4 DEF Counted

LEMMA CountStep == TypeInv /\ CountInv /\ [Next]_vars => CountInv'
<1> SUFFICES ASSUME TypeInv, CountInv, [Next]_vars PROVE CountInv'
  OBVIOUS
<1>1. ASSUME NEW w \in Workers, Start(w) PROVE CountInv'
  BY <1>1, CountQuiet DEF Start, Goto, PCs, Holding
<1>2. ASSUME NEW w \in Workers, QueryMiss(w) PROVE CountInv'
  BY <1>2, CountQuiet DEF QueryMiss, Goto, PCs, Holding
<1>3. ASSUME NEW w \in Workers, QueryHit(w) PROVE CountInv'
  <2>1. PICK r \in Live : target' = [target EXCEPT ![w] = r]
    BY <1>3 DEF QueryHit
  <2>2. PICK l \in {"retry", "failed", "find_old"} : pc' = [pc EXCEPT ![w] = l]
    BY <1>3 DEF QueryHit, Goto
  <2> QED BY <1>3, <2>1, <2>2, CountQuiet
             DEF QueryHit, PCs, Live, TypeInv, TypeOK
<1>4. ASSUME NEW w \in Workers, Insert(w) PROVE CountInv'
  <2> SUFFICES ASSUME patches = 0 PROVE (Counted /\ OnLiveRows)'
    BY <1>4 DEF Insert, CountInv
  <2> USE DEF TypeInv, TypeOK, Home
  <2>1. pc[w] = "insert" /\ ~rows[w].live
    BY <1>4 DEF Insert, CountInv, OnLiveRows
  <2>2. /\ rows'[w].live
        /\ \A x \in Workers : rows'[w].counts[x] = IF x = w THEN 1 ELSE 0
        /\ \A r \in Workers \ {w} : rows'[r] = rows[r]
    BY <1>4 DEF Insert, NoCounts
  <2>3. /\ pc' = [pc EXCEPT ![w] = "done"]
        /\ trigger'[w].type = "insert"
        /\ \A x \in Workers \ {w} : trigger'[x] = trigger[x]
        /\ target' = target
    BY <1>4 DEF Insert, Done, Goto
  <2>4. Home(w)' = w /\ \A x \in Workers \ {w} : Home(x)' = Home(x)
    BY <2>3
  <2>5. OnLiveRows'
    BY <2>1, <2>2, <2>3, <2>4 DEF CountInv, OnLiveRows, Holding
  <2>6. ASSUME NEW r \in Workers, NEW x \in Workers
        PROVE  rows'[r].counts[x] = IF pc'[x] = "done" /\ Home(x)' = r THEN 1 ELSE 0
    <3>1. rows[r].counts[x] = IF pc[x] = "done" /\ Home(x) = r THEN 1 ELSE 0
      BY DEF CountInv, Counted
    <3>2. pc[x] = "done" => rows[Home(x)].live
      BY DEF CountInv, OnLiveRows
    <3>3. CASE x = w
      BY <2>1, <2>2, <2>3, <2>4, <3>1, <3>3
    <3>4. CASE x # w
      BY <2>1, <2>2, <2>3, <2>4, <3>1, <3>2, <3>4
    <3> QED BY <3>3, <3>4
  <2> QED BY <2>5, <2>6 DEF Counted
<1>5. ASSUME NEW w \in Workers, InsertConflict(w) PROVE CountInv'
  <2>1. PICK l \in {"retry", "failed"} : pc' = [pc EXCEPT ![w] = l]
    BY <1>5 DEF InsertConflict, Goto
  <2> QED BY <1>5, <2>1, CountQuiet DEF InsertConflict, PCs, Holding
<1>6. ASSUME NEW w \in Workers, RetryRead(w) PROVE CountInv'
  <2>1. PICK r \in Live : /\ target' = [target EXCEPT ![w] = r]
                          /\ \E l \in {"failed", "write"} : pc' = [pc EXCEPT ![w] = l]
    BY <1>6 DEF RetryRead, Goto
  <2>2. PICK l \in {"failed", "write"} : pc' = [pc EXCEPT ![w] = l]
    BY <2>1
  <2> QED BY <1>6, <2>1, <2>2, CountQuiet
             DEF RetryRead, PCs, Live, TypeInv, TypeOK
<1>7. ASSUME NEW w \in Workers, WriteWithVersion(w) PROVE CountInv'
  <2> DEFINE r == target[w]
             acc == Accumulate(w, seen[w], rows[r])
             v == seen[w].version + 1
  <2>1. r \in Workers /\ seen[w] \in Row /\ rows[r] \in Row /\ v \in Version
    <3>1. r \in Workers /\ seen[w] \in Row /\ rows[r] \in Row
      BY <1>7 DEF WriteWithVersion, TypeInv, TypeOK, Holding
    <3>2. seen[w].version \in Version
      BY <3>1 DEF Row
    <3> QED BY <3>1, <3>2 DEF Version, NoVersion
  <2>2. rows' = [rows EXCEPT ![r] = SetVersion(acc, v)]
    BY <1>7 DEF WriteWithVersion
  <2>3. /\ acc \in Row /\ acc.live = rows[r].live
        /\ \A x \in Workers : acc.counts[x] =
               IF x = w THEN rows[r].counts[x] + 1 ELSE rows[r].counts[x]
    BY <2>1, AccumulateRow
  <2>4. rows' \in [Workers -> Row] /\ rows'[r] = SetVersion(acc, v)
    BY <2>1, <2>2, <2>3, SetVersionRow DEF TypeInv, TypeOK
  <2>5. \A q \in Workers \ {r} : rows'[q] = rows[q]
    BY <2>2 DEF TypeInv, TypeOK
  <2>6. rows'[r].live = acc.live /\ rows'[r].counts = acc.counts
    BY <2>1, <2>3, <2>4, SetVersionRow
  <2>7. /\ pc[w] \in Holding /\ pc' = [pc EXCEPT ![w] = "done"]
        /\ trigger'[w].type = "update"
        /\ \A x \in Workers \ {w} : trigger'[x] = trigger[x]
        /\ UNCHANGED <<target, patches>>
    BY <1>7 DEF WriteWithVersion, Holding, Done, Goto, TypeInv, TypeOK
  <2> HIDE DEF acc, v
  <2>8. rows'[r].live = rows[r].live
    BY <2>3, <2>6
  <2>9. \A x \in Workers : rows'[r].counts[x] =
            IF x = w THEN rows[r].counts[x] + 1 ELSE rows[r].counts[x]
    BY <2>3, <2>6
  <2> QED BY <2>4, <2>5, <2>7, <2>8, <2>9, CountUpdate
<1>8. ASSUME NEW w \in Workers, LockConflict(w) PROVE CountInv'
  <2>1. PICK l \in {"retry", "exhausted"} : pc' = [pc EXCEPT ![w] = l]
    BY <1>8 DEF LockConflict, Conflict, Goto
  <2> QED BY <1>8, <2>1, CountQuiet DEF LockConflict, Conflict, PCs, Holding
<1>9. ASSUME NEW w \in Workers, FindOld(w) PROVE CountInv'
  <2>1. pc' = [pc EXCEPT ![w] = "update_one"]
    BY <1>9 DEF FindOld, Goto
  <2>2. pc[w] = "find_old" /\ UNCHANGED <<rows, target, trigger, patches>>
    BY <1>9 DEF FindOld
  <2>3. /\ \A x \in Workers : pc'[x] = IF x = w THEN "update_one" ELSE pc[x]
        /\ rows' = rows /\ target' = target /\ trigger' = trigger
    BY <2>1, <2>2 DEF TypeInv, TypeOK
  <2>4. Counted => Counted'
    BY <2>2, <2>3 DEF Counted, Home
  <2>5. OnLiveRows => OnLiveRows'
    BY <2>2, <2>3 DEF OnLiveRows, Home, Holding
  <2> QED BY <2>2, <2>4, <2>5 DEF CountInv
<1>10. ASSUME NEW w \in Workers, UpdateOne(w) PROVE CountInv'
  <2> DEFINE r == target[w]
             acc == Accumulate(w, seen[w], rows[r])
  <2>1. r \in Workers /\ seen[w] \in Row /\ rows[r] \in Row
    BY <1>10 DEF UpdateOne, TypeInv, TypeOK, Holding
  <2>2. rows' = [rows EXCEPT ![r] = acc]
    BY <1>10 DEF UpdateOne
  <2>3. /\ acc \in Row /\ acc.live = rows[r].live
        /\ \A x \in Workers : acc.counts[x] =
               IF x = w THEN rows[r].counts[x] + 1 ELSE rows[r].counts[x]
    BY <2>1, AccumulateRow
  <2>4. /\ rows' \in [Workers -> Row] /\ rows'[r] = acc
        /\ \A q \in Workers \ {r} : rows'[q] = rows[q]
    BY <2>1, <2>2, <2>3 DEF TypeInv, TypeOK
  <2>5. /\ pc[w] \in Holding /\ pc' = [pc EXCEPT ![w] = "done"]
        /\ trigger'[w].type = "update"
        /\ \A x \in Workers \ {w} : trigger'[x] = trigger[x]
        /\ UNCHANGED <<target, patches>>
    BY <1>10 DEF UpdateOne, Holding, Done, Goto, TypeInv, TypeOK
  <2> HIDE DEF acc
  <2> QED BY <2>3, <2>4, <2>5, CountUpdate
<1>11. CASE PatchRead
  BY <1>11 DEF PatchRead, CountInv, Counted, OnLiveRows, Home
<1>12. CASE PatchWrite
  BY <1>12, ConstantsAssumption DEF PatchWrite, CountInv, TypeInv, TypeOK
<1>13. CASE UNCHANGED vars
  BY <1>13 DEF vars, CountInv, Counted, OnLiveRows, Home
<1> QED
  BY <1>1, <1>2, <1>3, <1>4, <1>5, <1>6, <1>7, <1>8, <1>9, <1>10, <1>11, <1>12, <1>13
     DEF Next, Work

LEMMA CountedIsExact == TypeInv /\ CountInv => ExactlyOnce
<1> SUFFICES ASSUME TypeInv, Counted, OnLiveRows, NEW w \in Workers
             PROVE  IF pc[w] = "done" THEN CountedOnce(w) ELSE CountedNever(w)
  BY DEF CountInv, ExactlyOnce
<1>1. CASE pc[w] = "done"
  <2>1. Home(w) \in Workers
    BY <1>1 DEF OnLiveRows
  <2>2. rows[Home(w)].counts[w] = 1
    BY <1>1, <2>1 DEF Counted
  <2>3. \A q \in Workers \ {Home(w)} : rows[q].counts[w] = 0
    BY DEF Counted
  <2> QED BY <1>1, <2>1, <2>2, <2>3 DEF CountedOnce
<1>2. CASE pc[w] # "done"
  BY <1>2 DEF Counted, CountedNever
<1> QED BY <1>1, <1>2

\* For any number of concurrent runs of the write actions, in any deployment and
\* with any retry limit, a run that ends well adds to exactly one row exactly
\* once, and a run that has not (yet) adds nothing.
THEOREM ExactlyOnceHolds == Spec => []ExactlyOnce
<1>1. Spec => []TypeInv
  BY TypeInit, TypeStep, PTL DEF Spec
<1>2. Spec => []CountInv
  BY <1>1, CountInit, CountStep, PTL DEF Spec
<1> QED BY <1>1, <1>2, CountedIsExact, PTL
=============================================================================
