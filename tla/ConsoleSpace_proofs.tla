------------------------- MODULE ConsoleSpace_proofs -------------------------
(***************************************************************************)
(* What is proved of ConsoleSpace: for any number of ids and requests.     *)
(***************************************************************************)
EXTENDS ConsoleSpace, FiniteSetTheorems, SequenceTheorems, TLAPS

(* The copy a browser keeps is a tree: its subjects are listed by its       *)
(* space, their reports by them, and no two are or list the same.           *)
IsTree(c) ==
    \A n \in 1..Len(c.subjects) :
        /\ c.subjects[n].id \in Range(c.listed)
        /\ Range(c.subjects[n].reports) \subseteq Range(c.subjects[n].listed)
        /\ \A m \in 1..Len(c.subjects) : m # n =>
              /\ c.subjects[m].id # c.subjects[n].id
              /\ Range(c.subjects[m].listed) \cap Range(c.subjects[n].listed) = {}
CopyIsTree == copy # None => IsTree(copy)

(* What the copy lists is still its own: whatever was stored since, no other *)
(* space lists its subjects and no other subject their reports.  That is why *)
(* a browser may store it later, however old it is.                          *)
CopyIsOwner ==
    copy # None =>
        /\ \A s \in Stored("spaces") : s # copy.space => Listed("spaces", s) \cap Range(copy.listed) = {}
        /\ \A n \in 1..Len(copy.subjects) : \A i \in Stored("subjects") :
               i # copy.subjects[n].id =>
                   Listed("subjects", i) \cap Range(copy.subjects[n].listed) = {}

IInv == TypeOK /\ OneOwner /\ CopyIsTree /\ CopyIsOwner /\ SubjectsAreListed /\ ReportsAreKept

-----------------------------------------------------------------------------
(***************************************************************************)
(* What a set of writes makes of the tables                                *)
(***************************************************************************)
(* Writes of documents that no other of them writes.                       *)
Once(W) ==
    \A w \in W :
        /\ w.t \in Tables /\ w.do \in {"insert", "update", "delete"}
        /\ \A v \in W : v.t = w.t /\ v.ids \cap w.ids # {} => v = w

(* After such writes a document is what the one write about it made it.    *)
LEMMA WrittenIs ==
    ASSUME NEW W, Once(W), NEW t \in Tables, NEW table, table = Written(W)[t]
    PROVE  /\ \A i : i \in DOMAIN table <=>
                  \/ i \in Stored(t) /\ \A w \in W : ~(w.t = t /\ w.do = "delete" /\ i \in w.ids)
                  \/ \E w \in W : w.t = t /\ w.do = "insert" /\ i \in w.ids
           /\ \A i \in DOMAIN table : \A w \in W :
                  w.t = t /\ i \in w.ids => table[i] = w.list
           /\ \A i \in DOMAIN table :
                  (\A w \in W : ~(w.t = t /\ i \in w.ids)) => i \in Stored(t) /\ table[i] = db[t][i]
<1> DEFINE after == Written(W)[t]
           dom == (Stored(t) \ Touched(t, Those("delete", W))) \cup Touched(t, Those("insert", W))
           val(i) == IF i \in Touched(t, W) THEN (CHOOSE w \in W : w.t = t /\ i \in w.ids).list ELSE db[t][i]
<1>1. after = [i \in dom |-> val(i)]
  BY Zenon DEF Written
<1>2. \A i : i \in Touched(t, W) <=> \E w \in W : w.t = t /\ i \in w.ids
  BY Zenon DEF Touched
<1>3. \A do, i : i \in Touched(t, Those(do, W)) <=> \E w \in W : w.t = t /\ w.do = do /\ i \in w.ids
  BY Zenon DEF Touched, Those
<1>4. DOMAIN after = dom
  BY <1>1, Zenon
<1>5. \A i \in dom : after[i] = val(i)
  BY <1>1, Zenon
<1> HIDE DEF after, val
<1>6. \A i : i \in DOMAIN after <=>
          \/ i \in Stored(t) /\ \A w \in W : ~(w.t = t /\ w.do = "delete" /\ i \in w.ids)
          \/ \E w \in W : w.t = t /\ w.do = "insert" /\ i \in w.ids
  BY <1>3, <1>4, Zenon
<1>7. ASSUME NEW i \in DOMAIN after, NEW w \in W, w.t = t, i \in w.ids
      PROVE  after[i] = w.list
  <2> DEFINE v == CHOOSE u \in W : u.t = t /\ i \in u.ids
  <2>1. v \in W /\ v.t = t /\ i \in v.ids
    BY <1>7, Zenon
  <2>2. v = w
    BY <2>1, <1>7 DEF Once
  <2>3. val(i) = v.list
    BY <1>2, <1>7, Zenon DEF val
  <2> QED BY <2>2, <2>3, <1>4, <1>5
<1>8. ASSUME NEW i \in DOMAIN after, \A w \in W : ~(w.t = t /\ i \in w.ids)
      PROVE  i \in Stored(t) /\ after[i] = db[t][i]
  BY <1>8, <1>2, <1>4, <1>5, <1>6, Zenon DEF val
<1> QED BY <1>6, <1>7, <1>8 DEF after

(* A document that is stored afterwards was stored by a write, or left.    *)
LEMMA DocumentAfter ==
    ASSUME NEW W, Once(W), db' = Written(W), NEW t \in Tables, NEW i \in DOMAIN db'[t]
    PROVE  \/ \E w \in W :
                 /\ w.t = t /\ i \in w.ids /\ w.do # "delete" /\ db'[t][i] = w.list
                 /\ w.do = "update" => i \in Stored(t)
           \/ /\ \A w \in W : ~(w.t = t /\ i \in w.ids)
              /\ i \in Stored(t) /\ db'[t][i] = db[t][i]
<1>1. PICK after : after = Written(W)[t]
  OBVIOUS
<1>2. db'[t] = after
  BY <1>1
<1>3. /\ i \in DOMAIN after <=>
             \/ i \in Stored(t) /\ \A w \in W : ~(w.t = t /\ w.do = "delete" /\ i \in w.ids)
             \/ \E w \in W : w.t = t /\ w.do = "insert" /\ i \in w.ids
      /\ i \in DOMAIN after => \A w \in W : w.t = t /\ i \in w.ids => after[i] = w.list
      /\ i \in DOMAIN after =>
             ((\A w \in W : ~(w.t = t /\ i \in w.ids)) => i \in Stored(t) /\ after[i] = db[t][i])
  BY <1>1, WrittenIs
<1>4. CASE \E w \in W : w.t = t /\ i \in w.ids
  <2>1. PICK w \in W : w.t = t /\ i \in w.ids
    BY <1>4
  <2>2. after[i] = w.list
    BY <1>2, <1>3, <2>1
  <2>3. \A v \in W : v.t = t /\ i \in v.ids => v = w
    BY <2>1 DEF Once
  <2>4. w.do \in {"insert", "update", "delete"}
    BY DEF Once
  <2>5. w.do # "insert" => i \in Stored(t) /\ w.do # "delete"
    BY <1>2, <1>3, <2>1, <2>3
  <2>6. w.do # "delete" /\ (w.do = "update" => i \in Stored(t))
    BY <2>4, <2>5
  <2> QED BY <1>2, <2>1, <2>2, <2>6
<1>5. CASE \A w \in W : ~(w.t = t /\ i \in w.ids)
  BY <1>2, <1>3, <1>5
<1> QED BY <1>4, <1>5

(* What is still there, and what a write put there.                        *)
LEMMA StillThere ==
    ASSUME NEW W, Once(W), db' = Written(W), NEW t \in Tables, NEW i
    PROVE  /\ i \in Stored(t) /\ (\A w \in W : w.t = t /\ i \in w.ids => w.do # "delete") => i \in DOMAIN db'[t]
           /\ \A w \in W : w.t = t /\ i \in w.ids /\ (w.do = "insert" \/ (w.do = "update" /\ i \in Stored(t)))
                              => i \in DOMAIN db'[t] /\ db'[t][i] = w.list
<1>1. PICK after : after = Written(W)[t]
  OBVIOUS
<1>2. db'[t] = after
  BY <1>1
<1>3. /\ i \in DOMAIN after <=>
             \/ i \in Stored(t) /\ \A w \in W : ~(w.t = t /\ w.do = "delete" /\ i \in w.ids)
             \/ \E w \in W : w.t = t /\ w.do = "insert" /\ i \in w.ids
      /\ i \in DOMAIN after => \A w \in W : w.t = t /\ i \in w.ids => after[i] = w.list
  BY <1>1, WrittenIs
<1>4. ASSUME NEW w \in W, w.t = t, i \in w.ids, w.do = "update", i \in Stored(t)
      PROVE  i \in DOMAIN after
  <2>1. \A v \in W : v.t = t /\ i \in v.ids => v = w
    BY <1>4 DEF Once
  <2> QED BY <1>3, <1>4, <2>1
<1> QED BY <1>2, <1>3, <1>4

(***************************************************************************)
(* What a request does                                                     *)
(***************************************************************************)
(* Some of the writes W of a request, with what is no longer promised: all *)
(* of them, or any others.                                                 *)
Effect(W, raises, unlisted, saved, given) ==
    \E done \in SUBSET W :
        /\ \A w \in done : ~Conflicts(w)
        /\ db' = Written(done)
        /\ \/ /\ done = W /\ ~raises
              /\ loose' = loose \cup unlisted
              /\ kept' = (kept \cup saved) \ given
           \/ /\ loose' = loose \cup unlisted \cup Touched("subjects", W)
              /\ kept' = kept \ (given \cup (Touched("reports", W) \cup ReportsOf(Touched("subjects", W))))

LEMMA RequestDoes ==
    ASSUME NEW B, NEW raises, NEW unlisted, NEW saved, NEW given,
           Request(B, raises, unlisted, saved, given)
    PROVE  Effect(Writes(B), raises, unlisted, saved, given)
<1>1. PICK P \in Beginnings(B) :
          /\ db' = Written(At(B, P))
          /\ loose' = loose \cup unlisted \cup
                 (IF P = Places(B) /\ ~raises THEN {} ELSE Touched("subjects", Writes(B)))
          /\ kept' = (kept \cup (IF P = Places(B) /\ ~raises THEN saved ELSE {}))
                     \ (given \cup (IF P = Places(B) /\ ~raises THEN {}
                                    ELSE Touched("reports", Writes(B))
                                         \cup ReportsOf(Touched("subjects", Writes(B)))))
  BY Zenon DEF Request
<1>2. P \subseteq Places(B) /\ \A w \in At(B, P) : ~Conflicts(w)
  BY Zenon DEF Beginnings
<1>3. At(B, P) \subseteq Writes(B)
  BY <1>2, Zenon DEF At, Writes
<1>4. CASE P = Places(B) /\ ~raises
  <2>1. At(B, P) = Writes(B)
    BY <1>4, Zenon DEF Writes
  <2>2. loose' = loose \cup unlisted /\ kept' = (kept \cup saved) \ given
    BY <1>1, <1>4
  <2> QED BY <1>1, <1>2, <1>3, <1>4, <2>1, <2>2, Zenon DEF Effect
<1>5. CASE ~(P = Places(B) /\ ~raises)
  <2>1. /\ loose' = loose \cup unlisted \cup Touched("subjects", Writes(B))
        /\ kept' = kept \ (given \cup (Touched("reports", Writes(B))
                                       \cup ReportsOf(Touched("subjects", Writes(B)))))
    BY <1>1, <1>5
  <2> QED BY <1>1, <1>2, <1>3, <2>1, Zenon DEF Effect
<1> QED BY <1>4, <1>5, Zenon

-----------------------------------------------------------------------------
(***************************************************************************)
(* What the writes of a request must be for the invariant to be kept       *)
(***************************************************************************)
(* Ids are given out and never taken back.                                 *)
Grows ==
    /\ next' \in [Tables -> Nat]
    /\ \A t \in Tables : next[t] <= next'[t] /\ next'[t] <= MaxIds[t]

Typed(W) ==
    \A w \in W :
        /\ w.do = "insert" => w.ids \subseteq 1..next'[w.t]
        /\ w.do # "delete" /\ w.t \in DOMAIN Child => w.list \in Seq(1..next'[Child[w.t]])

(* What a write lists is listed by no other document and by no other of the *)
(* copy.                                                                    *)
OwnsList(w) ==
    /\ \E i : w.ids = {i}
    /\ \A j \in Stored(w.t) \ w.ids : Listed(w.t, j) \cap Range(w.list) = {}
    /\ copy # None =>
          /\ w.t = "spaces" /\ copy.space \notin w.ids => Range(copy.listed) \cap Range(w.list) = {}
          /\ w.t = "subjects" =>
                \A n \in 1..Len(copy.subjects) : copy.subjects[n].id \notin w.ids =>
                    Range(copy.subjects[n].listed) \cap Range(w.list) = {}

(* The writes that store a list of ids.                                    *)
Storing(W) == {w \in W : w.do # "delete" /\ w.t \in DOMAIN Child}

Owned(W) ==
    \A w \in Storing(W) :
        /\ OwnsList(w)
        /\ \A v \in Storing(W) : v # w /\ v.t = w.t => Range(v.list) \cap Range(w.list) = {}

(* The update of a document that is there.                                 *)
Changes(w) == w.do = "update" /\ w.ids # {} /\ w.ids \subseteq Stored(w.t)

(* A subject a space lists stays listed, goes, or need not be; a new one is *)
(* listed by a space that is stored too.                                    *)
ListsSubjects(W, raises, unlisted) ==
    /\ \A w \in W : w.t = "spaces" /\ w.do # "insert" =>
          \A s \in w.ids \cap Stored("spaces") : \A i \in Listed("spaces", s) :
              \/ w.do = "update" /\ i \in Range(w.list)
              \/ i \in unlisted
              \/ i \in Touched("subjects", Those("delete", W))
    /\ \/ raises
       \/ \A i \in Touched("subjects", Those("insert", W)) : \E w \in W :
              /\ w.t = "spaces" /\ i \in Range(w.list)
              /\ Changes(w) \/ (w.do = "insert" /\ w.ids # {})

(* A report a subject lists stays listed or is given up; so is one that is  *)
(* deleted; a saved one is stored and listed.                               *)
KeepsReports(W, saved, given) ==
    /\ \A w \in W : w.t = "subjects" /\ w.do # "insert" =>
          \A i \in w.ids \cap Stored("subjects") : \A r \in Listed("subjects", i) :
              (w.do = "update" /\ r \in Range(w.list)) \/ r \in given
    /\ \A w \in W : w.t = "reports" /\ w.do = "delete" => w.ids \subseteq given
    /\ \A r \in saved :
          /\ \E w \in W : w.t = "reports" /\ w.do = "insert" /\ r \in w.ids
          /\ \E w \in W : w.t = "subjects" /\ r \in Range(w.list) /\ Changes(w)

(***************************************************************************)
(* Each part of the invariant is kept                                      *)
(***************************************************************************)
LEMMA SeqGrows ==
    ASSUME NEW m \in Nat, NEW n \in Nat, m <= n, NEW s \in Seq(1..m)
    PROVE  s \in Seq(1..n)
BY 1..m \subseteq 1..n, SeqMonotonic

LEMMA TypesKept ==
    ASSUME TypeOK, Grows, copy' = copy, NEW done, Once(done), Typed(done), db' = Written(done)
    PROVE  TypeOK'
<1> DEFINE Kids == DOMAIN Child
<1>0. Kids = {"spaces", "subjects"} /\ Kids \subseteq Tables /\ \A t \in Kids : Child[t] \in Tables
  BY DEF Child, Tables
<1>1. next' \in [Tables -> Nat] /\ \A t \in Tables : next'[t] <= MaxIds[t]
  BY DEF Grows
<1>2. ASSUME NEW t \in Tables, NEW i \in DOMAIN db'[t]
      PROVE  i \in 1..next'[t]
  <2>1. CASE i \in Stored(t)
    BY <2>1 DEF TypeOK, Grows
  <2>2. CASE \E w \in done : w.t = t /\ w.do = "insert" /\ i \in w.ids
    BY <2>2 DEF Typed
  <2> QED BY <1>2, <2>1, <2>2, WrittenIs, Zenon
<1>3. ASSUME NEW t \in Kids, NEW i \in DOMAIN db'[t]
      PROVE  db'[t][i] \in Seq(1..next'[Child[t]])
  <2> DEFINE c == Child[t]
  <2>0. t \in Tables /\ c \in Tables
    BY <1>0
  <2> HIDE DEF c
  <2>1. CASE \E w \in done : w.t = t /\ w.do # "delete" /\ db'[t][i] = w.list
    BY <2>1 DEF Typed, c
  <2>2. CASE i \in Stored(t) /\ db'[t][i] = db[t][i]
    <3>1. i \in Stored(t) /\ db'[t][i] = db[t][i]
      BY <2>2
    <3>2. db[t][i] \in Seq(1..next[c])
      BY <3>1 DEF TypeOK, c
    <3>3. next[c] \in Nat /\ next'[c] \in Nat /\ next[c] <= next'[c]
      BY <2>0 DEF TypeOK, Grows
    <3>4. db[t][i] \in Seq(1..next'[c])
      BY <3>2, <3>3, SeqGrows, Zenon
    <3> QED BY <3>1, <3>4 DEF c
  <2> QED BY <2>0, <1>3, <2>1, <2>2, DocumentAfter
<1>4. copy' # None =>
          copy' \in [space : 1..next'["spaces"], listed : Seq(1..next'["subjects"]),
                     subjects : Seq([id : 1..next'["subjects"], listed : Seq(1..next'["reports"]),
                                     reports : Seq(1..next'["reports"])])]
  <2> SUFFICES ASSUME copy # None
               PROVE  copy \in [space : 1..next'["spaces"], listed : Seq(1..next'["subjects"]),
                                subjects : Seq([id : 1..next'["subjects"], listed : Seq(1..next'["reports"]),
                                                reports : Seq(1..next'["reports"])])]
    OBVIOUS
  <2> DEFINE S(n) == Seq(1..n)
             R(n, m) == [id : 1..n, listed : S(m), reports : S(m)]
             X(k, n, m) == [space : 1..k, listed : S(n), subjects : Seq(R(n, m))]
  <2>1. copy \in X(next["spaces"], next["subjects"], next["reports"])
    BY DEF TypeOK
  <2>2. \A t \in Tables : 1..next[t] \subseteq 1..next'[t]
    BY DEF TypeOK, Grows
  <2>3. \A t \in Tables : S(next[t]) \subseteq S(next'[t])
    BY <2>2, SeqMonotonic, Zenon
  <2>4. {"spaces", "subjects", "reports"} = Tables
    BY DEF Tables
  <2> HIDE DEF S
  <2>5. R(next["subjects"], next["reports"]) \subseteq R(next'["subjects"], next'["reports"])
    BY <2>2, <2>3, <2>4
  <2>6. Seq(R(next["subjects"], next["reports"])) \subseteq Seq(R(next'["subjects"], next'["reports"]))
    <3> HIDE DEF R
    <3> QED BY <2>5, SeqMonotonic, Zenon
  <2>7. copy \in X(next'["spaces"], next'["subjects"], next'["reports"])
    <3> HIDE DEF R
    <3> QED BY <2>1, <2>2, <2>3, <2>4, <2>6
  <2> QED BY <2>7 DEF S
<1> QED BY <1>1, <1>2, <1>3, <1>4 DEF TypeOK, Stored

LEMMA OwnersKept ==
    ASSUME OneOwner, NEW done, Once(done), Owned(done), db' = Written(done)
    PROVE  OneOwner'
<1> SUFFICES ASSUME NEW t \in {"spaces", "subjects"}, NEW i \in DOMAIN db'[t], NEW j \in DOMAIN db'[t],
                    i # j, NEW x \in Range(db'[t][i]), x \in Range(db'[t][j])
             PROVE  FALSE
  BY DEF OneOwner, Stored, Listed
<1>0. t \in Tables /\ t \in DOMAIN Child
  BY DEF Tables, Child
<1>1. ASSUME NEW k \in DOMAIN db'[t]
      PROVE  \/ \E w \in Storing(done) : w.t = t /\ w.ids = {k} /\ db'[t][k] = w.list
             \/ /\ k \in Stored(t) /\ db'[t][k] = db[t][k]
                /\ \A w \in done : ~(w.t = t /\ k \in w.ids)
  <2>1. CASE \E w \in done : w.t = t /\ k \in w.ids /\ w.do # "delete" /\ db'[t][k] = w.list
    <3>1. PICK w \in done : w.t = t /\ k \in w.ids /\ w.do # "delete" /\ db'[t][k] = w.list
      BY <2>1
    <3>2. w \in Storing(done)
      BY <1>0, <3>1 DEF Storing
    <3>3. w.ids = {k}
      BY <3>1, <3>2 DEF Owned, OwnsList
    <3> QED BY <3>1, <3>2, <3>3
  <2> QED BY <1>0, <1>1, <2>1, DocumentAfter
<1>2. CASE \E w \in Storing(done) : w.t = t /\ w.ids = {i} /\ db'[t][i] = w.list
  <2>1. PICK w \in Storing(done) : w.t = t /\ w.ids = {i} /\ db'[t][i] = w.list
    BY <1>2
  <2>2. CASE \E v \in Storing(done) : v.t = t /\ v.ids = {j} /\ db'[t][j] = v.list
    BY <2>1, <2>2 DEF Owned
  <2>3. CASE j \in Stored(t) /\ db'[t][j] = db[t][j]
    BY <2>1, <2>3 DEF Owned, OwnsList, Listed
  <2> QED BY <1>1, <2>2, <2>3
<1>3. CASE i \in Stored(t) /\ db'[t][i] = db[t][i]
  <2>2. CASE \E v \in Storing(done) : v.t = t /\ v.ids = {j} /\ db'[t][j] = v.list
    BY <1>3, <2>2 DEF Owned, OwnsList, Listed
  <2>3. CASE j \in Stored(t) /\ db'[t][j] = db[t][j]
    BY <1>3, <2>3 DEF OneOwner, Listed
  <2> QED BY <1>1, <2>2, <2>3
<1> QED BY <1>1, <1>2, <1>3

LEMMA CopyOwnerKept ==
    ASSUME CopyIsOwner, copy' = copy, NEW done, Once(done), Owned(done), db' = Written(done)
    PROVE  CopyIsOwner'
<1> SUFFICES ASSUME copy # None PROVE CopyIsOwner'
  BY DEF CopyIsOwner
<1>0. \A t \in {"spaces", "subjects"} : t \in Tables /\ t \in DOMAIN Child
  BY DEF Tables, Child
<1>1. ASSUME NEW t \in {"spaces", "subjects"}, NEW k \in DOMAIN db'[t]
      PROVE  \/ \E w \in Storing(done) : w.t = t /\ w.ids = {k} /\ db'[t][k] = w.list
             \/ k \in Stored(t) /\ db'[t][k] = db[t][k]
  <2>1. CASE \E w \in done : w.t = t /\ k \in w.ids /\ w.do # "delete" /\ db'[t][k] = w.list
    <3>1. PICK w \in done : w.t = t /\ k \in w.ids /\ w.do # "delete" /\ db'[t][k] = w.list
      BY <2>1
    <3>2. w \in Storing(done)
      BY <1>0, <3>1 DEF Storing
    <3>3. w.ids = {k}
      BY <3>1, <3>2 DEF Owned, OwnsList
    <3> QED BY <3>1, <3>2, <3>3
  <2> QED BY <1>0, <1>1, <2>1, DocumentAfter
<1>2. ASSUME NEW s \in DOMAIN db'["spaces"], s # copy.space
      PROVE  Range(db'["spaces"][s]) \cap Range(copy.listed) = {}
  <2>1. CASE \E w \in Storing(done) : w.t = "spaces" /\ w.ids = {s} /\ db'["spaces"][s] = w.list
    BY <1>2, <2>1 DEF Owned, OwnsList
  <2>2. CASE s \in Stored("spaces") /\ db'["spaces"][s] = db["spaces"][s]
    BY <1>2, <2>2 DEF CopyIsOwner, Listed
  <2> QED BY <1>1, <2>1, <2>2
<1>3. ASSUME NEW n \in 1..Len(copy.subjects), NEW i \in DOMAIN db'["subjects"], i # copy.subjects[n].id
      PROVE  Range(db'["subjects"][i]) \cap Range(copy.subjects[n].listed) = {}
  <2>1. CASE \E w \in Storing(done) : w.t = "subjects" /\ w.ids = {i} /\ db'["subjects"][i] = w.list
    BY <1>3, <2>1 DEF Owned, OwnsList
  <2>2. CASE i \in Stored("subjects") /\ db'["subjects"][i] = db["subjects"][i]
    BY <1>3, <2>2 DEF CopyIsOwner, Listed
  <2> QED BY <1>1, <2>1, <2>2
<1> QED BY <1>2, <1>3 DEF CopyIsOwner, Stored, Listed

(* Some or all of the writes, and no others.                               *)
LEMMA FewerWrites ==
    ASSUME NEW W, NEW done \in SUBSET W
    PROVE  /\ Once(W) => Once(done)
           /\ Typed(W) => Typed(done)
           /\ Owned(W) => Owned(done)
<1>1. Storing(done) \subseteq Storing(W)
  BY DEF Storing
<1>2. Owned(W) => Owned(done)
  BY <1>1, Zenon DEF Owned
<1>3. Once(W) => Once(done)
  BY Zenon DEF Once
<1>4. Typed(W) => Typed(done)
  BY Zenon DEF Typed
<1> QED BY <1>2, <1>3, <1>4

LEMMA SubjectsKept ==
    ASSUME NEW W, NEW raises, NEW unlisted, NEW saved, NEW given,
           SubjectsAreListed, Once(W), ListsSubjects(W, raises, unlisted),
           Effect(W, raises, unlisted, saved, given)
    PROVE  SubjectsAreListed'
<1>1. PICK done \in SUBSET W :
          /\ \A w \in done : ~Conflicts(w)
          /\ db' = Written(done)
          /\ \/ done = W /\ ~raises /\ loose' = loose \cup unlisted
             \/ loose' = loose \cup unlisted \cup Touched("subjects", W)
  BY Zenon DEF Effect
<1>2. Once(done)
  BY <1>1, FewerWrites
<1>3. {"spaces", "subjects"} \subseteq Tables
  BY DEF Tables
<1>4. \A U, i : i \in Touched("subjects", U) <=> \E w \in U : w.t = "subjects" /\ i \in w.ids
  BY Zenon DEF Touched
<1>5. \A do, U : Those(do, U) = {w \in U : w.do = do}
  BY DEF Those
<1>6. SUFFICES ASSUME NEW i \in DOMAIN db'["subjects"], i \notin loose'
               PROVE  \E s \in DOMAIN db'["spaces"] : i \in Range(db'["spaces"][s])
  BY Zenon DEF SubjectsAreListed, ListingSpaces, Stored, Listed
<1>7. CASE \E w \in done : w.t = "subjects" /\ i \in w.ids /\ w.do = "insert"
  <2>1. i \in Touched("subjects", W) /\ i \in Touched("subjects", Those("insert", W))
    BY <1>4, <1>5, <1>7
  <2>2. done = W /\ ~raises
    BY <1>1, <1>6, <2>1
  <2>3. PICK w \in done : /\ w.t = "spaces" /\ i \in Range(w.list)
                          /\ Changes(w) \/ (w.do = "insert" /\ w.ids # {})
    BY <2>1, <2>2 DEF ListsSubjects
  <2>4. PICK s \in w.ids : w.do = "insert" \/ (w.do = "update" /\ s \in Stored("spaces"))
    BY <2>3 DEF Changes
  <2>5. s \in DOMAIN db'["spaces"] /\ db'["spaces"][s] = w.list
    BY <1>1, <1>2, <1>3, <2>3, <2>4, StillThere
  <2> QED BY <2>3, <2>5
<1>8. CASE i \in Stored("subjects") /\ \A w \in done : w.t = "subjects" /\ i \in w.ids => w.do # "delete"
  <2>1. i \notin loose /\ i \notin unlisted
    BY <1>1, <1>6
  <2>2. PICK s \in Stored("spaces") : i \in Listed("spaces", s)
    BY <1>8, <2>1, Zenon DEF SubjectsAreListed, ListingSpaces
  <2>3. CASE \A w \in done : ~(w.t = "spaces" /\ s \in w.ids)
    <3>1. s \in DOMAIN db'["spaces"]
      BY <1>1, <1>2, <1>3, <2>3, StillThere
    <3>2. db'["spaces"][s] = db["spaces"][s]
      BY <1>1, <1>2, <1>3, <2>3, <3>1, DocumentAfter
    <3> QED BY <2>2, <3>1, <3>2 DEF Listed
  <2>4. CASE \E w \in done : w.t = "spaces" /\ s \in w.ids
    <3>1. PICK w \in done : w.t = "spaces" /\ s \in w.ids
      BY <2>4
    <3>2. w.do # "insert"
      BY <1>1, <3>1 DEF Conflicts
    <3>3. i \notin Touched("subjects", Those("delete", W))
      <4>1. CASE done = W
        BY <4>1, <1>4, <1>5, <1>8
      <4>2. CASE loose' = loose \cup unlisted \cup Touched("subjects", W)
        BY <4>2, <1>4, <1>5, <1>6
      <4> QED BY <1>1, <4>1, <4>2
    <3>4. w.do = "update" /\ i \in Range(w.list)
      BY <2>1, <2>2, <3>1, <3>2, <3>3 DEF ListsSubjects
    <3>5. s \in DOMAIN db'["spaces"] /\ db'["spaces"][s] = w.list
      BY <1>1, <1>2, <1>3, <3>1, <3>4, <2>2, StillThere
    <3> QED BY <3>4, <3>5
  <2> QED BY <2>3, <2>4
<1> QED
  <2>1. \/ \E w \in done : w.t = "subjects" /\ i \in w.ids /\ w.do # "delete" /\ (w.do = "update" => i \in Stored("subjects"))
        \/ i \in Stored("subjects") /\ \A w \in done : ~(w.t = "subjects" /\ i \in w.ids)
    BY <1>1, <1>2, <1>3, <1>6, DocumentAfter
  <2>2. \A v, w \in done : v.t = w.t /\ i \in v.ids /\ i \in w.ids => v = w
    BY <1>2 DEF Once
  <2>3. \A w \in done : w.do \in {"insert", "update", "delete"}
    BY <1>2 DEF Once
  <2> QED BY <1>7, <1>8, <2>1, <2>2, <2>3

LEMMA ReportsKept ==
    ASSUME NEW W, NEW raises, NEW unlisted, NEW saved, NEW given,
           ReportsAreKept, Once(W), KeepsReports(W, saved, given),
           Effect(W, raises, unlisted, saved, given)
    PROVE  ReportsAreKept'
<1>1. PICK done \in SUBSET W :
          /\ \A w \in done : ~Conflicts(w)
          /\ db' = Written(done)
          /\ \/ done = W /\ kept' = (kept \cup saved) \ given
             \/ kept' = kept \ (given \cup (Touched("reports", W) \cup ReportsOf(Touched("subjects", W))))
  BY Zenon DEF Effect
<1>2. Once(done)
  BY <1>1, FewerWrites
<1>3. {"subjects", "reports"} \subseteq Tables
  BY DEF Tables
<1>4. \A U, t, i : i \in Touched(t, U) <=> \E w \in U : w.t = t /\ i \in w.ids
  BY Zenon DEF Touched
<1>5. SUFFICES ASSUME NEW r \in kept'
               PROVE  /\ r \in DOMAIN db'["reports"]
                      /\ \E i \in DOMAIN db'["subjects"] : r \in Range(db'["subjects"][i])
  BY Zenon DEF ReportsAreKept, Stored, Listed
<1>6. CASE done = W /\ r \in saved /\ r \notin given
  <2>1. PICK w \in W : w.t = "reports" /\ w.do = "insert" /\ r \in w.ids
    BY <1>6 DEF KeepsReports
  <2>2. r \in DOMAIN db'["reports"]
    BY <1>1, <1>2, <1>3, <1>6, <2>1, StillThere
  <2>3. PICK v \in W : v.t = "subjects" /\ r \in Range(v.list) /\ Changes(v)
    BY <1>6 DEF KeepsReports
  <2>4. PICK i \in v.ids : i \in Stored("subjects") /\ v.do = "update"
    BY <2>3 DEF Changes
  <2>5. i \in DOMAIN db'["subjects"] /\ db'["subjects"][i] = v.list
    BY <1>1, <1>2, <1>3, <1>6, <2>3, <2>4, StillThere
  <2> QED BY <2>2, <2>3, <2>5
<1>7. CASE /\ r \in kept /\ r \notin given
           /\ \/ done = W
              \/ r \notin Touched("reports", W) /\ r \notin ReportsOf(Touched("subjects", W))
  <2>1. PICK i \in Stored("subjects") : r \in Stored("reports") /\ r \in Listed("subjects", i)
    BY <1>7 DEF ReportsAreKept
  <2>2. r \in DOMAIN db'["reports"]
    <3>1. ASSUME NEW w \in done, w.t = "reports", r \in w.ids, w.do = "delete"
          PROVE  FALSE
      <4>1. r \in Touched("reports", W)
        BY <1>1, <1>4, <3>1
      <4>2. r \in given
        BY <3>1 DEF KeepsReports
      <4> QED BY <1>7, <4>2
    <3> QED BY <1>1, <1>2, <1>3, <2>1, <3>1, StillThere
  <2>3. CASE \A w \in done : ~(w.t = "subjects" /\ i \in w.ids)
    <3>1. i \in DOMAIN db'["subjects"]
      BY <1>1, <1>2, <1>3, <2>1, <2>3, StillThere
    <3>2. db'["subjects"][i] = db["subjects"][i]
      BY <1>1, <1>2, <1>3, <2>3, <3>1, DocumentAfter
    <3> QED BY <2>1, <2>2, <3>1, <3>2 DEF Listed
  <2>4. CASE \E w \in done : w.t = "subjects" /\ i \in w.ids
    <3>1. PICK w \in done : w.t = "subjects" /\ i \in w.ids
      BY <2>4
    <3>2. w.do # "insert"
      BY <1>1, <2>1, <3>1 DEF Conflicts
    <3>3. w.do = "update" /\ r \in Range(w.list)
      BY <1>7, <2>1, <3>1, <3>2 DEF KeepsReports
    <3>4. i \in DOMAIN db'["subjects"] /\ db'["subjects"][i] = w.list
      BY <1>1, <1>2, <1>3, <2>1, <3>1, <3>3, StillThere
    <3> QED BY <2>2, <3>3, <3>4
  <2> QED BY <2>3, <2>4
<1> QED BY <1>1, <1>5, <1>6, <1>7

(* The writes of a request and what it promises, together.                 *)
Fit(W, raises, unlisted, saved, given) ==
    Once(W) /\ Typed(W) /\ Owned(W) /\ ListsSubjects(W, raises, unlisted) /\ KeepsReports(W, saved, given)

LEMMA RequestKeeps ==
    ASSUME IInv, Grows, copy' = copy, NEW B, NEW raises, NEW unlisted, NEW saved, NEW given,
           Request(B, raises, unlisted, saved, given),
           Fit(Writes(B), raises, unlisted, saved, given)
    PROVE  IInv'
<1>1. PICK W : W = Writes(B)
  OBVIOUS
<1>2. Effect(W, raises, unlisted, saved, given)
  BY <1>1, RequestDoes
<1>3. Once(W) /\ Typed(W) /\ Owned(W) /\ ListsSubjects(W, raises, unlisted) /\ KeepsReports(W, saved, given)
  BY <1>1 DEF Fit
<1>4. SubjectsAreListed' /\ ReportsAreKept'
  BY <1>2, <1>3, SubjectsKept, ReportsKept DEF IInv
<1>5. PICK done \in SUBSET W : db' = Written(done)
  BY <1>2, Zenon DEF Effect
<1>6. Once(done) /\ Typed(done) /\ Owned(done)
  BY <1>3, <1>5, FewerWrites
<1>7. TypeOK' /\ OneOwner' /\ CopyIsOwner'
  BY <1>5, <1>6, TypesKept, OwnersKept, CopyOwnerKept DEF IInv
<1>8. CopyIsTree'
  BY DEF IInv, CopyIsTree, IsTree
<1> QED BY <1>4, <1>7, <1>8 DEF IInv

-----------------------------------------------------------------------------
(***************************************************************************)
(* Lemmas about writes                                                     *)
(***************************************************************************)
LEMMA WritesAre ==
    ASSUME NEW B
    PROVE  \A w : w \in Writes(B) <=> \E g \in DOMAIN B : \E k \in DOMAIN B[g] : w = B[g][k]
<1>1. \A p : p \in Places(B) <=> \E g \in DOMAIN B : \E k \in DOMAIN B[g] : p = <<g, k>>
  BY DEF Places
<1>2. \A w : w \in Writes(B) <=> \E p \in Places(B) : w = B[p[1]][p[2]]
  BY Zenon DEF Writes, At
<1>3. ASSUME NEW w \in Writes(B)
      PROVE  \E g \in DOMAIN B : \E k \in DOMAIN B[g] : w = B[g][k]
  <2>1. PICK p \in Places(B) : w = B[p[1]][p[2]]
    BY <1>2
  <2>2. PICK g \in DOMAIN B : \E k \in DOMAIN B[g] : p = <<g, k>>
    BY <1>1, Zenon
  <2>4. PICK k \in DOMAIN B[g] : p = <<g, k>>
    BY <2>2
  <2>3. w = B[g][k]
    BY <2>1, <2>4
  <2> QED BY <2>3
<1>4. ASSUME NEW g \in DOMAIN B, NEW k \in DOMAIN B[g]
      PROVE  B[g][k] \in Writes(B)
  <2>1. PICK p : p = <<g, k>>
    OBVIOUS
  <2>2. p \in Places(B)
    BY <1>1, <2>1
  <2>3. p[1] = g /\ p[2] = k
    BY <2>1
  <2> QED BY <1>2, <2>2, <2>3
<1> QED BY <1>3, <1>4

LEMMA WriteOf ==
    ASSUME NEW B, NEW w \in Writes(B)
    PROVE  \E g \in DOMAIN B : \E k \in DOMAIN B[g] : w = B[g][k]
BY WritesAre

LEMMA WriteIn ==
    ASSUME NEW B, NEW g \in DOMAIN B, NEW k \in DOMAIN B[g]
    PROVE  B[g][k] \in Writes(B)
BY WritesAre

LEMMA OneWrite ==
    ASSUME NEW w
    PROVE  Writes(<< <<w>> >>) = {w}
<1>1. \A v : v \in Writes(<< <<w>> >>) <=> v = w
  BY WritesAre
<1> QED BY <1>1

LEMMA TwoWrites ==
    ASSUME NEW u, NEW w
    PROVE  Writes(<< <<u, w>> >>) = {u, w}
<1>1. \A v : v \in Writes(<< <<u, w>> >>) <=> v = u \/ v = w
  BY WritesAre
<1> QED BY <1>1

LEMMA FunctionIsSeq ==
    ASSUME NEW S, NEW n \in Nat, NEW q \in [1..n -> S]
    PROVE  q \in Seq(S) /\ Len(q) = n
OBVIOUS

LEMMA RangeIs ==
    ASSUME NEW S, NEW s \in Seq(S)
    PROVE  /\ \A x : x \in Range(s) <=> \E n \in 1..Len(s) : s[n] = x
           /\ Range(s) \subseteq S
BY RangeEquality, RangeOfSeq

LEMMA ConcatRange ==
    ASSUME NEW S, NEW s \in Seq(S), NEW u \in Seq(S)
    PROVE  /\ s \o u \in Seq(S)
           /\ Range(s \o u) = Range(s) \cup Range(u)
<1>1. Range(s \o u) = Range(s) \cup Range(u)
  BY RangeConcatenation, Zenon
<1>2. s \o u \in Seq(S)
  OBVIOUS
<1> QED BY <1>1, <1>2

LEMMA AppendRange ==
    ASSUME NEW S, NEW s \in Seq(S), NEW x \in S
    PROVE  /\ Append(s, x) \in Seq(S)
           /\ Range(Append(s, x)) = Range(s) \cup {x}
<1>1. Append(s, x) = s \o <<x>> /\ Append(s, x) \in Seq(S) /\ <<x>> \in Seq(S)
  BY AppendIsConcat, AppendProperties
<1>2. Range(<<x>>) = {x}
  BY DEF Range
<1>3. Range(s \o <<x>>) = Range(s) \cup Range(<<x>>)
  BY <1>1, ConcatRange, Zenon
<1> QED BY <1>1, <1>2, <1>3

LEMMA SubSeqRange ==
    ASSUME NEW S, NEW s \in Seq(S), NEW m \in Nat \ {0}, NEW n \in Nat, n <= Len(s)
    PROVE  /\ SubSeq(s, m, n) \in Seq(S)
           /\ \A x : x \in Range(SubSeq(s, m, n)) <=> \E k \in m..n : s[k] = x
<1> PICK q : q = SubSeq(s, m, n)
  OBVIOUS
<1>0. Len(s) \in Nat /\ \A i \in m..n : s[i] \in S
  OBVIOUS
<1>1. /\ q \in Seq(S)
      /\ Len(q) = IF m <= n THEN n - m + 1 ELSE 0
      /\ \A i \in 1..n - m + 1 : q[i] = s[m + i - 1]
  BY <1>0, SubSeqProperties
<1>2. ASSUME NEW x, NEW i \in 1..Len(q), q[i] = x PROVE \E k \in m..n : s[k] = x
  <2>1. m <= n /\ i \in 1..n - m + 1
    BY <1>1, <1>2
  <2>2. m + i - 1 \in m..n /\ s[m + i - 1] = x
    BY <1>1, <1>2, <2>1
  <2> QED BY <2>2
<1>3. ASSUME NEW k \in m..n PROVE \E i \in 1..Len(q) : q[i] = s[k]
  <2>1. PICK i \in 1..n - m + 1 : i = k - m + 1
    OBVIOUS
  <2>2. m + i - 1 = k /\ i \in 1..Len(q)
    BY <1>1, <2>1
  <2> QED BY <1>1, <2>2
<1>4. \A x : x \in Range(q) <=> \E i \in 1..Len(q) : q[i] = x
  <2>1. q \in Seq(S)
    BY <1>1
  <2> QED BY ONLY <2>1, RangeIs, Zenon
<1>5. \A x : x \in Range(q) <=> \E k \in m..n : s[k] = x
  BY <1>2, <1>3, <1>4
<1> QED BY <1>1, <1>5

(* The other elements of a list stay when one is removed, and none comes.  *)
LEMMA WithoutRange ==
    ASSUME NEW S, NEW s \in Seq(S), NEW i, NEW n \in First(s, i)
    PROVE  /\ Without(s, n) \in Seq(S)
           /\ Range(Without(s, n)) \subseteq Range(s)
           /\ \A x \in Range(s) : x # i => x \in Range(Without(s, n))
<1>1. n \in 1..Len(s) /\ s[n] = i /\ Len(s) \in Nat
  BY DEF First
<1> PICK u, v : u = SubSeq(s, 1, n - 1) /\ v = SubSeq(s, n + 1, Len(s))
  OBVIOUS
<1>2. u \in Seq(S) /\ \A x : x \in Range(u) <=> \E k \in 1..n - 1 : s[k] = x
  BY <1>1, SubSeqRange
<1>3. v \in Seq(S) /\ \A x : x \in Range(v) <=> \E k \in n + 1..Len(s) : s[k] = x
  <2> PICK a, b : a = n + 1 /\ b = Len(s)
    OBVIOUS
  <2>1. a \in Nat \ {0} /\ b \in Nat /\ b <= Len(s)
    BY <1>1
  <2>2. /\ SubSeq(s, a, b) \in Seq(S)
        /\ \A x : x \in Range(SubSeq(s, a, b)) <=> \E k \in a..b : s[k] = x
    BY ONLY s \in Seq(S), <2>1, SubSeqRange
  <2> QED BY <2>2
<1>4. Without(s, n) = u \o v
  BY DEF Without, RemoveAt
<1>5. u \o v \in Seq(S) /\ Range(u \o v) = Range(u) \cup Range(v)
  <2>1. u \in Seq(S) /\ v \in Seq(S)
    BY <1>2, <1>3
  <2> QED BY ONLY <2>1, ConcatRange
<1>6. \A x : x \in Range(s) <=> \E k \in 1..Len(s) : s[k] = x
  BY RangeIs
<1>7. \A x \in Range(u) \cup Range(v) : x \in Range(s)
  BY <1>1, <1>2, <1>3, <1>6
<1>8. ASSUME NEW x \in Range(s), x # i PROVE x \in Range(u) \cup Range(v)
  <2>1. PICK k \in 1..Len(s) : s[k] = x
    BY <1>6
  <2>2. k \in 1..n - 1 \/ k \in n + 1..Len(s)
    BY <1>1, <1>8, <2>1
  <2> QED BY <1>2, <1>3, <2>1, <2>2
<1> QED BY <1>4, <1>5, <1>7, <1>8

LEMMA CopyTyped ==
    ASSUME TypeOK, copy # None
    PROVE  /\ copy.space \in 1..next["spaces"] /\ copy.listed \in Seq(1..next["subjects"])
           /\ Len(copy.subjects) \in Nat /\ DOMAIN copy.subjects = 1..Len(copy.subjects)
           /\ \A n \in 1..Len(copy.subjects) :
                 /\ copy.subjects[n].id \in 1..next["subjects"]
                 /\ copy.subjects[n].listed \in Seq(1..next["reports"])
                 /\ copy.subjects[n].reports \in Seq(1..next["reports"])
<1> DEFINE R == [id : 1..next["subjects"], listed : Seq(1..next["reports"]),
                 reports : Seq(1..next["reports"])]
<1>1. /\ copy.space \in 1..next["spaces"] /\ copy.listed \in Seq(1..next["subjects"])
      /\ copy.subjects \in Seq(R)
  BY DEF TypeOK
<1>2. Len(copy.subjects) \in Nat /\ DOMAIN copy.subjects = 1..Len(copy.subjects)
  <2> HIDE DEF R
  <2> QED BY <1>1
<1>3. \A n \in 1..Len(copy.subjects) : copy.subjects[n] \in R
  <2> HIDE DEF R
  <2> QED BY <1>1
<1> QED BY <1>1, <1>2, <1>3

(* A list of fresh ids, or of ids its document lists already, is its own.  *)
LEMMA OwnsFresh ==
    ASSUME TypeOK, OneOwner, CopyIsOwner, NEW w, w.t \in DOMAIN Child, NEW i, w.ids = {i},
           \A x \in Range(w.list) :
               (x \in Nat /\ x > next[Child[w.t]]) \/ (i \in Stored(w.t) /\ x \in Listed(w.t, i))
    PROVE  OwnsList(w)
<1> PICK t : t = w.t
  OBVIOUS
<1> PICK c : c = Child[t]
  OBVIOUS
<1>0. t \in {"spaces", "subjects"} /\ t \in Tables /\ c \in Tables
  BY DEF Child, Tables
<1>1. next[c] \in Nat
  BY <1>0 DEF TypeOK
<1>2. ASSUME NEW j \in Stored(t) PROVE Listed(t, j) \subseteq 1..next[c]
  <2>1. db[t][j] \in Seq(1..next[c])
    BY <1>2 DEF TypeOK
  <2> QED BY <2>1, RangeOfSeq, Zenon DEF Listed
<1>3. ASSUME NEW j \in Stored(t), j # i, NEW x \in Range(w.list), x \in Listed(t, j)
      PROVE  FALSE
  <2>1. x \in 1..next[c]
    BY <1>2, <1>3
  <2>2. i \in Stored(t) /\ x \in Listed(t, i)
    BY <1>1, <1>3, <2>1
  <2> QED BY <1>0, <1>3, <2>2 DEF OneOwner
<1>4. ASSUME copy # None, t = "spaces", copy.space # i, NEW x \in Range(w.list), x \in Range(copy.listed)
      PROVE  FALSE
  <2>1. copy.listed \in Seq(1..next["subjects"]) /\ c = "subjects"
    BY <1>4 DEF TypeOK, Child
  <2>2. x \in 1..next[c]
    BY <1>4, <2>1, RangeOfSeq
  <2>3. i \in Stored(t) /\ x \in Listed(t, i)
    BY <1>1, <1>4, <2>2
  <2> QED BY <1>4, <2>3 DEF CopyIsOwner
<1>5. ASSUME copy # None, t = "subjects", NEW n \in 1..Len(copy.subjects), copy.subjects[n].id # i,
             NEW x \in Range(w.list), x \in Range(copy.subjects[n].listed)
      PROVE  FALSE
  <2>1. copy.subjects[n].listed \in Seq(1..next["reports"])
    BY <1>5, CopyTyped
  <2>0. c = "reports"
    BY <1>5 DEF Child
  <2>2. x \in 1..next[c]
    BY <1>5, <2>0, <2>1, RangeOfSeq
  <2>3. i \in Stored(t) /\ x \in Listed(t, i)
    BY <1>1, <1>5, <2>2
  <2> QED BY <1>5, <2>3 DEF CopyIsOwner
<1> QED BY <1>3, <1>4, <1>5 DEF OwnsList

(* So is what the copy lists.                                              *)
LEMMA OwnsCopied ==
    ASSUME CopyIsTree, CopyIsOwner, copy # None, NEW w
    PROVE  /\ w.t = "spaces" /\ w.ids = {copy.space} /\ Range(w.list) \subseteq Range(copy.listed)
                  => OwnsList(w)
           /\ \A n \in 1..Len(copy.subjects) :
                  /\ w.t = "subjects" /\ w.ids = {copy.subjects[n].id}
                  /\ Range(w.list) \subseteq Range(copy.subjects[n].listed)
                  => OwnsList(w)
<1>1. ASSUME w.t = "spaces", w.ids = {copy.space}, Range(w.list) \subseteq Range(copy.listed)
      PROVE  OwnsList(w)
  BY <1>1 DEF CopyIsOwner, OwnsList
<1>2. ASSUME NEW n \in 1..Len(copy.subjects), w.t = "subjects", w.ids = {copy.subjects[n].id},
             Range(w.list) \subseteq Range(copy.subjects[n].listed)
      PROVE  OwnsList(w)
  <2>1. \A j \in Stored("subjects") \ w.ids : Listed("subjects", j) \cap Range(w.list) = {}
    BY <1>2 DEF CopyIsOwner
  <2>2. ASSUME NEW m \in 1..Len(copy.subjects), copy.subjects[m].id \notin w.ids
        PROVE  Range(copy.subjects[m].listed) \cap Range(w.list) = {}
    <3>1. m # n
      BY <1>2, <2>2
    <3>2. Range(copy.subjects[m].listed) \cap Range(copy.subjects[n].listed) = {}
      BY <3>1, Zenon DEF CopyIsTree, IsTree
    <3> QED BY <1>2, <3>2
  <2> QED BY <1>2, <2>1, <2>2 DEF OwnsList
<1> QED BY <1>1, <1>2

-----------------------------------------------------------------------------
(***************************************************************************)
(* The requests                                                            *)
(***************************************************************************)
LEMMA TablesAre ==
    /\ {"spaces", "subjects"} = DOMAIN Child /\ Child["spaces"] = "subjects" /\ Child["subjects"] = "reports"
    /\ "spaces" \in Tables /\ "subjects" \in Tables /\ "reports" \in Tables
    /\ "reports" \notin DOMAIN Child
BY DEF Child, Tables

LEMMA OnceAlone ==
    ASSUME NEW w, w.t \in Tables, w.do \in {"insert", "update", "delete"}
    PROVE  Once({w})
BY DEF Once

LEMMA TouchedIs ==
    /\ \A t, W, i : i \in Touched(t, W) <=> \E w \in W : w.t = t /\ i \in w.ids
    /\ \A t, do, W, i :
          i \in Touched(t, Those(do, W)) <=> \E w \in W : w.t = t /\ w.do = do /\ i \in w.ids
BY Zenon DEF Touched, Those

LEMMA TouchesNone ==
    ASSUME NEW W, NEW t, NEW do, \A w \in W : ~(w.t = t /\ w.do = do)
    PROVE  Touched(t, Those(do, W)) = {}
<1>1. \A i : i \notin Touched(t, Those(do, W))
  BY Zenon DEF Touched, Those
<1> QED BY <1>1

LEMMA RequestOfOne ==
    ASSUME IInv, Grows, copy' = copy, NEW w, NEW raises, NEW unlisted, NEW saved, NEW given,
           Request(<< <<w>> >>, raises, unlisted, saved, given),
           Fit({w}, raises, unlisted, saved, given)
    PROVE  IInv'
<1> PICK B : B = << <<w>> >>
  OBVIOUS
<1>1. Writes(B) = {w}
  BY OneWrite
<1>2. Fit(Writes(B), raises, unlisted, saved, given) /\ Request(B, raises, unlisted, saved, given)
  BY <1>1
<1> QED BY <1>2, RequestKeeps

LEMMA RequestOfTwo ==
    ASSUME IInv, Grows, copy' = copy, NEW u, NEW w, NEW raises, NEW unlisted, NEW saved, NEW given,
           Request(<< <<u, w>> >>, raises, unlisted, saved, given),
           Fit({u, w}, raises, unlisted, saved, given)
    PROVE  IInv'
<1> PICK B : B = << <<u, w>> >>
  OBVIOUS
<1>1. Writes(B) = {u, w}
  BY TwoWrites
<1>2. Fit(Writes(B), raises, unlisted, saved, given) /\ Request(B, raises, unlisted, saved, given)
  BY <1>1
<1> QED BY <1>2, RequestKeeps

LEMMA NothingNew ==
    ASSUME TypeOK, next' = next PROVE Grows
<1>1. \A t \in Tables : next[t] \in Nat
  BY DEF TypeOK
<1> QED BY <1>1 DEF Grows, TypeOK

LEMMA SomeNew ==
    ASSUME TypeOK, NEW t \in Tables, NEW n \in Nat, Generates(t, n)
    PROVE  Grows /\ next'[t] = next[t] + n
<1>1. \A u \in Tables : next[u] \in Nat /\ next[u] <= MaxIds[u] /\ MaxIds[u] \in Nat
  BY ConsoleAssumption DEF TypeOK
<1>2. next \in [Tables -> Nat] /\ next' = [next EXCEPT ![t] = next[t] + n] /\ next[t] + n <= MaxIds[t]
  BY DEF Generates, TypeOK
<1> QED BY <1>1, <1>2 DEF Grows

LEMMA ConnectStep ==
    ASSUME IInv, Connect PROVE IInv'
<1> PICK i : i = next["spaces"] + 1
  OBVIOUS
<1> PICK w : w = Insert("spaces", i, <<>>)
  OBVIOUS
<1>1. Grows /\ next'["spaces"] = i
  BY TablesAre, SomeNew DEF Connect, IInv
<1>2. Request(<< <<w>> >>, FALSE, {}, {}, {}) /\ copy' = copy
  BY DEF Connect
<1>3. w.do = "insert" /\ w.t = "spaces" /\ w.ids = {i} /\ w.list = <<>> /\ Range(w.list) = {}
  BY DEF Insert, Range
<1>4. Once({w})
  BY <1>3, TablesAre DEF Once
<1>5. Typed({w})
  <2>1. next["spaces"] \in Nat
    BY TablesAre DEF IInv, TypeOK
  <2>2. {i} \subseteq 1..next'["spaces"]
    BY <1>1, <2>1
  <2>3. \A S : <<>> \in Seq(S)
    OBVIOUS
  <2> QED BY <1>3, <2>2, <2>3, Zenon DEF Typed
<1>6. Owned({w})
  BY <1>3, TablesAre, OwnsFresh DEF Owned, Storing, IInv
<1>7. ListsSubjects({w}, FALSE, {})
  BY <1>3, TouchedIs DEF ListsSubjects
<1>8. KeepsReports({w}, {}, {})
  BY <1>3 DEF KeepsReports
<1>9. Fit({w}, FALSE, {}, {}, {})
  BY <1>4, <1>5, <1>6, <1>7, <1>8 DEF Fit
<1> QED BY <1>1, <1>2, <1>9, RequestOfOne

LEMMA SubjectIdsAre ==
    ASSUME TypeOK, CopyIsTree, copy # None
    PROVE  /\ SubjectIds(copy) \in Seq(1..next["subjects"])
           /\ Range(SubjectIds(copy)) \subseteq Range(copy.listed)
           /\ \A n \in 1..Len(copy.subjects) : copy.subjects[n].id \in Range(SubjectIds(copy))
<1> PICK ids : ids = SubjectIds(copy)
  OBVIOUS
<1>1. /\ Len(copy.subjects) \in Nat /\ DOMAIN copy.subjects = 1..Len(copy.subjects)
      /\ \A n \in 1..Len(copy.subjects) : copy.subjects[n].id \in 1..next["subjects"]
  BY CopyTyped
<1>2. ids = [n \in 1..Len(copy.subjects) |-> copy.subjects[n].id]
  BY <1>1 DEF SubjectIds
<1>3. ids \in Seq(1..next["subjects"]) /\ Len(ids) = Len(copy.subjects)
  BY <1>1, <1>2
<1>4. \A x : x \in Range(ids) <=> \E n \in 1..Len(copy.subjects) : copy.subjects[n].id = x
  BY <1>2 DEF Range
<1>5. \A n \in 1..Len(copy.subjects) : copy.subjects[n].id \in Range(copy.listed)
  BY DEF CopyIsTree, IsTree
<1> QED BY <1>3, <1>4, <1>5

LEMMA SaveSpaceStep ==
    ASSUME IInv, SaveSpace PROVE IInv'
<1> PICK w, unlisted :
        /\ w = Update("spaces", copy.space, SubjectIds(copy))
        /\ unlisted = (IF copy.space \in Stored("spaces") THEN Listed("spaces", copy.space) ELSE {})
                          \ Range(SubjectIds(copy))
  OBVIOUS
<1>1. Request(<< <<w>> >>, FALSE, unlisted, {}, {}) /\ copy' = copy /\ next' = next /\ copy # None
  BY DEF SaveSpace
<1>2. Grows
  BY <1>1, NothingNew DEF IInv
<1>3. w.do = "update" /\ w.t = "spaces" /\ w.ids = {copy.space} /\ w.list = SubjectIds(copy)
  BY DEF Update
<1>4. w.list \in Seq(1..next["subjects"]) /\ Range(w.list) \subseteq Range(copy.listed)
  BY <1>1, <1>3, SubjectIdsAre DEF IInv
<1>5. Once({w})
  BY <1>3, TablesAre DEF Once
<1>6. Typed({w})
  BY <1>1, <1>3, <1>4, TablesAre DEF Typed
<1>7. Owned({w})
  BY <1>1, <1>3, <1>4, OwnsCopied DEF Owned, Storing, IInv
<1>8. ListsSubjects({w}, FALSE, unlisted)
  BY <1>3, TouchedIs DEF ListsSubjects
<1>9. KeepsReports({w}, {}, {})
  BY <1>3 DEF KeepsReports
<1>10. Fit({w}, FALSE, unlisted, {}, {})
  BY <1>5, <1>6, <1>7, <1>8, <1>9 DEF Fit
<1> QED BY <1>1, <1>2, <1>10, RequestOfOne

LEMMA SaveSubjectStep ==
    ASSUME IInv, NEW n, SaveSubject(n) PROVE IInv'
<1> PICK c : c = copy.subjects[n]
  OBVIOUS
<1> PICK w, given :
        /\ w = Update("subjects", c.id, c.listed \o c.reports)
        /\ given = ReportsOf({c.id}) \ Range(c.listed)
  OBVIOUS
<1>1. /\ Request(<< <<w>> >>, FALSE, {}, {}, given)
      /\ copy' = copy /\ next' = next /\ copy # None /\ n \in DOMAIN copy.subjects
  BY DEF SaveSubject
<1>2. Grows
  BY <1>1, NothingNew DEF IInv
<1>3. w.do = "update" /\ w.t = "subjects" /\ w.ids = {c.id} /\ w.list = c.listed \o c.reports
  BY DEF Update
<1>4. n \in 1..Len(copy.subjects) /\ c.listed \in Seq(1..next["reports"]) /\ c.reports \in Seq(1..next["reports"])
  BY <1>1, CopyTyped DEF IInv
<1>5. w.list \in Seq(1..next["reports"]) /\ Range(w.list) = Range(c.listed) \cup Range(c.reports)
  <2> PICK x, y, S : x = c.listed /\ y = c.reports /\ S = 1..next["reports"]
    OBVIOUS
  <2>1. x \o y \in Seq(S) /\ Range(x \o y) = Range(x) \cup Range(y)
    BY <1>4, ConcatRange
  <2> QED BY <1>3, <2>1
<1>6. Range(w.list) = Range(c.listed)
  <2>0. IsTree(copy)
    BY <1>1 DEF IInv, CopyIsTree
  <2>1. Range(c.reports) \subseteq Range(c.listed)
    BY <1>4, <2>0 DEF IsTree
  <2> QED BY <1>5, <2>1
<1>7. Once({w})
  BY <1>3, TablesAre, OnceAlone
<1>8. Typed({w})
  BY <1>1, <1>3, <1>5, TablesAre DEF Typed
<1>9. Owned({w})
  <2>1. OwnsList(w)
    BY <1>1, <1>3, <1>4, <1>6, OwnsCopied DEF IInv
  <2> QED BY <2>1 DEF Owned, Storing
<1>10. ListsSubjects({w}, FALSE, {})
  <2>1. Touched("subjects", Those("insert", {w})) = {}
    BY <1>3, TouchesNone
  <2> QED BY <1>3, <2>1 DEF ListsSubjects
<1>11. KeepsReports({w}, {}, given)
  <2>1. \A r : c.id \in Stored("subjects") /\ r \in Listed("subjects", c.id) =>
            r \in Range(w.list) \/ r \in given
    BY <1>6, Zenon DEF ReportsOf
  <2>2. ASSUME NEW i \in w.ids \cap Stored("subjects"), NEW r \in Listed("subjects", i)
        PROVE  r \in Range(w.list) \/ r \in given
    <3>1. i = c.id
      BY <1>3
    <3> QED BY <2>1, <3>1
  <2>3. w.t = "subjects" /\ w.do = "update"
    BY <1>3
  <2> QED BY <2>2, <2>3 DEF KeepsReports
<1>12. Fit({w}, FALSE, {}, {}, given)
  BY <1>7, <1>8, <1>9, <1>10, <1>11 DEF Fit
<1> QED BY <1>1, <1>2, <1>12, RequestOfOne

(* A list stored in a document that is there, or the fresh ids of a new one.*)
LEMMA StoredList ==
    ASSUME TypeOK, NEW t \in DOMAIN Child, NEW i \in Stored(t)
    PROVE  db[t][i] \in Seq(1..next[Child[t]]) /\ i \in 1..next[t]
<1>1. t \in Tables
  BY DEF Child, Tables
<1> QED BY <1>1 DEF TypeOK

LEMMA DeleteSpaceStep ==
    ASSUME IInv, NEW s, DeleteSpace(s) PROVE IInv'
<1> PICK d, w, given :
        /\ d = Delete("subjects", Listed("spaces", s)) /\ w = Delete("spaces", {s})
        /\ given = ReportsOf(Listed("spaces", s))
  OBVIOUS
<1>1. /\ Request(<< IF db["spaces"][s] = <<>> THEN <<w>> ELSE <<d, w>> >>, FALSE, {}, {}, given)
      /\ copy' = copy /\ next' = next /\ s \in Stored("spaces")
  BY DEF DeleteSpace
<1>2. Grows
  BY <1>1, NothingNew DEF IInv
<1>3. /\ d.do = "delete" /\ d.t = "subjects" /\ d.ids = Listed("spaces", s)
      /\ w.do = "delete" /\ w.t = "spaces" /\ w.ids = {s}
  BY DEF Delete
<1>4. ASSUME NEW W, W \subseteq {d, w}
      PROVE  Once(W) /\ Typed(W) /\ Owned(W)
  <2>1. \A v \in W : v = d \/ v = w
    BY <1>4
  <2>2. Once(W)
    BY <1>3, <2>1, TablesAre DEF Once
  <2>3. Typed(W)
    BY <1>3, <2>1 DEF Typed
  <2>4. Owned(W)
    BY <1>3, <2>1 DEF Owned, Storing
  <2> QED BY <2>2, <2>3, <2>4
<1>5. ASSUME NEW W, W \subseteq {d, w}, d \in W \/ Listed("spaces", s) = {}
      PROVE  ListsSubjects(W, FALSE, {}) /\ KeepsReports(W, {}, given)
  <2>1. \A v \in W : v = d \/ v = w
    BY <1>5
  <2>2. \A i \in Listed("spaces", s) : i \in Touched("subjects", Those("delete", W))
    BY <1>3, <1>5, Zenon DEF Touched, Those
  <2>3. Touched("subjects", Those("insert", W)) = {}
    BY <1>3, <2>1, TouchesNone
  <2>4. ListsSubjects(W, FALSE, {})
    BY <1>3, <2>1, <2>2, <2>3 DEF ListsSubjects
  <2>5. \A i \in Listed("spaces", s) \cap Stored("subjects") : \A r \in Listed("subjects", i) : r \in given
    BY Zenon DEF ReportsOf
  <2>6. KeepsReports(W, {}, given)
    BY <1>3, <2>1, <2>5 DEF KeepsReports
  <2> QED BY <2>4, <2>6
<1>6. CASE db["spaces"][s] = <<>>
  <2>1. Request(<< <<w>> >>, FALSE, {}, {}, given)
    BY <1>1, <1>6
  <2>2. Listed("spaces", s) = {}
    BY <1>6 DEF Listed, Range
  <2>3. Fit({w}, FALSE, {}, {}, given)
    BY <1>4, <1>5, <2>2 DEF Fit
  <2> QED BY <1>1, <1>2, <2>1, <2>3, RequestOfOne
<1>7. CASE db["spaces"][s] # <<>>
  <2>1. Request(<< <<d, w>> >>, FALSE, {}, {}, given)
    BY <1>1, <1>7
  <2>3. Fit({d, w}, FALSE, {}, {}, given)
    BY <1>4, <1>5 DEF Fit
  <2> QED BY <1>1, <1>2, <2>1, <2>3, RequestOfTwo
<1> QED BY <1>6, <1>7

LEMMA NewIdsAre ==
    ASSUME NEW m \in Nat, NEW n \in Nat
    PROVE  /\ NewIds(m, n) \in Seq(1..m + n)
           /\ \A x : x \in Range(NewIds(m, n)) <=> x \in m + 1..m + n
<1> PICK q : q = NewIds(m, n)
  OBVIOUS
<1>1. q = [k \in 1..n |-> m + k]
  BY DEF NewIds
<1>2. q \in Seq(1..m + n)
  BY <1>1
<1>3. \A x : x \in Range(q) <=> \E k \in 1..n : m + k = x
  BY <1>1 DEF Range
<1>4. ASSUME NEW x \in m + 1..m + n PROVE \E k \in 1..n : m + k = x
  <2>1. x \in Int /\ m + 1 <= x /\ x <= m + n
    OBVIOUS
  <2>2. PICK k \in Int : k = x - m
    BY <2>1
  <2>3. k \in 1..n /\ m + k = x
    BY <2>1, <2>2
  <2> QED BY <2>3
<1>5. \A k \in 1..n : m + k \in m + 1..m + n
  OBVIOUS
<1> QED BY <1>2, <1>3, <1>4, <1>5

LEMMA CreateSubjectStep ==
    ASSUME IInv, NEW s, NEW n \in 0..1, CreateSubject(s, n) PROVE IInv'
<1> PICK i, list : i = next["subjects"] + 1 /\ list = db["spaces"][s]
  OBVIOUS
<1> PICK u, w : /\ u = Insert("subjects", i, NewIds(next["reports"], n))
                /\ w = Update("spaces", s, Append(list, i))
  OBVIOUS
<1>0. \/ Request(<< <<u, w>> >>, FALSE, {}, {}, {}) /\ s \in Stored("spaces")
      \/ Request(<< <<u>> >>, TRUE, {}, {}, {})
  BY DEF CreateSubject
<1>1. /\ copy' = copy
      /\ next["reports"] + n <= MaxIds["reports"] /\ next["subjects"] < MaxIds["subjects"]
      /\ next' = [next EXCEPT !["subjects"] = next["subjects"] + 1, !["reports"] = next["reports"] + n]
  BY DEF CreateSubject
<1>2. /\ \A t \in Tables : next[t] \in Nat /\ next[t] <= MaxIds[t] /\ MaxIds[t] \in Nat
      /\ next \in [Tables -> Nat]
  BY ConsoleAssumption DEF IInv, TypeOK
<1>3. Grows /\ next'["subjects"] = i /\ next'["reports"] = next["reports"] + n /\ next["subjects"] \in Nat
  BY <1>1, <1>2, TablesAre DEF Grows
<1>4. /\ u.do = "insert" /\ u.t = "subjects" /\ u.ids = {i} /\ u.list = NewIds(next["reports"], n)
      /\ w.do = "update" /\ w.t = "spaces" /\ w.ids = {s} /\ w.list = Append(list, i)
  BY DEF Insert, Update
<1>5. /\ u.list \in Seq(1..next["reports"] + n)
      /\ \A x \in Range(u.list) : x \in Nat /\ x > next["reports"]
  <2>1. next["reports"] \in Nat /\ n \in Nat
    BY <1>2, TablesAre
  <2> PICK k : k = next["reports"]
    OBVIOUS
  <2>2. \A x \in k + 1..k + n : x \in Nat /\ x > k
    BY <2>1
  <2>3. /\ NewIds(k, n) \in Seq(1..k + n)
        /\ \A x : x \in Range(NewIds(k, n)) <=> x \in k + 1..k + n
    BY <2>1, NewIdsAre
  <2> QED BY <1>4, <2>2, <2>3
<1>6. {i} \subseteq 1..next'["subjects"]
  BY <1>3
<1>7. OwnsList(u)
  BY <1>4, <1>5, TablesAre, OwnsFresh DEF IInv
<1>8. CASE Request(<< <<u, w>> >>, FALSE, {}, {}, {}) /\ s \in Stored("spaces")
  <2>1. list \in Seq(1..i) /\ i \in 1..i
    <3>1. list \in Seq(1..next["subjects"])
      BY <1>8, StoredList, TablesAre DEF IInv
    <3> QED BY <1>3, <3>1, SeqGrows
  <2>2. w.list \in Seq(1..i) /\ Range(w.list) = Range(list) \cup {i}
    <3> PICK S : S = 1..i
      OBVIOUS
    <3>1. Append(list, i) \in Seq(S) /\ Range(Append(list, i)) = Range(list) \cup {i}
      BY <2>1, AppendRange
    <3> QED BY <1>4, <3>1
  <2>3. Once({u, w})
    BY <1>4, TablesAre DEF Once
  <2>4. Typed({u, w})
    BY <1>3, <1>4, <2>2, <1>5, <1>6, TablesAre DEF Typed
  <2>5. Owned({u, w})
    <3>1. OwnsList(w)
      <4>1. \A x \in Range(w.list) : (x \in Nat /\ x > next["subjects"]) \/ x \in Listed("spaces", s)
        BY <1>3, <2>2 DEF Listed
      <4> QED BY <1>4, <1>8, <4>1, TablesAre, OwnsFresh DEF IInv
    <3> QED BY <1>4, <1>7, <3>1 DEF Owned, Storing
  <2>6. ListsSubjects({u, w}, FALSE, {})
    <3>1. \A j \in Touched("subjects", Those("insert", {u, w})) : j = i
      <4>1. ASSUME NEW j \in Touched("subjects", Those("insert", {u, w})) PROVE j = i
        <5>1. \E v \in {u, w} : v.t = "subjects" /\ j \in v.ids
          BY Zenon DEF Touched, Those
        <5> QED BY <1>4, <5>1
      <4> QED BY <4>1
    <3>2. Changes(w) /\ i \in Range(w.list)
      BY <1>4, <1>8, <2>2 DEF Changes
    <3> QED BY <1>4, <2>2, <3>1, <3>2 DEF ListsSubjects, Listed
  <2>7. KeepsReports({u, w}, {}, {})
    BY <1>4 DEF KeepsReports
  <2>8. Fit({u, w}, FALSE, {}, {}, {})
    BY <2>3, <2>4, <2>5, <2>6, <2>7 DEF Fit
  <2> QED BY <1>1, <1>3, <1>8, <2>8, RequestOfTwo
<1>9. CASE Request(<< <<u>> >>, TRUE, {}, {}, {})
  <2>1. Once({u}) /\ Typed({u}) /\ Owned({u})
    BY <1>3, <1>4, <1>5, <1>6, <1>7, TablesAre DEF Once, Typed, Owned, Storing
  <2>2. ListsSubjects({u}, TRUE, {})
    BY <1>4 DEF ListsSubjects
  <2>3. KeepsReports({u}, {}, {})
    BY <1>4 DEF KeepsReports
  <2>4. Fit({u}, TRUE, {}, {}, {})
    BY <2>1, <2>2, <2>3 DEF Fit
  <2> QED BY <1>1, <1>3, <1>9, <2>4, RequestOfOne
<1> QED BY <1>0, <1>8, <1>9

LEMMA DeleteSubjectStep ==
    ASSUME IInv, NEW i, DeleteSubject(i) PROVE IInv'
<1> PICK d, given : d = Delete("subjects", {i}) /\ given = ReportsOf({i})
  OBVIOUS
<1>1. copy' = copy /\ next' = next
  BY DEF DeleteSubject
<1>2. Grows
  BY <1>1, NothingNew DEF IInv
<1>3. d.do = "delete" /\ d.t = "subjects" /\ d.ids = {i}
  BY DEF Delete
<1>4. \A r : i \in Stored("subjects") /\ r \in Listed("subjects", i) => r \in given
  BY Zenon DEF ReportsOf
<1>5. CASE Request(<< <<d>> >>, TRUE, {}, {}, given)
  <2>1. Once({d}) /\ Typed({d}) /\ Owned({d})
    BY <1>3, TablesAre DEF Once, Typed, Owned, Storing
  <2>2. ListsSubjects({d}, TRUE, {})
    BY <1>3 DEF ListsSubjects
  <2>3. KeepsReports({d}, {}, given)
    BY <1>3, <1>4 DEF KeepsReports
  <2>4. Fit({d}, TRUE, {}, {}, given)
    BY <2>1, <2>2, <2>3 DEF Fit
  <2> QED BY <1>1, <1>2, <1>5, <2>4, RequestOfOne
<1>6. ASSUME NEW s \in ListingSpaces(i), NEW n \in First(db["spaces"][s], i),
             Request(<< <<d, Update("spaces", s, Without(db["spaces"][s], n))>> >>, FALSE, {}, {}, given)
      PROVE  IInv'
  <2> PICK list, w : list = db["spaces"][s] /\ w = Update("spaces", s, Without(list, n))
    OBVIOUS
  <2>1. w.do = "update" /\ w.t = "spaces" /\ w.ids = {s} /\ w.list = Without(list, n)
    BY DEF Update
  <2>2. s \in Stored("spaces") /\ list \in Seq(1..next["subjects"])
    <3>1. s \in Stored("spaces")
      BY DEF ListingSpaces
    <3> QED BY <3>1, StoredList, TablesAre DEF IInv
  <2>3. /\ w.list \in Seq(1..next["subjects"]) /\ Range(w.list) \subseteq Range(list)
        /\ \A x \in Range(list) : x # i => x \in Range(w.list)
    BY <2>1, <2>2, WithoutRange
  <2>4. Once({d, w})
    BY <1>3, <2>1, TablesAre DEF Once
  <2>5. Typed({d, w})
    BY <1>1, <1>3, <2>1, <2>3, TablesAre DEF Typed
  <2>6. Owned({d, w})
    <3>1. \A x \in Range(w.list) : x \in Listed("spaces", s)
      BY <2>3 DEF Listed
    <3>2. OwnsList(w)
      BY <2>1, <2>2, <3>1, TablesAre, OwnsFresh DEF IInv
    <3> QED BY <1>3, <3>2 DEF Owned, Storing
  <2>7. ListsSubjects({d, w}, FALSE, {})
    <3>1. i \in Touched("subjects", Those("delete", {d, w}))
      BY <1>3, Zenon DEF Touched, Those
    <3>2. Touched("subjects", Those("insert", {d, w})) = {}
      BY <1>3, <2>1, TouchesNone
    <3>3. \A x \in Listed("spaces", s) : x = i \/ x \in Range(w.list)
      BY <2>3 DEF Listed
    <3> QED BY <1>3, <2>1, <3>1, <3>2, <3>3 DEF ListsSubjects
  <2>8. KeepsReports({d, w}, {}, given)
    BY <1>3, <1>4, <2>1 DEF KeepsReports
  <2>9. Fit({d, w}, FALSE, {}, {}, given)
    BY <2>4, <2>5, <2>6, <2>7, <2>8 DEF Fit
  <2> QED BY <1>1, <1>2, <1>6, <2>9, RequestOfTwo
<1> QED BY <1>5, <1>6 DEF DeleteSubject

LEMMA SaveReportStep ==
    ASSUME IInv, NEW i, SaveReport(i) PROVE IInv'
<1> PICK r, list : r = next["reports"] + 1 /\ list = db["subjects"][i]
  OBVIOUS
<1> PICK u, w : /\ u = Insert("reports", r, <<>>)
                /\ w = Update("subjects", i, Append(list, r))
  OBVIOUS
<1>1. copy' = copy /\ Grows /\ next'["reports"] = r
  BY TablesAre, SomeNew DEF SaveReport, IInv
<1>2. /\ u.do = "insert" /\ u.t = "reports" /\ u.ids = {r}
      /\ w.do = "update" /\ w.t = "subjects" /\ w.ids = {i} /\ w.list = Append(list, r)
  BY DEF Insert, Update
<1>3. next["reports"] \in Nat /\ r \in Nat /\ r > next["reports"] /\ r \in 1..r
  <2>1. next["reports"] \in Nat
    BY TablesAre DEF IInv, TypeOK
  <2> QED BY <2>1
<1>4. {r} \subseteq 1..next'["reports"]
  BY <1>1, <1>3
<1>5. CASE i \in Stored("subjects") /\ Request(<< <<u, w>> >>, FALSE, {}, {r}, {})
  <2>1. list \in Seq(1..r)
    <3>1. list \in Seq(1..next["reports"])
      BY <1>5, StoredList, TablesAre DEF IInv
    <3> QED BY <1>3, <3>1, SeqGrows
  <2>2. w.list \in Seq(1..r) /\ Range(w.list) = Range(list) \cup {r}
    <3> PICK S : S = 1..r
      OBVIOUS
    <3>1. Append(list, r) \in Seq(S) /\ Range(Append(list, r)) = Range(list) \cup {r}
      BY <1>3, <2>1, AppendRange
    <3> QED BY <1>2, <3>1
  <2>3. Once({u, w})
    BY <1>2, TablesAre DEF Once
  <2>4. Typed({u, w})
    BY <1>1, <1>2, <1>4, <2>2, TablesAre DEF Typed
  <2>5. Owned({u, w})
    <3>1. \A x \in Range(w.list) : (x \in Nat /\ x > next["reports"]) \/ x \in Listed("subjects", i)
      BY <1>3, <2>2 DEF Listed
    <3>2. OwnsList(w)
      BY <1>2, <1>5, <3>1, TablesAre, OwnsFresh DEF IInv
    <3> QED BY <1>2, <3>2, TablesAre DEF Owned, Storing
  <2>6. ListsSubjects({u, w}, FALSE, {})
    <3>1. Touched("subjects", Those("insert", {u, w})) = {}
      BY <1>2, TouchesNone
    <3> QED BY <1>2, <3>1 DEF ListsSubjects
  <2>7. KeepsReports({u, w}, {r}, {})
    <3>1. Changes(w) /\ r \in Range(w.list)
      BY <1>2, <1>5, <2>2 DEF Changes
    <3>2. \A x \in Listed("subjects", i) : x \in Range(w.list)
      BY <2>2 DEF Listed
    <3> QED BY <1>2, <3>1, <3>2 DEF KeepsReports
  <2>8. Fit({u, w}, FALSE, {}, {r}, {})
    BY <2>3, <2>4, <2>5, <2>6, <2>7 DEF Fit
  <2> QED BY <1>1, <1>5, <2>8, RequestOfTwo
<1>6. CASE Request(<< <<u>> >>, TRUE, {}, {}, {})
  <2>1. Once({u}) /\ Typed({u}) /\ Owned({u})
    BY <1>2, <1>4, TablesAre DEF Once, Typed, Owned, Storing
  <2>2. ListsSubjects({u}, TRUE, {})
    BY <1>2 DEF ListsSubjects
  <2>3. KeepsReports({u}, {}, {})
    BY <1>2 DEF KeepsReports
  <2>4. Fit({u}, TRUE, {}, {}, {})
    BY <2>1, <2>2, <2>3 DEF Fit
  <2> QED BY <1>1, <1>6, <2>4, RequestOfOne
<1> QED BY <1>5, <1>6 DEF SaveReport

LEMMA DeleteReportStep ==
    ASSUME IInv, NEW r, DeleteReport(r) PROVE IInv'
<1>0. PICK i \in Stored("subjects") : \E n \in First(db["subjects"][i], r) :
          Request(<< <<Update("subjects", i, Without(db["subjects"][i], n)), Delete("reports", {r})>> >>,
                  FALSE, {}, {}, {r})
  BY Zenon DEF DeleteReport
<1>1. PICK n \in First(db["subjects"][i], r) :
          Request(<< <<Update("subjects", i, Without(db["subjects"][i], n)), Delete("reports", {r})>> >>,
                  FALSE, {}, {}, {r})
  BY <1>0
<1>2. copy' = copy /\ next' = next
  BY DEF DeleteReport
<1> PICK list : list = db["subjects"][i]
  OBVIOUS
<1> PICK w, d : w = Update("subjects", i, Without(list, n)) /\ d = Delete("reports", {r})
  OBVIOUS
<1>3. Grows
  BY <1>2, NothingNew DEF IInv
<1>4. /\ w.do = "update" /\ w.t = "subjects" /\ w.ids = {i} /\ w.list = Without(list, n)
      /\ d.do = "delete" /\ d.t = "reports" /\ d.ids = {r}
  BY DEF Update, Delete
<1>5. list \in Seq(1..next["reports"])
  BY StoredList, TablesAre DEF IInv
<1>6. /\ w.list \in Seq(1..next["reports"]) /\ Range(w.list) \subseteq Range(list)
      /\ \A x \in Range(list) : x # r => x \in Range(w.list)
  BY <1>4, <1>5, WithoutRange
<1>7. Once({w, d})
  BY <1>4, TablesAre DEF Once
<1>8. Typed({w, d})
  BY <1>2, <1>4, <1>6, TablesAre DEF Typed
<1>9. Owned({w, d})
  <2>1. \A x \in Range(w.list) : x \in Listed("subjects", i)
    BY <1>6 DEF Listed
  <2>2. OwnsList(w)
    BY <1>4, <2>1, TablesAre, OwnsFresh DEF IInv
  <2> QED BY <1>4, <2>2 DEF Owned, Storing
<1>10. ListsSubjects({w, d}, FALSE, {})
  <2>1. Touched("subjects", Those("insert", {w, d})) = {}
    BY <1>4, TouchesNone
  <2> QED BY <1>4, <2>1 DEF ListsSubjects
<1>11. KeepsReports({w, d}, {}, {r})
  <2>1. \A x \in Listed("subjects", i) : x \in Range(w.list) \/ x \in {r}
    BY <1>6 DEF Listed
  <2> QED BY <1>4, <2>1 DEF KeepsReports
<1>12. Fit({w, d}, FALSE, {}, {}, {r})
  BY <1>7, <1>8, <1>9, <1>10, <1>11 DEF Fit
<1> QED BY <1>1, <1>2, <1>3, <1>12, RequestOfTwo

(* A batch that ends with one more write, and batches that end with one    *)
(* more batch.                                                             *)
LEMMA OneMore ==
    ASSUME NEW n \in Nat, NEW q, q = [k \in 1..n |-> q[k]], NEW w
    PROVE  /\ DOMAIN (q \o <<w>>) = 1..n + 1
           /\ \A k \in 1..n : (q \o <<w>>)[k] = q[k]
           /\ (q \o <<w>>)[n + 1] = w
<1> PICK S : S = {q[k] : k \in 1..n} \cup {w}
  OBVIOUS
<1>1. q \in [1..n -> S]
  OBVIOUS
<1>2. q \in Seq(S) /\ Len(q) = n /\ <<w>> \in Seq(S) /\ Len(<<w>>) = 1
  BY <1>1
<1>3. q \o <<w>> \in Seq(S) /\ Len(q \o <<w>>) = n + 1
  BY <1>2
<1>4. DOMAIN (q \o <<w>>) = 1..n + 1
  BY <1>3
<1>5. \A k \in 1..n : (q \o <<w>>)[k] = q[k]
  BY <1>2
<1>6. (q \o <<w>>)[n + 1] = w
  BY <1>2
<1> QED BY <1>4, <1>5, <1>6

(* B is batches of len, each with more writes Q[n] and then the write U[n]. *)
Batched(B, len, Q, U) ==
    /\ DOMAIN B = 1..len
    /\ \A n \in 1..len :
          /\ \E k \in Nat : Q[n] = [m \in 1..k |-> Q[n][m]]
          /\ B[n] = Q[n] \o <<U[n]>>

LEMMA BatchedWrite ==
    ASSUME NEW len \in Nat, NEW Q, NEW U, NEW B, Batched(B, len, Q, U), NEW w \in Writes(B)
    PROVE  \E n \in 1..len : w = U[n] \/ \E m \in DOMAIN Q[n] : w = Q[n][m]
<1>1. \E n \in DOMAIN B : \E m \in DOMAIN B[n] : w = B[n][m]
  BY WriteOf
<1>2. PICK n \in 1..len : \E m \in DOMAIN B[n] : w = B[n][m]
  BY <1>1 DEF Batched
<1> PICK q, u : q = Q[n] /\ u = U[n]
  OBVIOUS
<1>3. B[n] = q \o <<u>>
  BY DEF Batched
<1>4. PICK k \in Nat : q = [m \in 1..k |-> q[m]]
  BY DEF Batched
<1>5. /\ DOMAIN (q \o <<u>>) = 1..k + 1
      /\ \A m \in 1..k : (q \o <<u>>)[m] = q[m]
      /\ (q \o <<u>>)[k + 1] = u
  BY <1>4, OneMore
<1>6. PICK m \in 1..k + 1 : w = B[n][m]
  BY <1>2, <1>3, <1>5
<1>7. CASE m \in 1..k
  <2>1. m \in DOMAIN q /\ w = q[m]
    BY <1>3, <1>4, <1>5, <1>6, <1>7
  <2> QED BY <2>1
<1>8. CASE m = k + 1
  BY <1>3, <1>5, <1>6, <1>8
<1>9. m \in 1..k \/ m = k + 1
  BY <1>4
<1> QED BY <1>7, <1>8, <1>9

LEMMA LastWrite ==
    ASSUME NEW len \in Nat, NEW B, DOMAIN B = 1..len, B = [n \in 1..len |-> B[n]], NEW v
    PROVE  /\ v \in Writes(B \o << <<v>> >>)
           /\ \A w \in Writes(B \o << <<v>> >>) : w \in Writes(B) \/ w = v
           /\ B \o <<>> = B
<1> PICK C : C = B \o << <<v>> >>
  OBVIOUS
<1>1. /\ DOMAIN C = 1..len + 1 /\ \A n \in 1..len : C[n] = B[n]
      /\ C[len + 1] = <<v>>
  BY OneMore
<1>3. DOMAIN C[len + 1] = {1} /\ C[len + 1][1] = v
  BY <1>1
<1>4. /\ \A n \in 1..len + 1 : n \in 1..len \/ n = len + 1
      /\ len + 1 \in 1..len + 1
  OBVIOUS
<1>5. ASSUME NEW w \in Writes(C) PROVE w \in Writes(B) \/ w = v
  <2>1. \E n \in DOMAIN C : \E k \in DOMAIN C[n] : w = C[n][k]
    BY <1>5, WriteOf
  <2>2. PICK n \in 1..len + 1 : \E k \in DOMAIN C[n] : w = C[n][k]
    BY <1>1, <2>1
  <2>3. CASE n \in 1..len
    <3>1. C[n] = B[n] /\ n \in DOMAIN B
      BY <1>1, <2>3
    <3>2. PICK k \in DOMAIN B[n] : w = B[n][k]
      BY <2>2, <3>1
    <3>3. B[n][k] \in Writes(B)
      BY <3>1, WriteIn
    <3> QED BY <3>2, <3>3
  <2>4. CASE n = len + 1
    BY <1>3, <2>2, <2>4
  <2> QED BY <1>4, <2>3, <2>4
<1>6. v \in Writes(C)
  <2>1. len + 1 \in DOMAIN C /\ 1 \in DOMAIN C[len + 1] /\ C[len + 1][1] = v
    BY <1>1, <1>3, <1>4
  <2>2. C[len + 1][1] \in Writes(C)
    BY <2>1, WriteIn
  <2> QED BY <2>1, <2>2
<1>7. B \o <<>> = B
  <2> PICK S : S = {B[n] : n \in 1..len}
    OBVIOUS
  <2>1. B \in Seq(S)
    <3>1. \A n \in 1..len : B[n] \in S
      OBVIOUS
    <3>2. B \in [1..len -> S]
      BY <3>1
    <3> QED BY ONLY <3>2, len \in Nat, SeqDef
  <2> QED BY <2>1
<1> QED BY <1>5, <1>6, <1>7

-----------------------------------------------------------------------------
(***************************************************************************)
(* Writes of a space with all it holds                                     *)
(***************************************************************************)
WriteOne(do, t, i, list) == [do |-> do, t |-> t, ids |-> {i}, list |-> list]

(* Every write is that of a report of R, of the subject sub[n], which lists *)
(* lst[n], for an n up to len, or of the space s.                          *)
TreeOf(W, do, R, len, sub, lst, s, list) ==
    \A w \in W :
        \/ \E r \in R : w = WriteOne(do, "reports", r, <<>>)
        \/ \E n \in 1..len : w = WriteOne(do, "subjects", sub[n], lst[n])
        \/ w = WriteOne(do, "spaces", s, list)

(* Different subjects with different reports.                              *)
Apart(len, sub, lst) ==
    \A n, m \in 1..len : n # m => sub[n] # sub[m] /\ Range(lst[n]) \cap Range(lst[m]) = {}

(* Ids that were given out.                                                *)
GivenOut(do, R, len, sub, lst, s, list) ==
    /\ do = "insert" => R \subseteq 1..next'["reports"] /\ s \in 1..next'["spaces"]
    /\ list \in Seq(1..next'["subjects"])
    /\ \A n \in 1..len :
          /\ sub[n] \in 1..next'["subjects"]
          /\ lst[n] \in Seq(1..next'["reports"])

LEMMA TreeFits ==
    ASSUME NEW do \in {"insert", "update"}, NEW R, NEW len, NEW sub, NEW lst, NEW s, NEW list,
           NEW W, TreeOf(W, do, R, len, sub, lst, s, list), Apart(len, sub, lst),
           GivenOut(do, R, len, sub, lst, s, list),
           OwnsList(WriteOne(do, "spaces", s, list)),
           \A n \in 1..len : OwnsList(WriteOne(do, "subjects", sub[n], lst[n]))
    PROVE  Once(W) /\ Typed(W) /\ Owned(W)
<1>1. ASSUME NEW w \in W
      PROVE  /\ w.do = do /\ w.t \in Tables
             /\ w.t = "reports" => \E r \in R : w = WriteOne(do, "reports", r, <<>>)
             /\ w.t = "subjects" => \E n \in 1..len : w = WriteOne(do, "subjects", sub[n], lst[n])
             /\ w.t = "spaces" => w = WriteOne(do, "spaces", s, list)
  <2>1. \A t, i, l : WriteOne(do, t, i, l).do = do /\ WriteOne(do, t, i, l).t = t
    BY DEF WriteOne
  <2> QED BY <2>1, TablesAre DEF TreeOf
<1>2. \A t, i, l : /\ WriteOne(do, t, i, l).ids = {i} /\ WriteOne(do, t, i, l).list = l
                   /\ WriteOne(do, t, i, l).t = t
  BY DEF WriteOne
<1>3. Once(W)
  <2> SUFFICES ASSUME NEW v \in W, NEW w \in W, v.t = w.t, v.ids \cap w.ids # {}
               PROVE  v = w
    BY <1>1 DEF Once
  <2>1. CASE w.t = "reports"
    <3>1. PICK r \in R : w = WriteOne(do, "reports", r, <<>>)
      BY <1>1, <2>1
    <3>2. PICK q \in R : v = WriteOne(do, "reports", q, <<>>)
      BY <1>1, <2>1
    <3>3. w.ids = {r} /\ v.ids = {q}
      BY <3>1, <3>2 DEF WriteOne
    <3>4. q = r
      BY <3>3
    <3> QED BY <3>1, <3>2, <3>4
  <2>2. CASE w.t = "subjects"
    <3>1. PICK n \in 1..len : w = WriteOne(do, "subjects", sub[n], lst[n])
      BY <1>1, <2>2
    <3>2. PICK m \in 1..len : v = WriteOne(do, "subjects", sub[m], lst[m])
      BY <1>1, <2>2
    <3>3. w.ids = {sub[n]} /\ v.ids = {sub[m]}
      BY <3>1, <3>2 DEF WriteOne
    <3>4. sub[m] = sub[n]
      BY <3>3
    <3>5. m = n
      BY <3>4 DEF Apart
    <3> QED BY <3>1, <3>2, <3>5
  <2>3. CASE w.t = "spaces"
    BY <1>1, <2>3
  <2> QED BY <1>1, <2>1, <2>2, <2>3 DEF Tables
<1>4. Typed(W)
  <2> SUFFICES ASSUME NEW w \in W
               PROVE  /\ w.do = "insert" => w.ids \subseteq 1..next'[w.t]
                      /\ w.t \in DOMAIN Child => w.list \in Seq(1..next'[Child[w.t]])
    BY DEF Typed
  <2>1. CASE w.t = "reports"
    BY <1>1, <1>2, <2>1, TablesAre DEF GivenOut
  <2>2. CASE w.t = "subjects"
    BY <1>1, <1>2, <2>2, TablesAre DEF GivenOut
  <2>3. CASE w.t = "spaces"
    BY <1>1, <1>2, <2>3, TablesAre DEF GivenOut
  <2> QED BY <1>1, <2>1, <2>2, <2>3 DEF Tables
<1>5. Owned(W)
  <2>1. \A w \in Storing(W) : w \in W /\ w.t \in {"spaces", "subjects"}
    BY TablesAre DEF Storing
  <2>2. ASSUME NEW w \in Storing(W) PROVE OwnsList(w)
    BY <1>1, <2>1
  <2>3. ASSUME NEW v \in Storing(W), NEW w \in Storing(W), v # w, v.t = w.t
        PROVE  Range(v.list) \cap Range(w.list) = {}
    <3>1. w.t = "subjects"
      BY <1>1, <2>1, <2>3
    <3>2. PICK n \in 1..len : w = WriteOne(do, "subjects", sub[n], lst[n])
      BY <1>1, <2>1, <3>1
    <3>3. PICK m \in 1..len : v = WriteOne(do, "subjects", sub[m], lst[m])
      BY <1>1, <2>1, <2>3, <3>1
    <3>4. n # m
      BY <2>3, <3>2, <3>3
    <3>5. Range(lst[m]) \cap Range(lst[n]) = {}
      BY <3>4 DEF Apart
    <3> QED BY <1>2, <3>2, <3>3, <3>5
  <2> QED BY <2>2, <2>3 DEF Owned
<1> QED BY <1>3, <1>4, <1>5

(***************************************************************************)
(* Copies under new ids                                                    *)
(***************************************************************************)
(* The new ids of the reports of each list.                                *)
NewReports(lists, id) == [n \in 1..Len(lists) |-> [m \in 1..Len(lists[n]) |-> id[<<n, m>>]]]

LEMMA PlacesAre ==
    ASSUME NEW S, NEW lists \in Seq(Seq(S))
    PROVE  /\ Len(lists) \in Nat /\ DOMAIN lists = 1..Len(lists)
           /\ \A n \in 1..Len(lists) : Len(lists[n]) \in Nat /\ DOMAIN lists[n] = 1..Len(lists[n])
           /\ \A n \in 1..Len(lists) : \A m \in 1..Len(lists[n]) : <<n, m>> \in Places(lists)
<1>1. Len(lists) \in Nat /\ DOMAIN lists = 1..Len(lists) /\ \A n \in 1..Len(lists) : lists[n] \in Seq(S)
  OBVIOUS
<1>2. \A n \in 1..Len(lists) : Len(lists[n]) \in Nat /\ DOMAIN lists[n] = 1..Len(lists[n])
  BY <1>1
<1>3. ASSUME NEW n \in 1..Len(lists), NEW m \in 1..Len(lists[n])
      PROVE  <<n, m>> \in Places(lists)
  BY <1>1, <1>2, <1>3 DEF Places
<1> QED BY <1>1, <1>2, <1>3

LEMMA NewReportsAre ==
    ASSUME NEW S, NEW lists \in Seq(Seq(S)), NEW R, NEW last, NEW id \in Renumberings(lists, last),
           R = next["reports"] + 1 .. last
    PROVE  /\ \A n \in 1..Len(lists) : NewReports(lists, id)[n] \in Seq(R)
           /\ \A n, m \in 1..Len(lists) :
                  n # m => Range(NewReports(lists, id)[n]) \cap Range(NewReports(lists, id)[m]) = {}
<1> PICK lst : lst = NewReports(lists, id)
  OBVIOUS
<1>1. /\ Len(lists) \in Nat
      /\ \A n \in 1..Len(lists) : Len(lists[n]) \in Nat
      /\ \A n \in 1..Len(lists) : \A m \in 1..Len(lists[n]) : <<n, m>> \in Places(lists)
  BY PlacesAre
<1>2. /\ id \in [Places(lists) -> R]
      /\ \A p, q \in Places(lists) : Before(p, q) => id[p] < id[q]
  BY Zenon DEF Renumberings
<1>3. lst = [n \in 1..Len(lists) |-> [m \in 1..Len(lists[n]) |-> id[<<n, m>>]]]
  BY DEF NewReports
<1>4. ASSUME NEW n \in 1..Len(lists)
      PROVE  /\ lst[n] \in Seq(R) /\ Len(lst[n]) = Len(lists[n])
             /\ \A m \in 1..Len(lists[n]) : lst[n][m] = id[<<n, m>>]
  <2> PICK q, k : q = lst[n] /\ k = Len(lists[n])
    OBVIOUS
  <2>1. k \in Nat /\ q = [m \in 1..k |-> id[<<n, m>>]]
    BY <1>1, <1>3
  <2>2. \A m \in 1..k : id[<<n, m>>] \in R
    BY <1>1, <1>2
  <2>3. q \in [1..k -> R]
    BY <2>1, <2>2
  <2>4. q \in Seq(R) /\ Len(q) = k
    <3>1. k \in Nat
      BY <2>1
    <3> QED BY ONLY <2>3, <3>1, FunctionIsSeq
  <2>5. \A m \in 1..k : q[m] = id[<<n, m>>]
    BY <2>1
  <2> QED BY <2>4, <2>5
<1>5. ASSUME NEW n \in 1..Len(lists), NEW m \in 1..Len(lists), n < m,
             NEW x \in Range(lst[n]), x \in Range(lst[m])
      PROVE  FALSE
  <2>1. PICK k \in 1..Len(lists[n]) : x = id[<<n, k>>]
    <3>0. lst[n] \in Seq(R)
      BY <1>4
    <3>1. PICK k \in 1..Len(lst[n]) : lst[n][k] = x
      BY ONLY <1>5, <3>0, RangeIs
    <3> QED BY <1>4, <3>1
  <2>2. PICK j \in 1..Len(lists[m]) : x = id[<<m, j>>]
    <3>0. lst[m] \in Seq(R)
      BY <1>4
    <3>1. PICK j \in 1..Len(lst[m]) : lst[m][j] = x
      BY ONLY <1>5, <3>0, RangeIs
    <3> QED BY <1>4, <3>1
  <2>3. <<n, k>> \in Places(lists) /\ <<m, j>> \in Places(lists) /\ Before(<<n, k>>, <<m, j>>)
    BY <1>1, <1>5 DEF Before
  <2>4. id[<<n, k>>] < id[<<m, j>>] /\ id[<<n, k>>] \in R /\ id[<<m, j>>] \in R
    BY <1>2, <2>3
  <2> QED BY <2>1, <2>2, <2>4
<1>6. ASSUME NEW n \in 1..Len(lists), NEW m \in 1..Len(lists), n # m
      PROVE  Range(lst[n]) \cap Range(lst[m]) = {}
  <2>1. n < m \/ m < n
    BY <1>6
  <2> QED BY <1>5, <2>1
<1> QED BY <1>4, <1>6

(* The batches B of len new subjects list lst[n] each, with reports of R.   *)
StoresNew(B, len, R, lst) ==
    /\ DOMAIN B = 1..len /\ B = [n \in 1..len |-> B[n]]
    /\ \A w \in Writes(B) :
          \/ \E r \in R : w = WriteOne("insert", "reports", r, <<>>)
          \/ \E n \in 1..len : w = WriteOne("insert", "subjects", next["subjects"] + n, lst[n])

LEMMA NewSubjectsWrite ==
    ASSUME NEW S, NEW lists \in Seq(Seq(S)), NEW R, NEW id,
           \A n \in 1..Len(lists) : NewReports(lists, id)[n] \in Seq(R)
    PROVE  StoresNew(NewSubjects(lists, id), Len(lists), R, NewReports(lists, id))
<1> PICK len, lst : len = Len(lists) /\ lst = NewReports(lists, id)
  OBVIOUS
<1> DEFINE Q == [n \in 1..len |-> [m \in DOMAIN lst[n] |-> WriteOne("insert", "reports", lst[n][m], <<>>)]]
           U == [n \in 1..len |-> WriteOne("insert", "subjects", next["subjects"] + n, lst[n])]
           B == NewSubjects(lists, id)
<1>1. len \in Nat /\ DOMAIN lists = 1..len /\ \A n \in 1..len : DOMAIN lists[n] = 1..Len(lists[n])
  BY PlacesAre
<1>2. \A n \in 1..len : lst[n] = [m \in DOMAIN lists[n] |-> id[<<n, m>>]]
  BY <1>1 DEF NewReports
<1>3. B = [n \in 1..len |-> [m \in DOMAIN lst[n] |-> WriteOne("insert", "reports", lst[n][m], <<>>)]
                            \o <<WriteOne("insert", "subjects", next["subjects"] + n, lst[n])>>]
  BY <1>1, <1>2, Zenon DEF NewSubjects, Insert, WriteOne
<1>4. DOMAIN B = 1..len /\ B = [n \in 1..len |-> B[n]] /\ \A n \in 1..len : B[n] = Q[n] \o <<U[n]>>
  <2> HIDE DEF B
  <2> QED BY <1>3, Zenon
<1>5. ASSUME NEW n \in 1..len
      PROVE  \E k \in Nat : Q[n] = [m \in 1..k |-> Q[n][m]]
  <2> PICK k : k = Len(lst[n])
    OBVIOUS
  <2>1. k \in Nat /\ DOMAIN lst[n] = 1..k
    BY <1>1
  <2>2. Q[n] = [m \in 1..k |-> Q[n][m]]
    BY <2>1
  <2> QED BY <2>1, <2>2
<1> HIDE DEF B, Q, U
<1>6. Batched(B, len, Q, U)
  BY <1>4, <1>5 DEF Batched
<1>7. ASSUME NEW w \in Writes(B)
      PROVE  \/ \E r \in R : w = WriteOne("insert", "reports", r, <<>>)
             \/ \E n \in 1..len : w = WriteOne("insert", "subjects", next["subjects"] + n, lst[n])
  <2>1. PICK n \in 1..len : w = U[n] \/ \E m \in DOMAIN Q[n] : w = Q[n][m]
    BY <1>1, <1>6, BatchedWrite
  <2>2. CASE w = U[n]
    BY <2>2 DEF U
  <2>3. CASE \E m \in DOMAIN Q[n] : w = Q[n][m]
    <3>1. PICK m \in DOMAIN lst[n] : w = WriteOne("insert", "reports", lst[n][m], <<>>)
      BY <2>3 DEF Q
    <3>2. lst[n][m] \in R
      <4>1. lst[n] \in Seq(R)
        OBVIOUS
      <4> QED BY <3>1, <4>1
    <3> QED BY <3>1, <3>2
  <2> QED BY <2>1, <2>2, <2>3
<1> QED BY <1>4, <1>7 DEF B, StoresNew

LEMMA CopyOfKeeps ==
    ASSUME IInv, copy' = copy, NEW raises, NEW S, NEW lists \in Seq(Seq(S)),
           CopyOf(lists, raises)
    PROVE  IInv'
<1> PICK len, s : len = Len(lists) /\ s = next["spaces"] + 1
  OBVIOUS
<1> PICK list, w : list = NewIds(next["subjects"], len) /\ w = WriteOne("insert", "spaces", s, list)
  OBVIOUS
<1>1. /\ s <= MaxIds["spaces"] /\ next["subjects"] + len <= MaxIds["subjects"]
      /\ \E last \in next["reports"]..MaxIds["reports"] :
            /\ next' = [spaces |-> s, subjects |-> next["subjects"] + len, reports |-> last]
            /\ \E id \in Renumberings(lists, last) :
                  Request(NewSubjects(lists, id) \o (IF raises THEN <<>> ELSE << <<w>> >>),
                          raises, {}, {}, {})
  BY Zenon DEF CopyOf, Insert, WriteOne
<1>2. PICK last \in next["reports"]..MaxIds["reports"] :
            /\ next' = [spaces |-> s, subjects |-> next["subjects"] + len, reports |-> last]
            /\ \E id \in Renumberings(lists, last) :
                  Request(NewSubjects(lists, id) \o (IF raises THEN <<>> ELSE << <<w>> >>),
                          raises, {}, {}, {})
  BY <1>1
<1>3. PICK id \in Renumberings(lists, last) :
          Request(NewSubjects(lists, id) \o (IF raises THEN <<>> ELSE << <<w>> >>),
                  raises, {}, {}, {})
  BY <1>2
<1> PICK R, lst, B :
        /\ R = next["reports"] + 1 .. last
        /\ lst = NewReports(lists, id)
        /\ B = NewSubjects(lists, id)
  OBVIOUS
<1> PICK sub : sub = [n \in 1..len |-> next["subjects"] + n]
  OBVIOUS
<1>4. len \in Nat
  BY PlacesAre
<1>5. /\ \A t \in Tables : next[t] \in Nat /\ next[t] <= MaxIds[t] /\ MaxIds[t] \in Nat
      /\ next \in [Tables -> Nat]
  BY ConsoleAssumption DEF IInv, TypeOK
<1>6. /\ next["spaces"] \in Nat /\ next["subjects"] \in Nat /\ next["reports"] \in Nat
      /\ MaxIds["reports"] \in Nat
      /\ last \in Nat /\ next["reports"] <= last /\ last <= MaxIds["reports"]
  <2>1. next["reports"] \in Nat /\ MaxIds["reports"] \in Nat
    BY <1>5, TablesAre
  <2> QED BY <1>5, <2>1, TablesAre
<1>7. next'["spaces"] = s /\ next'["subjects"] = next["subjects"] + len /\ next'["reports"] = last
  BY <1>2
<1>8. Grows
  <2>1. next' \in [Tables -> Nat]
    BY <1>2, <1>4, <1>6 DEF Tables
  <2>2. \A t \in Tables : next[t] <= next'[t] /\ next'[t] <= MaxIds[t]
    BY <1>1, <1>4, <1>6, <1>7 DEF Tables
  <2> QED BY <2>1, <2>2 DEF Grows
<1>9. /\ \A n \in 1..len : lst[n] \in Seq(R)
      /\ \A n, m \in 1..len : n # m => Range(lst[n]) \cap Range(lst[m]) = {}
  BY NewReportsAre
<1>10. /\ DOMAIN B = 1..len /\ B = [n \in 1..len |-> B[n]]
       /\ \A v \in Writes(B) :
             \/ \E r \in R : v = WriteOne("insert", "reports", r, <<>>)
             \/ \E n \in 1..len : v = WriteOne("insert", "subjects", sub[n], lst[n])
  <2>0. \A n \in 1..Len(lists) : NewReports(lists, id)[n] \in Seq(R)
    BY <1>9
  <2>1. /\ DOMAIN B = 1..len /\ B = [n \in 1..len |-> B[n]]
        /\ \A v \in Writes(B) :
              \/ \E r \in R : v = WriteOne("insert", "reports", r, <<>>)
              \/ \E n \in 1..len : v = WriteOne("insert", "subjects", next["subjects"] + n, lst[n])
    <3>1. StoresNew(NewSubjects(lists, id), Len(lists), R, NewReports(lists, id))
      BY <2>0, NewSubjectsWrite
    <3>2. StoresNew(B, len, R, lst)
      BY <3>1
    <3> QED BY <3>2, Zenon DEF StoresNew
  <2>2. \A n \in 1..len : sub[n] = next["subjects"] + n
    OBVIOUS
  <2> QED BY <2>1, <2>2
<1>11. /\ list \in Seq(1..next'["subjects"])
       /\ \A x : x \in Range(list) <=> x \in next["subjects"] + 1..next["subjects"] + len
  BY <1>4, <1>6, <1>7, NewIdsAre
<1>12. \A n \in 1..len : sub[n] \in Range(list) /\ sub[n] \in 1..next'["subjects"]
  <2> PICK k : k = next["subjects"]
    OBVIOUS
  <2>1. ASSUME NEW n \in 1..len PROVE sub[n] \in k + 1..k + len /\ sub[n] \in 1..k + len
    <3>1. k \in Nat /\ sub[n] = k + n
      BY <1>6
    <3> QED BY <1>4, <3>1
  <2> QED BY <1>7, <1>11, <2>1
<1>13. Apart(len, sub, lst)
  <2>1. \A n, m \in 1..len : n # m => sub[n] # sub[m]
    BY <1>4, <1>6
  <2> QED BY <1>9, <2>1 DEF Apart
<1>14. GivenOut("insert", R, len, sub, lst, s, list)
  <2>1. R \subseteq 1..last
    BY <1>6
  <2>2. \A n \in 1..len : lst[n] \in Seq(1..last)
    <3>1. ASSUME NEW n \in 1..len PROVE lst[n] \in Seq(1..last)
      <4>1. lst[n] \in Seq(R)
        BY <1>9
      <4> QED BY <2>1, <4>1, SeqMonotonic, Zenon
    <3> QED BY <3>1
  <2>3. s \in 1..s
    BY <1>6
  <2> QED BY <1>7, <1>11, <1>12, <2>1, <2>2, <2>3 DEF GivenOut
<1>15. OwnsList(w)
  <2>1. w.t = "spaces" /\ w.ids = {s} /\ w.list = list
    BY DEF WriteOne
  <2>2. \A x \in Range(list) : x \in Nat /\ x > next["subjects"]
    BY <1>4, <1>6, <1>11
  <2> QED BY <2>1, <2>2, TablesAre, OwnsFresh DEF IInv
<1>16. ASSUME NEW n \in 1..len
       PROVE  OwnsList(WriteOne("insert", "subjects", sub[n], lst[n]))
  <2> PICK u : u = WriteOne("insert", "subjects", sub[n], lst[n])
    OBVIOUS
  <2>1. u.t = "subjects" /\ u.ids = {sub[n]} /\ u.list = lst[n]
    BY DEF WriteOne
  <2>2. Range(lst[n]) \subseteq R
    <3>1. lst[n] \in Seq(R)
      BY <1>9
    <3> QED BY <3>1, RangeIs, Zenon
  <2>3. \A x \in R : x \in Nat /\ x > next["reports"]
    BY <1>6
  <2> QED BY <2>1, <2>2, <2>3, TablesAre, OwnsFresh DEF IInv
<1>17. ASSUME NEW C, Request(C, raises, {}, {}, {}), TreeOf(Writes(C), "insert", R, len, sub, lst, s, list),
              raises \/ w \in Writes(C)
       PROVE  IInv'
  <2> PICK W : W = Writes(C)
    OBVIOUS
  <2>1. Once(W) /\ Typed(W) /\ Owned(W)
    BY <1>13, <1>14, <1>15, <1>16, <1>17, TreeFits
  <2>2. \A v \in W : v.do = "insert" /\ (v.t = "subjects" => \E n \in 1..len : v.ids = {sub[n]})
    <3>1. ASSUME NEW v \in W
          PROVE  \/ \E r \in R : v = WriteOne("insert", "reports", r, <<>>)
                 \/ \E n \in 1..len : v = WriteOne("insert", "subjects", sub[n], lst[n])
                 \/ v = w
      BY <1>17, <3>1, Zenon DEF TreeOf
    <3>2. \A t, i, l : /\ WriteOne("insert", t, i, l).do = "insert"
                        /\ WriteOne("insert", t, i, l).t = t /\ WriteOne("insert", t, i, l).ids = {i}
      BY DEF WriteOne
    <3>3. ASSUME NEW v \in W
          PROVE  v.do = "insert" /\ (v.t = "subjects" => \E n \in 1..len : v.ids = {sub[n]})
      <4>1. CASE \E r \in R : v = WriteOne("insert", "reports", r, <<>>)
        BY <3>2, <4>1
      <4>2. CASE \E n \in 1..len : v = WriteOne("insert", "subjects", sub[n], lst[n])
        <5>1. PICK n \in 1..len : v = WriteOne("insert", "subjects", sub[n], lst[n])
          BY <4>2
        <5>2. v.do = "insert" /\ v.ids = {sub[n]}
          BY <5>1 DEF WriteOne
        <5> QED BY <5>2
      <4>3. CASE v = w
        BY <3>2, <4>3
      <4> QED BY <3>1, <4>1, <4>2, <4>3
    <3> QED BY <3>3
  <2>3. ListsSubjects(W, raises, {})
    <3>1. CASE raises
      BY <2>2, <3>1 DEF ListsSubjects
    <3>2. CASE w \in W
      <4>1. w.t = "spaces" /\ w.ids # {} /\ w.list = list /\ w.do = "insert"
        BY DEF WriteOne
      <4>2. ASSUME NEW i \in Touched("subjects", Those("insert", W)) PROVE i \in Range(list)
        <5>1. PICK v \in W : v.t = "subjects" /\ i \in v.ids
          BY Zenon DEF Touched, Those
        <5> QED BY <1>12, <2>2, <5>1
      <4> QED BY <2>2, <3>2, <4>1, <4>2 DEF ListsSubjects
    <3> QED BY <1>17, <3>1, <3>2
  <2>4. KeepsReports(W, {}, {})
    BY <2>2 DEF KeepsReports
  <2>5. Fit(W, raises, {}, {}, {})
    BY <2>1, <2>3, <2>4 DEF Fit
  <2> QED BY <1>8, <1>17, <2>5, RequestKeeps
<1>18. /\ w \in Writes(B \o << <<w>> >>)
       /\ \A v \in Writes(B \o << <<w>> >>) : v \in Writes(B) \/ v = w
       /\ B \o <<>> = B
  BY <1>4, <1>10, LastWrite
<1>19. CASE raises
  <2>1. Request(B, raises, {}, {}, {})
    BY <1>3, <1>18, <1>19
  <2>2. TreeOf(Writes(B), "insert", R, len, sub, lst, s, list)
    BY <1>10 DEF TreeOf
  <2> QED BY <1>17, <1>19, <2>1, <2>2
<1>20. CASE ~raises
  <2> PICK C : C = B \o << <<w>> >>
    OBVIOUS
  <2>1. Request(C, raises, {}, {}, {})
    BY <1>3, <1>20
  <2>2. TreeOf(Writes(C), "insert", R, len, sub, lst, s, list)
    <3>1. ASSUME NEW v \in Writes(C)
          PROVE  \/ \E r \in R : v = WriteOne("insert", "reports", r, <<>>)
                 \/ \E n \in 1..len : v = WriteOne("insert", "subjects", sub[n], lst[n])
                 \/ v = w
      <4>1. v \in Writes(B) \/ v = w
        BY <1>18
      <4> QED BY <1>10, <4>1, Zenon
    <3> QED BY <3>1, Zenon DEF TreeOf
  <2> QED BY <1>17, <1>18, <2>1, <2>2
<1> QED BY <1>19, <1>20

LEMMA CopyTemplateStep ==
    ASSUME IInv, NEW s, CopyTemplate(s) PROVE IInv'
<1> PICK list : list = db["spaces"][s]
  OBVIOUS
<1>1. copy' = copy /\ s \in Stored("spaces")
  BY DEF CopyTemplate
<1>2. PICK n \in 0..Len(list) :
          /\ \A m \in 1..n : list[m] \in Stored("subjects")
          /\ CopyOf([m \in 1..n |-> db["subjects"][list[m]]], n < Len(list))
  BY Zenon DEF CopyTemplate
<1> PICK lists, S : lists = [m \in 1..n |-> db["subjects"][list[m]]] /\ S = 1..next["reports"]
  OBVIOUS
<1>3. list \in Seq(1..next["subjects"])
  BY <1>1, StoredList, TablesAre DEF IInv
<1>4. \A m \in 1..n : db["subjects"][list[m]] \in Seq(S)
  BY <1>2, StoredList, TablesAre DEF IInv
<1>5. n \in Nat
  BY <1>3
<1>6. lists \in Seq(Seq(S))
  <2> PICK T : T = Seq(S)
    OBVIOUS
  <2>1. lists \in [1..n -> T]
    BY <1>4
  <2> QED BY <1>5, <2>1
<1>7. CopyOf(lists, n < Len(list))
  BY <1>2
<1> QED BY <1>1, <1>6, <1>7, CopyOfKeeps, Zenon

LEMMA ForceNewStep ==
    ASSUME IInv, ForceNewSpace PROVE IInv'
<1> PICK len, S : len = Len(copy.subjects) /\ S = 1..next["reports"]
  OBVIOUS
<1> PICK lists : lists = [n \in DOMAIN copy.subjects |-> copy.subjects[n].reports]
  OBVIOUS
<1>1. copy' = copy /\ copy # None /\ CopyOf(lists, FALSE)
  BY DEF ForceNewSpace
<1>2. len \in Nat /\ DOMAIN copy.subjects = 1..len /\ \A n \in 1..len : copy.subjects[n].reports \in Seq(S)
  BY <1>1, CopyTyped DEF IInv
<1>3. lists \in Seq(Seq(S))
  <2> PICK T : T = Seq(S)
    OBVIOUS
  <2>1. lists \in [1..len -> T]
    BY <1>2
  <2> QED BY <1>2, <2>1
<1> QED BY <1>1, <1>3, CopyOfKeeps

(***************************************************************************)
(* Imports                                                                 *)
(***************************************************************************)
(* What a file makes each subject and the space list.                      *)
FileReports == [n \in 1..Len(copy.subjects) |-> copy.subjects[n].listed \o copy.subjects[n].reports]
FileSubjects == copy.listed \o SubjectIds(copy)

LEMMA FileLists ==
    ASSUME TypeOK, CopyIsTree, copy # None
    PROVE  /\ FileSubjects \in Seq(1..next["subjects"]) /\ Range(FileSubjects) = Range(copy.listed)
           /\ \A n \in 1..Len(copy.subjects) :
                 /\ FileReports[n] \in Seq(1..next["reports"])
                 /\ Range(FileReports[n]) = Range(copy.subjects[n].listed)
                 /\ SubjectIds(copy)[n] = copy.subjects[n].id
<1>1. FileSubjects \in Seq(1..next["subjects"]) /\ Range(FileSubjects) = Range(copy.listed)
  <2> PICK x, y, S : x = copy.listed /\ y = SubjectIds(copy) /\ S = 1..next["subjects"]
    OBVIOUS
  <2>1. x \in Seq(S) /\ y \in Seq(S) /\ Range(y) \subseteq Range(x)
    BY CopyTyped, SubjectIdsAre
  <2>2. x \o y \in Seq(S) /\ Range(x \o y) = Range(x) \cup Range(y)
    BY <2>1, ConcatRange
  <2> QED BY <2>1, <2>2 DEF FileSubjects
<1>2. ASSUME NEW n \in 1..Len(copy.subjects)
      PROVE  /\ FileReports[n] \in Seq(1..next["reports"])
             /\ Range(FileReports[n]) = Range(copy.subjects[n].listed)
  <2> PICK x, y, S : x = copy.subjects[n].listed /\ y = copy.subjects[n].reports /\ S = 1..next["reports"]
    OBVIOUS
  <2>1. x \in Seq(S) /\ y \in Seq(S)
    BY CopyTyped
  <2>2. Range(y) \subseteq Range(x)
    BY DEF CopyIsTree, IsTree
  <2>3. x \o y \in Seq(S) /\ Range(x \o y) = Range(x) \cup Range(y)
    BY <2>1, ConcatRange
  <2> QED BY <2>2, <2>3 DEF FileReports
<1>3. \A n \in 1..Len(copy.subjects) : SubjectIds(copy)[n] = copy.subjects[n].id
  BY CopyTyped DEF SubjectIds
<1> QED BY <1>1, <1>2, <1>3

LEMMA FileWritesAre ==
    ASSUME TypeOK, CopyIsTree, copy # None, NEW do
    PROVE  /\ TreeOf(Writes(FileWrites(copy, do)), do, 1..next["reports"], Len(copy.subjects),
                     SubjectIds(copy), FileReports, copy.space, FileSubjects)
           /\ WriteOne(do, "spaces", copy.space, FileSubjects) \in Writes(FileWrites(copy, do))
<1> PICK len, sub, lst, R : /\ len = Len(copy.subjects) /\ sub = SubjectIds(copy) /\ lst = FileReports
                            /\ R = 1..next["reports"]
  OBVIOUS
<1> PICK w : w = WriteOne(do, "spaces", copy.space, FileSubjects)
  OBVIOUS
<1>1. /\ len \in Nat /\ DOMAIN copy.subjects = 1..len
      /\ \A n \in 1..len : copy.subjects[n].reports \in Seq(R)
  BY CopyTyped
<1> DEFINE q(n) == [m \in DOMAIN copy.subjects[n].reports |->
                        WriteOne(do, "reports", copy.subjects[n].reports[m], <<>>)]
           u(n) == WriteOne(do, "subjects", copy.subjects[n].id,
                            copy.subjects[n].listed \o copy.subjects[n].reports)
           Q == [n \in 1..len |-> q(n)]
           U == [n \in 1..len |-> u(n)]
           B == [n \in DOMAIN copy.subjects |-> q(n) \o <<u(n)>>]
<1>2. FileWrites(copy, do) = B \o << <<w>> >>
  BY Zenon DEF FileWrites, WriteOne, FileSubjects
<1>3. \A n \in 1..len : U[n] = WriteOne(do, "subjects", sub[n], lst[n])
  BY FileLists DEF FileReports
<1>4. ASSUME NEW n \in 1..len
      PROVE  /\ \E k \in Nat : q(n) = [m \in 1..k |-> q(n)[m]]
             /\ \A m \in DOMAIN q(n) : \E r \in R : q(n)[m] = WriteOne(do, "reports", r, <<>>)
  <2> PICK x, k : x = copy.subjects[n].reports /\ k = Len(x)
    OBVIOUS
  <2>0. x \in Seq(R)
    BY <1>1
  <2>1. k \in Nat /\ DOMAIN x = 1..k /\ \A m \in 1..k : x[m] \in R
    <3>1. Len(x) \in Nat /\ DOMAIN x = 1..Len(x) /\ \A m \in 1..Len(x) : x[m] \in R
      BY ONLY <2>0
    <3> QED BY <3>1
  <2>2. q(n) = [m \in 1..k |-> WriteOne(do, "reports", x[m], <<>>)]
    BY <2>1
  <2> HIDE DEF q
  <2>3. q(n) = [m \in 1..k |-> q(n)[m]]
    BY <2>2
  <2>4. \A m \in DOMAIN q(n) : \E r \in R : q(n)[m] = WriteOne(do, "reports", r, <<>>)
    BY <2>1, <2>2
  <2> QED BY <2>1, <2>3, <2>4
<1> HIDE DEF q, u
<1>5. DOMAIN B = 1..len /\ B = [n \in 1..len |-> B[n]] /\ \A n \in 1..len : B[n] = q(n) \o <<u(n)>>
  BY <1>1
<1>6. \A n \in 1..len : Q[n] = q(n) /\ U[n] = u(n)
  OBVIOUS
<1> HIDE DEF Q, U, B
<1>7. Batched(B, len, Q, U)
  <2>1. ASSUME NEW n \in 1..len
        PROVE  (\E k \in Nat : Q[n] = [m \in 1..k |-> Q[n][m]]) /\ B[n] = Q[n] \o <<U[n]>>
    <3>1. PICK x : x = q(n)
      OBVIOUS
    <3>2. Q[n] = x
      BY <1>6, <3>1
    <3>3. PICK k \in Nat : x = [m \in 1..k |-> x[m]]
      BY <1>4, <3>1
    <3> QED BY <1>5, <1>6, <3>2, <3>3
  <2> QED BY <1>5, <2>1 DEF Batched
<1>8. ASSUME NEW v \in Writes(B)
      PROVE  \/ \E r \in R : v = WriteOne(do, "reports", r, <<>>)
             \/ \E n \in 1..len : v = WriteOne(do, "subjects", sub[n], lst[n])
  <2>1. PICK n \in 1..len : v = U[n] \/ \E m \in DOMAIN Q[n] : v = Q[n][m]
    <3>1. len \in Nat
      BY <1>1
    <3>2. Batched(B, len, Q, U)
      BY <1>7
    <3> QED BY ONLY <3>1, <3>2, v \in Writes(B), BatchedWrite
  <2> QED BY <1>3, <1>4, <1>6, <2>1
<1> PICK C : C = B \o << <<w>> >>
  OBVIOUS
<1>9. w \in Writes(C) /\ \A v \in Writes(C) : v \in Writes(B) \/ v = w
  BY <1>1, <1>5, LastWrite
<1>10. ASSUME NEW v \in Writes(C)
       PROVE  \/ \E r \in R : v = WriteOne(do, "reports", r, <<>>)
              \/ \E n \in 1..len : v = WriteOne(do, "subjects", sub[n], lst[n])
              \/ v = WriteOne(do, "spaces", copy.space, FileSubjects)
  <2>1. v \in Writes(B) \/ v = w
    BY <1>9
  <2> QED BY <1>8, <2>1
<1>11. TreeOf(Writes(C), do, R, len, sub, lst, copy.space, FileSubjects)
  BY <1>10, Zenon DEF TreeOf
<1> QED BY <1>2, <1>9, <1>11

(* The writes of an import fit, and what they promise is to be seen.       *)
LEMMA FileFits ==
    ASSUME IInv, copy # None, next' = next, NEW do \in {"insert", "update"},
           NEW W, W = Writes(FileWrites(copy, do))
    PROVE  Once(W) /\ Typed(W) /\ Owned(W)
<1> PICK len, sub, lst, R : /\ len = Len(copy.subjects) /\ sub = SubjectIds(copy) /\ lst = FileReports
                            /\ R = 1..next["reports"]
  OBVIOUS
<1> PICK s, list : s = copy.space /\ list = FileSubjects
  OBVIOUS
<1>0. TypeOK /\ CopyIsTree /\ CopyIsOwner
  BY DEF IInv
<1>1. TreeOf(W, do, R, len, sub, lst, s, list)
  BY <1>0, FileWritesAre
<1>2. /\ list \in Seq(1..next["subjects"]) /\ Range(list) = Range(copy.listed)
      /\ \A n \in 1..len :
            /\ lst[n] \in Seq(1..next["reports"])
            /\ Range(lst[n]) = Range(copy.subjects[n].listed)
            /\ sub[n] = copy.subjects[n].id
  BY <1>0, FileLists
<1>3. s \in 1..next["spaces"] /\ \A n \in 1..len : sub[n] \in 1..next["subjects"]
  BY <1>0, <1>2, CopyTyped
<1>4. Apart(len, sub, lst)
  <2> SUFFICES ASSUME NEW n \in 1..len, NEW m \in 1..len, n # m
               PROVE  sub[n] # sub[m] /\ Range(lst[n]) \cap Range(lst[m]) = {}
    BY DEF Apart
  <2>1. /\ copy.subjects[n].id # copy.subjects[m].id
        /\ Range(copy.subjects[n].listed) \cap Range(copy.subjects[m].listed) = {}
    BY <1>0, Zenon DEF CopyIsTree, IsTree
  <2> QED BY <1>2, <2>1
<1>5. GivenOut(do, R, len, sub, lst, s, list)
  BY <1>2, <1>3 DEF GivenOut
<1>6. OwnsList(WriteOne(do, "spaces", s, list))
  <2> PICK w : w = WriteOne(do, "spaces", s, list)
    OBVIOUS
  <2>1. w.t = "spaces" /\ w.ids = {copy.space} /\ w.list = list
    BY DEF WriteOne
  <2> QED BY <1>0, <1>2, <2>1, OwnsCopied
<1>7. ASSUME NEW n \in 1..len PROVE OwnsList(WriteOne(do, "subjects", sub[n], lst[n]))
  <2> PICK w : w = WriteOne(do, "subjects", sub[n], lst[n])
    OBVIOUS
  <2>1. w.t = "subjects" /\ w.ids = {copy.subjects[n].id} /\ w.list = lst[n]
    BY <1>2 DEF WriteOne
  <2> QED BY <1>0, <1>2, <2>1, OwnsCopied
<1> QED BY <1>1, <1>4, <1>5, <1>6, <1>7, TreeFits

(* Every write is that of a subject of the copy, of its space or of a report. *)
LEMMA FileWriteIs ==
    ASSUME IInv, copy # None, NEW do, NEW w \in Writes(FileWrites(copy, do))
    PROVE  /\ w.do = do /\ w.t \in {"spaces", "subjects", "reports"}
           /\ w.t = "subjects" => \E n \in 1..Len(copy.subjects) :
                 w.ids = {copy.subjects[n].id} /\ Range(w.list) = Range(copy.subjects[n].listed)
           /\ w.t = "spaces" => w.ids = {copy.space} /\ Range(w.list) = Range(copy.listed)
<1> PICK len, sub, lst, R : /\ len = Len(copy.subjects) /\ sub = SubjectIds(copy) /\ lst = FileReports
                            /\ R = 1..next["reports"]
  OBVIOUS
<1>0. TypeOK /\ CopyIsTree
  BY DEF IInv
<1>1. \/ \E r \in R : w = WriteOne(do, "reports", r, <<>>)
      \/ \E n \in 1..len : w = WriteOne(do, "subjects", sub[n], lst[n])
      \/ w = WriteOne(do, "spaces", copy.space, FileSubjects)
  BY <1>0, FileWritesAre DEF TreeOf
<1>2. CASE \E r \in R : w = WriteOne(do, "reports", r, <<>>)
  BY <1>2 DEF WriteOne
<1>3. CASE \E n \in 1..len : w = WriteOne(do, "subjects", sub[n], lst[n])
  <2>1. PICK n \in 1..len : w = WriteOne(do, "subjects", sub[n], lst[n])
    BY <1>3
  <2>2. w.do = do /\ w.t = "subjects" /\ w.ids = {sub[n]} /\ w.list = lst[n]
    BY <2>1 DEF WriteOne
  <2> QED BY <1>0, <2>2, FileLists
<1>4. CASE w = WriteOne(do, "spaces", copy.space, FileSubjects)
  <2>1. w.do = do /\ w.t = "spaces" /\ w.ids = {copy.space} /\ w.list = FileSubjects
    BY <1>4 DEF WriteOne
  <2> QED BY <1>0, <2>1, FileLists
<1> QED BY <1>1, <1>2, <1>3, <1>4

LEMMA ImportStep ==
    ASSUME IInv, ImportSpace PROVE IInv'
<1> PICK W, B : W = Writes(B) /\ B = FileWrites(copy, "insert")
  OBVIOUS
<1>1. Request(B, FALSE, {}, {}, {}) /\ copy' = copy /\ next' = next /\ copy # None
  BY DEF ImportSpace
<1>2. Grows
  BY <1>1, NothingNew DEF IInv
<1>3. Once(W) /\ Typed(W) /\ Owned(W)
  BY <1>1, FileFits
<1>4. ASSUME NEW w \in W
      PROVE  /\ w.do = "insert"
             /\ w.t = "subjects" => \E n \in 1..Len(copy.subjects) : w.ids = {copy.subjects[n].id}
  BY <1>1, FileWriteIs
<1>5. ListsSubjects(W, FALSE, {})
  <2> PICK w : w = WriteOne("insert", "spaces", copy.space, FileSubjects)
    OBVIOUS
  <2>1. w \in W
    BY <1>1, FileWritesAre DEF IInv
  <2>2. w.t = "spaces" /\ w.ids # {} /\ w.list = FileSubjects /\ w.do = "insert"
    BY DEF WriteOne
  <2>3. ASSUME NEW i \in Touched("subjects", Those("insert", W)) PROVE i \in Range(FileSubjects)
    <3>1. PICK v \in W : v.t = "subjects" /\ i \in v.ids
      BY Zenon DEF Touched, Those
    <3>2. PICK n \in 1..Len(copy.subjects) : i = copy.subjects[n].id
      BY <1>4, <3>1
    <3>3. i \in Range(copy.listed)
      BY <1>1, <3>2 DEF IInv, CopyIsTree, IsTree
    <3> QED BY <1>1, <3>3, FileLists DEF IInv
  <2> QED BY <1>4, <2>1, <2>2, <2>3 DEF ListsSubjects
<1>6. KeepsReports(W, {}, {})
  BY <1>4 DEF KeepsReports
<1>7. Fit(W, FALSE, {}, {}, {})
  BY <1>3, <1>5, <1>6 DEF Fit
<1> QED BY <1>1, <1>2, <1>7, RequestKeeps

LEMMA ReplaceStep ==
    ASSUME IInv, ReplaceSpace PROVE IInv'
<1> PICK W, B : W = Writes(B) /\ B = FileWrites(copy, "update")
  OBVIOUS
<1> PICK unlisted, given :
        /\ unlisted = Listed("spaces", copy.space) \ Range(copy.listed)
        /\ given = UNION {ReportsOf({copy.subjects[n].id}) \ Range(copy.subjects[n].listed) :
                              n \in DOMAIN copy.subjects}
  OBVIOUS
<1>1. Request(B, FALSE, unlisted, {}, given) /\ copy' = copy /\ next' = next /\ copy # None
  BY DEF ReplaceSpace
<1>2. Grows
  BY <1>1, NothingNew DEF IInv
<1>3. Once(W) /\ Typed(W) /\ Owned(W)
  BY <1>1, FileFits
<1>4. ASSUME NEW w \in W
      PROVE  /\ w.do = "update"
             /\ w.t = "subjects" => \E n \in 1..Len(copy.subjects) :
                   w.ids = {copy.subjects[n].id} /\ Range(w.list) = Range(copy.subjects[n].listed)
             /\ w.t = "spaces" => w.ids = {copy.space} /\ Range(w.list) = Range(copy.listed)
  BY <1>1, FileWriteIs
<1>5. ListsSubjects(W, FALSE, unlisted)
  <2>1. Touched("subjects", Those("insert", W)) = {}
    BY <1>4, TouchesNone
  <2>2. \A w \in W : w.t = "spaces" =>
            \A s \in w.ids : \A i \in Listed("spaces", s) : i \in Range(w.list) \/ i \in unlisted
    BY <1>4
  <2> QED BY <1>4, <2>1, <2>2 DEF ListsSubjects
<1>6. KeepsReports(W, {}, given)
  <2>1. ASSUME NEW w \in W, w.t = "subjects", NEW i \in w.ids \cap Stored("subjects"),
               NEW r \in Listed("subjects", i)
        PROVE  r \in Range(w.list) \/ r \in given
    <3>1. PICK n \in 1..Len(copy.subjects) :
              w.ids = {copy.subjects[n].id} /\ Range(w.list) = Range(copy.subjects[n].listed)
      BY <1>4, <2>1
    <3>2. i = copy.subjects[n].id /\ n \in DOMAIN copy.subjects
      BY <1>1, <2>1, <3>1, CopyTyped DEF IInv
    <3>3. r \in ReportsOf({copy.subjects[n].id})
      BY <2>1, <3>2, Zenon DEF ReportsOf
    <3>4. r \in Range(w.list) \/ r \in ReportsOf({copy.subjects[n].id}) \ Range(copy.subjects[n].listed)
      BY <3>1, <3>3
    <3> QED BY <3>2, <3>4
  <2> QED BY <1>4, <2>1 DEF KeepsReports
<1>7. Fit(W, FALSE, unlisted, {}, given)
  BY <1>3, <1>5, <1>6 DEF Fit
<1> QED BY <1>1, <1>2, <1>7, RequestKeeps

-----------------------------------------------------------------------------
(***************************************************************************)
(* The load of a space                                                     *)
(***************************************************************************)
(* Each id of a set once, in some order.                                   *)
LEMMA InSomeOrder ==
    ASSUME NEW k \in Nat, NEW S \in SUBSET (1..k)
    PROVE  /\ SetToSeq(S) \in Seq(S)
           /\ \A n, m \in DOMAIN SetToSeq(S) : SetToSeq(S)[n] = SetToSeq(S)[m] => n = m
<1>1. Cardinality(S) \in Nat /\ ExistsBijection(1..Cardinality(S), S)
  <2>1. IsFiniteSet(1..k)
    BY FS_Interval
  <2>2. IsFiniteSet(S)
    BY <2>1, FS_Subset, Zenon
  <2> QED BY <2>2, FS_CardinalityType, Zenon
<1> PICK c \in Nat : c = Cardinality(S)
  BY <1>1
<1>2. \E f \in [1..c -> S] : IsInjective(f)
  BY <1>1 DEF ExistsBijection, Bijection, Injection
<1> PICK q : q = SetToSeq(S)
  OBVIOUS
<1>3. q \in [1..c -> S] /\ IsInjective(q)
  BY <1>2, Zenon DEF SetToSeq
<1>4. q \in Seq(S)
  BY <1>3
<1> QED BY <1>3, <1>4, Zenon DEF IsInjective

(* What one subject of a loaded space is.                                  *)
Loaded(x, s) ==
    /\ x.id \in Listed("spaces", s) \cap Stored("subjects")
    /\ x.listed = db["subjects"][x.id]
    /\ x.reports \in Seq(1..next["reports"]) /\ Range(x.reports) \subseteq Range(x.listed)

(* Its subjects: each once.                                                *)
LoadedAll(X, s) ==
    /\ \E len \in Nat : X = [n \in 1..len |-> X[n]]
    /\ \A n \in DOMAIN X :
          /\ Loaded(X[n], s)
          /\ X[n] = [id |-> X[n].id, listed |-> X[n].listed, reports |-> X[n].reports]
    /\ \A n, m \in DOMAIN X : n # m => X[n].id # X[m].id

LEMMA ContentIs ==
    ASSUME TypeOK, NEW s \in Stored("spaces")
    PROVE  \E X : /\ Content(s) = [space |-> s, listed |-> db["spaces"][s], subjects |-> X]
                  /\ LoadedAll(X, s)
<1> PICK S, k, r : /\ S = Listed("spaces", s) \cap Stored("subjects")
                   /\ k = next["subjects"] /\ r = next["reports"]
  OBVIOUS
<1> PICK q : q = SetToSeq(S)
  OBVIOUS
<1> DEFINE rep(i) == SetToSeq(Listed("subjects", i) \cap Stored("reports"))
           X == [n \in DOMAIN q |-> [id |-> q[n], listed |-> db["subjects"][q[n]], reports |-> rep(q[n])]]
<1>1. k \in Nat /\ r \in Nat
  BY TablesAre DEF TypeOK
<1>2. S \in SUBSET (1..k)
  BY TablesAre DEF TypeOK
<1>3. q \in Seq(S) /\ \A n, m \in DOMAIN q : q[n] = q[m] => n = m
  BY <1>1, <1>2, InSomeOrder
<1>4. ASSUME NEW i \in S
      PROVE  rep(i) \in Seq(1..r) /\ Range(rep(i)) \subseteq Range(db["subjects"][i])
  <2> PICK R : R = Listed("subjects", i) \cap Stored("reports")
    OBVIOUS
  <2>1. R \in SUBSET (1..r) /\ R \subseteq Range(db["subjects"][i])
    BY TablesAre DEF TypeOK, Listed
  <2>2. SetToSeq(R) \in Seq(R)
    BY <1>1, <2>1, InSomeOrder
  <2>3. SetToSeq(R) \in Seq(1..r) /\ Range(SetToSeq(R)) \subseteq R
    <3> PICK z : z = SetToSeq(R)
      OBVIOUS
    <3>1. z \in Seq(R) /\ R \subseteq 1..r
      BY <2>1, <2>2
    <3>2. Range(z) \subseteq R
      BY ONLY <3>1, RangeOfSeq
    <3>3. z \in Seq(1..r)
      BY ONLY <3>1, SeqMonotonic
    <3> QED BY <3>2, <3>3
  <2> QED BY <2>1, <2>3
<1>5. Content(s) = [space |-> s, listed |-> db["spaces"][s], subjects |-> X]
  BY Zenon DEF Content
<1>7. \E len \in Nat : DOMAIN q = 1..len
  BY <1>3
<1>8. \A n \in DOMAIN q : q[n] \in S
  BY <1>3
<1> HIDE DEF rep
<1>9. DOMAIN X = DOMAIN q /\ \A n \in DOMAIN q :
         /\ X[n] = [id |-> X[n].id, listed |-> X[n].listed, reports |-> X[n].reports]
         /\ X[n].id = q[n] /\ X[n].listed = db["subjects"][q[n]] /\ X[n].reports = rep(q[n])
  OBVIOUS
<1>10. X = [n \in DOMAIN q |-> X[n]]
  OBVIOUS
<1> HIDE DEF X
<1>11. ASSUME NEW n \in DOMAIN q PROVE Loaded(X[n], s)
  <2> PICK x, i : x = X[n] /\ i = q[n]
    OBVIOUS
  <2>1. i \in S /\ x.id = i /\ x.listed = db["subjects"][i] /\ x.reports = rep(i)
    BY <1>8, <1>9
  <2>2. rep(i) \in Seq(1..r) /\ Range(rep(i)) \subseteq Range(db["subjects"][i])
    BY <1>4, <2>1
  <2> QED BY <2>1, <2>2 DEF Loaded
<1>12. ASSUME NEW n \in DOMAIN q, NEW m \in DOMAIN q, n # m PROVE X[n].id # X[m].id
  <2>1. X[n].id = q[n] /\ X[m].id = q[m]
    BY <1>9
  <2> QED BY <1>3, <1>12, <2>1
<1>13. \E len \in Nat : X = [n \in 1..len |-> X[n]]
  BY <1>7, <1>10
<1>14. LoadedAll(X, s)
  <2>1. DOMAIN X = DOMAIN q
    BY <1>9
  <2>2. \A n \in DOMAIN X :
            /\ Loaded(X[n], s)
            /\ X[n] = [id |-> X[n].id, listed |-> X[n].listed, reports |-> X[n].reports]
    BY <1>9, <1>11
  <2>3. \A n, m \in DOMAIN X : n # m => X[n].id # X[m].id
    BY <1>12, <2>1
  <2> QED BY <1>13, <2>2, <2>3, Zenon DEF LoadedAll
<1> QED BY <1>5, <1>14

LEMMA LoadStep ==
    ASSUME IInv, NEW s, Load(s) PROVE IInv'
<1> PICK c : c = Content(s)
  OBVIOUS
<1>1. /\ copy' = c /\ s \in Stored("spaces")
      /\ db' = db /\ next' = next /\ requests' = requests /\ loose' = loose /\ kept' = kept
  BY DEF Load
<1>0. PICK X : c = [space |-> s, listed |-> db["spaces"][s], subjects |-> X] /\ LoadedAll(X, s)
  BY <1>1, ContentIs DEF IInv
<1>2. /\ \E len \in Nat : X = [n \in 1..len |-> X[n]]
      /\ \A n \in DOMAIN X :
            /\ Loaded(X[n], s)
            /\ X[n] = [id |-> X[n].id, listed |-> X[n].listed, reports |-> X[n].reports]
      /\ \A n, m \in DOMAIN X : n # m => X[n].id # X[m].id
  BY <1>0, Zenon DEF LoadedAll
<1>3. PICK len \in Nat : X = [n \in 1..len |-> X[n]]
  BY <1>2
<1>4. ASSUME NEW n \in 1..len
      PROVE  /\ X[n].id \in Range(db["spaces"][s]) /\ X[n].id \in Stored("subjects")
             /\ X[n].listed = db["subjects"][X[n].id]
             /\ X[n].id \in 1..next["subjects"] /\ X[n].listed \in Seq(1..next["reports"])
             /\ X[n].reports \in Seq(1..next["reports"]) /\ Range(X[n].reports) \subseteq Range(X[n].listed)
             /\ X[n] = [id |-> X[n].id, listed |-> X[n].listed, reports |-> X[n].reports]
  <2>1. n \in DOMAIN X
    BY <1>3
  <2>2. /\ X[n].id \in Range(db["spaces"][s]) /\ X[n].id \in Stored("subjects")
        /\ X[n].listed = db["subjects"][X[n].id]
        /\ X[n].reports \in Seq(1..next["reports"]) /\ Range(X[n].reports) \subseteq Range(X[n].listed)
    BY <1>2, <2>1 DEF Loaded, Listed
  <2>3. X[n].id \in 1..next["subjects"] /\ db["subjects"][X[n].id] \in Seq(1..next["reports"])
    BY <2>2, TablesAre, StoredList DEF IInv
  <2> QED BY <1>2, <2>1, <2>2, <2>3
<1>5. Len(X) = len /\ DOMAIN X = 1..len
  BY <1>3
<1>6. c.space = s /\ c.listed = db["spaces"][s] /\ c.subjects = X
  BY <1>0
<1>7. TypeOK'
  <2> DEFINE Rec == [id : 1..next["subjects"], listed : Seq(1..next["reports"]),
                     reports : Seq(1..next["reports"])]
  <2>1. ASSUME NEW n \in 1..len PROVE X[n] \in Rec
    <3> PICK i, l, r : i = X[n].id /\ l = X[n].listed /\ r = X[n].reports
      OBVIOUS
    <3>1. i \in 1..next["subjects"] /\ l \in Seq(1..next["reports"]) /\ r \in Seq(1..next["reports"])
      BY <1>4
    <3>2. X[n] = [id |-> i, listed |-> l, reports |-> r]
      BY <1>4
    <3> QED BY <3>1, <3>2
  <2>2. X \in Seq(Rec)
    <3> HIDE DEF Rec
    <3>1. X \in [1..len -> Rec]
      BY <1>3, <2>1
    <3> QED BY <3>1
  <2>3. db["spaces"][s] \in Seq(1..next["subjects"]) /\ s \in 1..next["spaces"]
    BY <1>1, TablesAre, StoredList DEF IInv
  <2>4. c \in [space : 1..next["spaces"], listed : Seq(1..next["subjects"]), subjects : Seq(Rec)]
    <3> HIDE DEF Rec
    <3> QED BY <1>0, <2>2, <2>3
  <2>5. copy' \in [space : 1..next'["spaces"], listed : Seq(1..next'["subjects"]),
                   subjects : Seq([id : 1..next'["subjects"], listed : Seq(1..next'["reports"]),
                                   reports : Seq(1..next'["reports"])])]
    BY <1>1, <2>4
  <2>6. /\ next' \in [Tables -> Nat] /\ \A t \in Tables : next'[t] <= MaxIds[t]
        /\ \A t \in Tables : DOMAIN db'[t] \subseteq 1..next'[t]
        /\ \A t \in DOMAIN Child : \A i \in DOMAIN db'[t] : db'[t][i] \in Seq(1..next'[Child[t]])
    BY <1>1 DEF IInv, TypeOK, Stored
  <2> QED BY <2>5, <2>6 DEF TypeOK, Stored
<1>8. CopyIsTree'
  <2>1. ASSUME NEW n \in 1..len
        PROVE  /\ X[n].id \in Range(c.listed) /\ Range(X[n].reports) \subseteq Range(X[n].listed)
               /\ \A m \in 1..len : m # n =>
                     X[m].id # X[n].id /\ Range(X[m].listed) \cap Range(X[n].listed) = {}
    <3>1. ASSUME NEW m \in 1..len, m # n
          PROVE  X[m].id # X[n].id /\ Range(X[m].listed) \cap Range(X[n].listed) = {}
      <4>1. X[m].id # X[n].id
        BY <1>2, <1>5, <3>1
      <4>2. Listed("subjects", X[m].id) \cap Listed("subjects", X[n].id) = {}
        BY <1>4, <4>1 DEF IInv, OneOwner
      <4> QED BY <1>4, <4>1, <4>2 DEF Listed
    <3> QED BY <1>4, <1>6, <3>1
  <2>2. IsTree(c)
    <3>1. c.subjects = X /\ Len(c.subjects) = len
      BY <1>5, <1>6
    <3>2. ASSUME NEW n \in 1..Len(c.subjects)
          PROVE  /\ c.subjects[n].id \in Range(c.listed)
                 /\ Range(c.subjects[n].reports) \subseteq Range(c.subjects[n].listed)
                 /\ \A m \in 1..Len(c.subjects) : m # n =>
                       /\ c.subjects[m].id # c.subjects[n].id
                       /\ Range(c.subjects[m].listed) \cap Range(c.subjects[n].listed) = {}
      <4>1. n \in 1..len
        BY <3>1
      <4> QED BY <2>1, <3>1, <4>1
    <3> QED BY <3>2, Zenon DEF IsTree
  <2>3. copy' = c
    BY <1>1
  <2> QED BY <2>2, <2>3 DEF CopyIsTree
<1>9. CopyIsOwner'
  <2>1. ASSUME NEW i \in Stored("spaces"), i # s
        PROVE  Range(db["spaces"][i]) \cap Range(db["spaces"][s]) = {}
    BY <1>1, <2>1 DEF IInv, OneOwner, Listed
  <2>2. ASSUME NEW n \in 1..len, NEW i \in Stored("subjects"), i # X[n].id
        PROVE  Range(db["subjects"][i]) \cap Range(X[n].listed) = {}
    <3>1. Listed("subjects", i) \cap Listed("subjects", X[n].id) = {}
      BY <1>4, <2>2 DEF IInv, OneOwner
    <3> QED BY <1>4, <3>1 DEF Listed
  <2> QED BY <1>1, <1>5, <1>6, <2>1, <2>2 DEF CopyIsOwner, Listed, Stored
<1>10. OneOwner' /\ SubjectsAreListed' /\ ReportsAreKept'
  BY <1>1 DEF IInv, OneOwner, SubjectsAreListed, ListingSpaces, ReportsAreKept, Listed, Stored
<1> QED BY <1>7, <1>8, <1>9, <1>10 DEF IInv

-----------------------------------------------------------------------------
(***************************************************************************)
(* The invariant                                                           *)
(***************************************************************************)
LEMMA InitIInv == Init => IInv
<1> SUFFICES ASSUME Init PROVE IInv
  OBVIOUS
<1>1. \A t \in Tables : Stored(t) = {} /\ next[t] = 0
  BY DEF Init, Stored
<1>2. TypeOK
  <2>1. next \in [Tables -> Nat] /\ \A t \in Tables : next[t] <= MaxIds[t]
    BY <1>1, ConsoleAssumption DEF Init
  <2>2. \A t \in Tables : Stored(t) \subseteq 1..next[t]
    BY <1>1
  <2>3. \A t \in DOMAIN Child : \A i \in Stored(t) : db[t][i] \in Seq(1..next[Child[t]])
    BY <1>1, TablesAre
  <2> QED BY <2>1, <2>2, <2>3 DEF TypeOK, Init
<1>3. OneOwner /\ SubjectsAreListed /\ ReportsAreKept
  BY <1>1, TablesAre DEF OneOwner, SubjectsAreListed, ReportsAreKept, Init
<1>4. CopyIsTree /\ CopyIsOwner
  BY DEF CopyIsTree, IsTree, CopyIsOwner, Init
<1> QED BY <1>2, <1>3, <1>4 DEF IInv

LEMMA NextIInv == IInv /\ [Next]_vars => IInv'
<1> SUFFICES ASSUME IInv, [Next]_vars PROVE IInv'
  OBVIOUS
<1>1. CASE UNCHANGED vars
  <2>1. db' = db /\ next' = next /\ copy' = copy /\ loose' = loose /\ kept' = kept
    BY <1>1 DEF vars
  <2>2. TypeOK'
    BY <2>1 DEF IInv, TypeOK, Stored
  <2>3. CopyIsTree' /\ CopyIsOwner'
    BY <2>1 DEF IInv, CopyIsTree, IsTree, CopyIsOwner, Listed, Stored
  <2>4. OneOwner' /\ SubjectsAreListed' /\ ReportsAreKept'
    BY <2>1 DEF IInv, OneOwner, SubjectsAreListed, ListingSpaces, ReportsAreKept, Listed, Stored
  <2> QED BY <2>2, <2>3, <2>4 DEF IInv
<1>2. CASE \E s \in Ids("spaces") : Load(s) \/ CopyTemplate(s) \/ DeleteSpace(s)
  BY <1>2, LoadStep, CopyTemplateStep, DeleteSpaceStep
<1>3. CASE \E s \in Ids("spaces"), n \in 0..1 : CreateSubject(s, n)
  BY <1>3, CreateSubjectStep
<1>4. CASE Connect \/ SaveSpace \/ ImportSpace \/ ReplaceSpace \/ ForceNewSpace
  BY <1>4, ConnectStep, SaveSpaceStep, ImportStep, ReplaceStep, ForceNewStep
<1>5. CASE \E i \in Ids("subjects") : DeleteSubject(i) \/ SaveReport(i)
  BY <1>5, DeleteSubjectStep, SaveReportStep
<1>6. CASE \E n \in 1..2 : SaveSubject(n)
  BY <1>6, SaveSubjectStep
<1>7. CASE \E r \in Ids("reports") : DeleteReport(r)
  BY <1>7, DeleteReportStep
<1> QED BY <1>1, <1>2, <1>3, <1>4, <1>5, <1>6, <1>7 DEF Next

LEMMA IInvAlways == Spec => []IInv
<1>1. Init => IInv
  BY InitIInv
<1>2. IInv /\ [Next]_vars => IInv'
  BY NextIInv
<1> QED BY <1>1, <1>2, PTL DEF Spec

(* Documents and the copy of a browser only ever list ids that were given   *)
(* out.                                                                     *)
THEOREM ListsHoldGivenIds == Spec => []TypeOK
<1>1. IInv => TypeOK
  BY DEF IInv
<1> QED BY <1>1, IInvAlways, PTL

(* Spaces and their subjects stay trees: copies, imports, saves from a copy *)
(* of any age and requests that fail anywhere never make two of them share  *)
(* a subject or a report.                                                   *)
THEOREM NothingIsShared == Spec => []OneOwner
<1>1. IInv => OneOwner
  BY DEF IInv
<1> QED BY <1>1, IInvAlways, PTL

(* A subject can be reached through a space, but after a request about it   *)
(* that failed and a save from a copy made before it.                       *)
THEOREM SubjectsAlwaysListed == Spec => []SubjectsAreListed
<1>1. IInv => SubjectsAreListed
  BY DEF IInv
<1> QED BY <1>1, IInvAlways, PTL

(* A saved report is there and can be reached, until it or its subject is   *)
(* deleted, a request about it fails or its subject is saved from a copy    *)
(* made before it.                                                          *)
THEOREM ReportsAlwaysKept == Spec => []ReportsAreKept
<1>1. IInv => ReportsAreKept
  BY DEF IInv
<1> QED BY <1>1, IInvAlways, PTL
==============================================================================
