---------------------------- MODULE ConsoleSpace ----------------------------
(***************************************************************************)
(* Console spaces, their subjects and the reports of those                 *)
(* (routers/console.py, console_space/, report/storage) and their import   *)
(* (routers/metadata.py).  A space lists its subjects by id and a subject  *)
(* its reports; the three are stored apart and nothing but the handlers    *)
(* keeps the lists and what they list together.                            *)
(*                                                                         *)
(* A handler has no await between its calls of the store, and one process  *)
(* serves the requests: a request is one step, which performs a sequence   *)
(* of writes, or a beginning of it when the store fails.  A browser keeps  *)
(* the space it loaded and saves from that copy later.  kept and loose are *)
(* history.  Contents, graphs, favorites and snapshots are left out.       *)
(***************************************************************************)
EXTENDS SequencesExt

CONSTANTS
    MaxIds,      \* bound: how many ids are generated, by table
    None,        \* nothing loaded
    MaxRequests  \* bound: how many requests change something

Tables == {"spaces", "subjects", "reports"}

ASSUME ConsoleAssumption == MaxIds \in [Tables -> Nat]

Ids(t) == 1..MaxIds[t]

VARIABLES
    db,       \* the stored documents of each table: the list of each, by id
    next,     \* how many ids of each table were generated
    copy,     \* the space a browser has loaded
    requests, \* how many requests were made
    loose,    \* history: the subjects no space need list
    kept      \* history: the reports saved and not given up since

vars == <<db, next, copy, requests, loose, kept>>

-----------------------------------------------------------------------------
Stored(t) == DOMAIN db[t]
Listed(t, i) == Range(db[t][i])

Init ==
    /\ db = [t \in Tables |-> [i \in {} |-> <<>>]]
    /\ next = [t \in Tables |-> 0]
    /\ copy = None
    /\ requests = 0
    /\ loose = {} /\ kept = {}

\* An insert, an update, which without a document does nothing, and a delete.
Insert(t, i, list) == [do |-> "insert", t |-> t, ids |-> {i}, list |-> list]
Update(t, i, list) == [do |-> "update", t |-> t, ids |-> {i}, list |-> list]
Delete(t, ids)     == [do |-> "delete", t |-> t, ids |-> ids, list |-> <<>>]

Touched(t, writes) == UNION {w.ids : w \in {v \in writes : v.t = t}}
Those(do, writes) == {w \in writes : w.do = do}

\* The tables after these writes.  No request writes a document twice.
Written(writes) ==
    [t \in Tables |->
        [i \in (Stored(t) \ Touched(t, Those("delete", writes)))
                   \cup Touched(t, Those("insert", writes)) |->
            IF i \in Touched(t, writes)
            THEN (CHOOSE w \in writes : w.t = t /\ i \in w.ids).list
            ELSE db[t][i]]]

\* An id is a primary key: the insert of a document that is there raises.
Conflicts(w) == w.do = "insert" /\ w.ids \cap Stored(w.t) # {}

\* A request is a sequence of batches of writes.  Its places are pairs: a batch, and the
\* place in the batch.
Places(lists) == UNION {{g} \X DOMAIN lists[g] : g \in DOMAIN lists}
Before(p, q) == p[1] < q[1] \/ (p[1] = q[1] /\ p[2] < q[2])
At(batches, P) == {batches[p[1]][p[2]] : p \in P}
Writes(batches) == At(batches, Places(batches))

\* How far a request can get: nowhere, or to a place, with no conflict on the way.
Beginnings(batches) ==
    {P \in {{}} \cup {{p \in Places(batches) : ~Before(q, p)} : q \in Places(batches)} :
        \A w \in At(batches, P) : ~Conflicts(w)}

\* The reports of subjects that are stored.
ReportsOf(S) == UNION {Listed("subjects", i) : i \in S \cap Stored("subjects")}

\* A request: its writes, all of them if nothing fails, and what is no longer promised
\* then; raises says that the handler raises after its last write.
Request(batches, raises, unlisted, saved, given) ==
    /\ requests < MaxRequests
    /\ requests' = requests + 1
    /\ \E P \in Beginnings(batches) :
          LET whole == P = Places(batches) /\ ~raises
              subjects == Touched("subjects", Writes(batches))
          IN  /\ db' = Written(At(batches, P))
              /\ loose' = loose \cup unlisted \cup (IF whole THEN {} ELSE subjects)
              /\ kept' = (kept \cup (IF whole THEN saved ELSE {}))
                         \ (given \cup (IF whole THEN {}
                                        ELSE Touched("reports", Writes(batches)) \cup ReportsOf(subjects)))

Generates(t, n) ==
    /\ next[t] + n <= MaxIds[t]
    /\ next' = [next EXCEPT ![t] = @ + n]

\* Where an id is first in a list; the list without that one occurrence.
First(list, i) == {n \in DOMAIN list : list[n] = i /\ \A m \in 1..n - 1 : list[m] # i}
Without(list, n) == RemoveAt(list, n)

-----------------------------------------------------------------------------
(***************************************************************************)
(* Spaces                                                                  *)
(***************************************************************************)
\* The load of a space finds the subjects and reports it lists as far as they exist, in
\* some order.
Content(s) ==
    LET subjects == SetToSeq(Listed("spaces", s) \cap Stored("subjects"))
    IN  [space |-> s, listed |-> db["spaces"][s],
         subjects |-> [n \in DOMAIN subjects |->
             [id |-> subjects[n], listed |-> db["subjects"][subjects[n]],
              reports |-> SetToSeq(Listed("subjects", subjects[n]) \cap Stored("reports"))]]]

Load(s) ==
    /\ s \in Stored("spaces") /\ copy # Content(s)
    /\ copy' = Content(s)
    /\ UNCHANGED <<db, next, requests, loose, kept>>

SubjectIds(c) == [n \in DOMAIN c.subjects |-> c.subjects[n].id]

\* connect_to_space without a template.
Connect ==
    /\ Generates("spaces", 1)
    /\ Request(<< <<Insert("spaces", next["spaces"] + 1, <<>>)>> >>, FALSE, {}, {}, {})
    /\ UNCHANGED copy

NewIds(first, n) == [m \in 1..n |-> first + m]

\* New ids for the reports of lists, in the order of their places.
Renumberings(lists, last) ==
    {f \in [Places(lists) -> next["reports"] + 1 .. last] :
        \A p, q \in Places(lists) : Before(p, q) => f[p] < f[q]}

\* Mutant of NewSubjects: the copies of the subjects go on listing the old reports.
OldReports(lists, id) ==
    [n \in DOMAIN lists |->
        [m \in DOMAIN lists[n] |-> Insert("reports", id[<<n, m>>], <<>>)]
        \o <<Insert("subjects", next["subjects"] + n, lists[n])>>]

\* The writes that store subjects under new ids, the reports of each before it.
NewSubjects(lists, id) ==
    [n \in DOMAIN lists |->
        LET ids == [m \in DOMAIN lists[n] |-> id[<<n, m>>]]
        IN  [m \in DOMAIN ids |-> Insert("reports", ids[m], <<>>)]
            \o <<Insert("subjects", next["subjects"] + n, ids)>>]

\* A new space with a new subject for each list and new reports for what it lists, or no
\* space when the handler raises before it is stored.
CopyOf(lists, raises) ==
    LET s == next["spaces"] + 1
    IN  /\ s <= MaxIds["spaces"]
        /\ next["subjects"] + Len(lists) <= MaxIds["subjects"]
        /\ \E last \in next["reports"]..MaxIds["reports"] :
              /\ last = next["reports"] + Cardinality(Places(lists))
              /\ next' = [spaces |-> s, subjects |-> next["subjects"] + Len(lists),
                          reports |-> last]
              /\ \E id \in Renumberings(lists, last) :
                    Request(NewSubjects(lists, id)
                            \o (IF raises THEN <<>>
                                ELSE << <<Insert("spaces", s, NewIds(next["subjects"], Len(lists)))>> >>),
                            raises, {}, {}, {})

\* connect_to_space with a template: copy_template_to_console_space.  It raises on the
\* first listed subject that is gone or lists a report that is, and what it has copied
\* until then stays.  (Reports of that subject alone, which nothing lists, are left out.)
CopyTemplate(s) ==
    /\ s \in Stored("spaces")
    /\ LET list == db["spaces"][s]
           IsWhole(i) == i \in Stored("subjects") /\ Listed("subjects", i) \subseteq Stored("reports")
       IN  \E n \in 0..Len(list) :
              /\ \A m \in 1..n : IsWhole(list[m])
              /\ n < Len(list) => ~IsWhole(list[n + 1])
              /\ CopyOf([m \in 1..n |-> db["subjects"][list[m]]], n < Len(list))
    /\ UNCHANGED copy

\* The subjects of the copy become those of the stored space.
SaveSpace ==
    /\ copy # None
    /\ Request(<< <<Update("spaces", copy.space, SubjectIds(copy))>> >>, FALSE,
               (IF copy.space \in Stored("spaces") THEN Listed("spaces", copy.space) ELSE {})
                   \ Range(SubjectIds(copy)), {}, {})
    /\ UNCHANGED <<next, copy>>

\* The subjects a space lists go with it, their reports stay.
DeleteSpace(s) ==
    /\ s \in Stored("spaces")
    /\ Request(<< IF db["spaces"][s] = <<>> THEN <<Delete("spaces", {s})>>
                  ELSE <<Delete("subjects", Listed("spaces", s)), Delete("spaces", {s})>> >>,
               FALSE, {}, {}, ReportsOf(Listed("spaces", s)))
    /\ UNCHANGED <<next, copy>>

-----------------------------------------------------------------------------
(***************************************************************************)
(* Subjects                                                                *)
(***************************************************************************)
\* Mutant of CreateSubject: the list of the copy is extended and stored.
CreateSubjectInCopy(s, n) ==
    /\ s \in Stored("spaces") /\ copy # None /\ copy.space = s
    /\ next["reports"] + n <= MaxIds["reports"] /\ next["subjects"] < MaxIds["subjects"]
    /\ next' = [next EXCEPT !["subjects"] = @ + 1, !["reports"] = @ + n]
    /\ LET i == next["subjects"] + 1
       IN  Request(<< <<Insert("subjects", i, NewIds(next["reports"], n)),
                        Update("spaces", s, Append(copy.listed, i))>> >>, FALSE, {}, {}, {})
    /\ UNCHANGED copy

\* A new subject is stored and then listed by the space as it is stored; when the space
\* is gone the handler raises after the subject was stored.  The reports it comes with
\* get ids that are listed, and are not stored.
CreateSubject(s, n) ==
    /\ s <= next["spaces"]
    /\ next["reports"] + n <= MaxIds["reports"] /\ next["subjects"] < MaxIds["subjects"]
    /\ next' = [next EXCEPT !["subjects"] = @ + 1, !["reports"] = @ + n]
    /\ LET i == next["subjects"] + 1
           new == Insert("subjects", i, NewIds(next["reports"], n))
       IN  IF s \in Stored("spaces")
           THEN Request(<< <<new, Update("spaces", s, Append(db["spaces"][s], i))>> >>, FALSE, {}, {}, {})
           ELSE Request(<< <<new>> >>, TRUE, {}, {}, {})
    /\ UNCHANGED copy

\* The reports of the copy are added to those its subject lists already.
SaveSubject(n) ==
    /\ copy # None /\ n \in DOMAIN copy.subjects
    /\ LET c == copy.subjects[n]
       IN  Request(<< <<Update("subjects", c.id, c.listed \o c.reports)>> >>, FALSE, {}, {},
                   ReportsOf({c.id}) \ Range(c.listed))
    /\ UNCHANGED <<next, copy>>

ListingSpaces(i) == {s \in Stored("spaces") : i \in Listed("spaces", s)}

\* The subject is deleted first; then the space that lists it is looked for, and a
\* subject that none lists makes the handler raise.
DeleteSubject(i) ==
    /\ i \in Ids("subjects") /\ i <= next["subjects"]
    /\ \/ /\ ListingSpaces(i) = {}
          /\ Request(<< <<Delete("subjects", {i})>> >>, TRUE, {}, {}, ReportsOf({i}))
       \/ \E s \in ListingSpaces(i) : \E n \in First(db["spaces"][s], i) :
             Request(<< <<Delete("subjects", {i}), Update("spaces", s, Without(db["spaces"][s], n))>> >>,
                     FALSE, {}, {}, ReportsOf({i}))
    /\ UNCHANGED <<next, copy>>

-----------------------------------------------------------------------------
(***************************************************************************)
(* Reports                                                                 *)
(***************************************************************************)
\* Mutant of SaveReport: the list of the copy is extended and stored.
SaveReportInCopy(i) ==
    /\ copy # None /\ Generates("reports", 1)
    /\ \E n \in DOMAIN copy.subjects :
          /\ copy.subjects[n].id = i
          /\ LET r == next["reports"] + 1
             IN  Request(<< <<Insert("reports", r, <<>>),
                              Update("subjects", i, Append(copy.subjects[n].listed, r))>> >>,
                         FALSE, {}, {r}, {})
    /\ UNCHANGED copy

\* A new report is stored and then listed by the subject as it is stored; when the
\* subject is gone the handler raises after the report was stored.
SaveReport(i) ==
    /\ i \in Ids("subjects") /\ i <= next["subjects"]
    /\ Generates("reports", 1)
    /\ LET r == next["reports"] + 1
       IN  IF i \in Stored("subjects")
           THEN Request(<< <<Insert("reports", r, <<>>),
                             Update("subjects", i, Append(db["subjects"][i], r))>> >>, FALSE, {}, {r}, {})
           ELSE Request(<< <<Insert("reports", r, <<>>)>> >>, TRUE, {}, {}, {})
    /\ UNCHANGED copy

\* One occurrence of the report is taken from a subject that lists it.
DeleteReport(r) ==
    /\ \E i \in Stored("subjects") : \E n \in First(db["subjects"][i], r) :
          Request(<< <<Update("subjects", i, Without(db["subjects"][i], n)), Delete("reports", {r})>> >>,
                  FALSE, {}, {}, {r})
    /\ UNCHANGED <<next, copy>>

-----------------------------------------------------------------------------
(***************************************************************************)
(* Imports of an exported space, which is a copy                           *)
(***************************************************************************)
\* Every id is appended to the list it is in already.
FileWrites(c, do) ==
    LET Write(t, i, list) == [do |-> do, t |-> t, ids |-> {i}, list |-> list]
    IN  [n \in DOMAIN c.subjects |->
            LET x == c.subjects[n]
            IN  [m \in DOMAIN x.reports |-> Write("reports", x.reports[m], <<>>)]
                \o <<Write("subjects", x.id, x.listed \o x.reports)>>]
        \o << <<Write("spaces", c.space, c.listed \o SubjectIds(c))>> >>

\* A space that is not there is inserted with all it holds, by any type but "force-new".
ImportSpace ==
    /\ copy # None /\ copy.space \notin Stored("spaces")
    /\ Request(FileWrites(copy, "insert"), FALSE, {}, {}, {})
    /\ UNCHANGED <<next, copy>>

\* "replace" updates a space that is there, and never inserts what it holds.
ReplaceSpace ==
    /\ copy # None /\ copy.space \in Stored("spaces")
    /\ Request(FileWrites(copy, "update"), FALSE,
               Listed("spaces", copy.space) \ Range(copy.listed), {},
               UNION {ReportsOf({copy.subjects[n].id}) \ Range(copy.subjects[n].listed) :
                          n \in DOMAIN copy.subjects})
    /\ UNCHANGED <<next, copy>>

\* "force-new" gives everything a new id.
ForceNewSpace ==
    /\ copy # None
    /\ CopyOf([n \in DOMAIN copy.subjects |-> copy.subjects[n].reports], FALSE)
    /\ UNCHANGED copy

Next ==
    \/ \E s \in Ids("spaces") : Load(s) \/ CopyTemplate(s) \/ DeleteSpace(s)
    \/ \E s \in Ids("spaces"), n \in 0..1 : CreateSubject(s, n)
    \/ Connect \/ SaveSpace \/ ImportSpace \/ ReplaceSpace \/ ForceNewSpace
    \/ \E i \in Ids("subjects") : DeleteSubject(i) \/ SaveReport(i)
    \/ \E n \in 1..2 : SaveSubject(n)
    \/ \E r \in Ids("reports") : DeleteReport(r)

Spec == Init /\ [][Next]_vars

-----------------------------------------------------------------------------
(***************************************************************************)
(* Properties                                                              *)
(***************************************************************************)
\* What a list of a document holds.
Child == [spaces |-> "subjects", subjects |-> "reports"]

\* Documents have ids that were given out and, but for reports, lists of such ids; so has
\* the copy of a browser.
TypeOK ==
    /\ next \in [Tables -> Nat] /\ \A t \in Tables : next[t] <= MaxIds[t]
    /\ \A t \in Tables : Stored(t) \subseteq 1..next[t]
    /\ \A t \in DOMAIN Child : \A i \in Stored(t) : db[t][i] \in Seq(1..next[Child[t]])
    /\ copy # None =>
          copy \in [space : 1..next["spaces"], listed : Seq(1..next["subjects"]),
                    subjects : Seq([id : 1..next["subjects"], listed : Seq(1..next["reports"]),
                                    reports : Seq(1..next["reports"])])]

\* Spaces and their subjects are trees: whatever was copied, imported, lost half way or
\* saved from an old copy, no subject is listed by two spaces and no report by two
\* subjects, so that a change of one space never shows in another.
OneOwner ==
    \A t \in {"spaces", "subjects"} : \A i, j \in Stored(t) :
        Listed(t, i) \cap Listed(t, j) # {} => i = j

\* A stored subject is listed by a space and can be reached, unless a request about it
\* has failed or a space was saved from a copy made before the subject.
SubjectsAreListed ==
    \A i \in Stored("subjects") \ loose : ListingSpaces(i) # {}

\* A report that was saved is stored and listed, whatever else is done to its space and
\* in whatever order, until it or its subject is deleted, a request about it fails or its
\* subject is saved from a copy made before the report.
ReportsAreKept ==
    \A r \in kept :
        /\ r \in Stored("reports")
        /\ \E i \in Stored("subjects") : r \in Listed("subjects", i)

=============================================================================
