------------------------ MODULE GroupMembership_proofs ------------------------
(***************************************************************************)
(* Proofs about GroupMembership, for any processes, users, groups and      *)
(* spaces: that undisturbed saves keep the two sides of the membership     *)
(* relations in agreement, that a save which meets no other repairs what   *)
(* earlier failures have left, and that it leaves all other links alone.   *)
(***************************************************************************)
EXTENDS GroupMembership, TLAPS

Sides(x) == FirstSide(x) \cup LastSide(x)

-----------------------------------------------------------------------------
(***************************************************************************)
(* The inductive invariant.  What it says of a request q is said for any   *)
(* documents d, so that a step can be followed from d to what it makes of  *)
(* it.                                                                     *)
(***************************************************************************)
\* A document lists documents of the kinds it has links to.
DocumentKinds == \A x \in Ids : Exists(x) => doc[x] \subseteq Sides(x)

\* The same of what a request holds, whether it is alone or not.
KindsOf(q) ==
    /\ q.want \subseteq Sides(q.id)
    /\ q.side \in {FirstSide(q.id), LastSide(q.id)}
    /\ \A y \in Ids : q.copies[y] # None => y \in q.side /\ q.copies[y] \subseteq Sides(y)

RequestKinds == \A p \in Processes : Busy(p) => KindsOf(request[p])

\* Apart from the id being saved all other documents are as they were.
Framed(d, q) ==
    \A y \in Ids \ {q.id} :
        /\ d[y] # None <=> q.before[y] # None
        /\ d[y] # None => d[y] \ {q.id} = q.before[y] \ {q.id}

\* The document being saved, and those it shall list.
Own(d, q) ==
    /\ d[q.id] # None <=> q.at # "insert"
    /\ q.new /\ q.at # "insert" => d[q.id] = q.want
    /\ q.at = "insert" => q.new /\ q.side = FirstSide(q.id)

\* The documents of S list the id of q exactly where q wants it.
Synced(d, q, S) == \A y \in S : d[y] # None => (q.id \in d[y] <=> y \in q.want)

\* How far the synchronisation has come: the first side, before the last, and of the
\* side under way the documents that no copy is left of.
Progress(d, q) ==
    /\ q.side # FirstSide(q.id) => Synced(d, q, FirstSide(q.id))
    /\ q.at = "read" => \A y \in q.side : d[y] # None => q.id \notin d[y]
    /\ \A y \in Ids : q.copies[y] # None =>
          q.at = "write" /\ y \in q.want /\ d[y] = q.copies[y] /\ q.id \notin d[y]
    /\ q.at = "write" => Synced(d, q, {y \in q.side : q.copies[y] = None})
    /\ q.at = "finish" => q.side = LastSide(q.id) /\ Synced(d, q, q.side)

OnItsWay(d, q) == Framed(d, q) /\ Own(d, q) /\ Progress(d, q)

AloneInv ==
    \A p \in Processes : Busy(p) /\ request[p].alone =>
        /\ \A o \in Processes \ {p} : ~Busy(o)
        /\ OnItsWay(doc, request[p])

\* Before an undisturbed save the links of the other documents agreed.
AgreedBefore(q) ==
    \A x, y \in Ids \ {q.id} :
        q.before[x] # None /\ q.before[y] # None =>
            (y \in q.before[x] <=> x \in q.before[y])

UndisturbedInv ==
    ~disturbed => \A p \in Processes : Busy(p) => request[p].alone /\ AgreedBefore(request[p])

LinkInv ==
    /\ TypeOK /\ DocumentKinds /\ RequestKinds
    /\ AloneInv /\ UndisturbedInv /\ LinksAgree

-----------------------------------------------------------------------------
(***************************************************************************)
(* Kinds of documents, and types                                           *)
(***************************************************************************)
\* The sides of a document are other kinds, and being a side of is symmetric.
LEMMA SidesAreKinds ==
    ASSUME NEW x \in Ids
    PROVE  /\ FirstSide(x) \in {Users, Groups, Spaces} /\ LastSide(x) \in {Users, Groups, Spaces}
           /\ FirstSide(x) \subseteq Ids /\ LastSide(x) \subseteq Ids
           /\ x \notin Sides(x)
           /\ \A y \in Ids : y \in Sides(x) <=> x \in Sides(y)
BY MembershipAssumption DEF FirstSide, LastSide, Sides, Ids

\* None is neither a document nor a request.
LEMMA NoneIsNothing ==
    /\ \A S \in SUBSET Ids : S # None
    /\ \A q \in Request : q # None
BY MembershipAssumption

\* A busy process has a request.
LEMMA BusyHasRequest ==
    ASSUME TypeOK, NEW p \in Processes, Busy(p)
    PROVE  request[p] \in Request
BY DEF TypeOK, Busy

\* A document that exists is a set of ids.
LEMMA ExistsIsSet ==
    ASSUME TypeOK, NEW x \in Ids, Exists(x)
    PROVE  doc[x] \in SUBSET Ids
BY DEF TypeOK, Exists, Documents

\* Proceed changes only where a request is.
LEMMA ProceedKeepsType ==
    ASSUME NEW q \in Request
    PROVE  Proceed(q) \in Request
<1>1. q.id \in Ids
  BY DEF Request
<1>2. LastSide(q.id) \in {Users, Groups, Spaces}
  BY <1>1, SidesAreKinds
<1> QED
  BY <1>1, <1>2 DEF Request, Proceed

\* Changing one request keeps the type of all.
LEMMA OneRequestKeepsType ==
    ASSUME TypeOK, NEW p \in Processes, NEW q \in Request \cup {None}
    PROVE  [request EXCEPT ![p] = q] \in [Processes -> Request \cup {None}]
BY DEF TypeOK

\* So does the end of being alone.
LEMMA MeetsKeepsType ==
    ASSUME NEW requestNow \in [Processes -> Request \cup {None}],
           \A p \in Processes : request[p] # None => requestNow[p] \in Request
    PROVE  Meets(requestNow) \in [Processes -> Request \cup {None}]
<1> SUFFICES ASSUME NEW p \in Processes
             PROVE  (IF request[p] = None THEN requestNow[p] ELSE [requestNow[p] EXCEPT !.alone = FALSE, !.before = NoCopies])
                        \in Request \cup {None}
  BY DEF Meets
<1>1. CASE request[p] = None
  BY <1>1
<1>0. NoCopies \in Documents
  BY DEF NoCopies, Documents
<1>2. CASE request[p] # None
  BY <1>0, <1>2 DEF Request
<1> QED
  BY <1>1, <1>2

\* Every step keeps the types.
LEMMA StepKeepsTypes ==
    ASSUME TypeOK, [Next]_vars
    PROVE  TypeOK'
<1>1. CASE UNCHANGED vars
  BY <1>1 DEF TypeOK, vars
<1>2. ASSUME NEW p \in Processes, NEW x \in Ids, NEW want \in SUBSET Linkable(x), Begin(p, x, want)
      PROVE  TypeOK'
  <2> DEFINE q == [id |-> x, new |-> ~Exists(x), want |-> want,
                   at |-> IF Exists(x) THEN "pull" ELSE "insert",
                   side |-> FirstSide(x), copies |-> NoCopies,
                   alone |-> \A o \in Processes : ~Busy(o),
                   before |-> IF \A o \in Processes : ~Busy(o) THEN doc ELSE NoCopies]
  <2>1. want \in SUBSET Ids /\ FirstSide(x) \in {Users, Groups, Spaces}
    BY SidesAreKinds DEF Linkable
  <2>2. NoCopies \in Documents
    BY DEF NoCopies, Documents
  <2>3. q \in Request
    BY <2>1, <2>2 DEF Request, TypeOK, Exists
  <2>4. [request EXCEPT ![p] = q] \in [Processes -> Request \cup {None}]
    BY <2>3, OneRequestKeepsType
  <2>5. \A o \in Processes : request[o] # None => [request EXCEPT ![p] = q][o] \in Request
    BY <2>3, BusyHasRequest DEF TypeOK, Busy
  <2>6. request' = Meets([request EXCEPT ![p] = q])
    BY <1>2 DEF Begin
  <2>7. request' \in [Processes -> Request \cup {None}]
    <3> HIDE DEF q
    <3> QED
      BY <2>4, <2>5, <2>6, MeetsKeepsType
  <2>8. doc' = doc /\ requests' \in 0..MaxRequests /\ disturbed' \in BOOLEAN
    BY <1>2, MembershipAssumption DEF Begin, MayBegin, TypeOK
  <2> QED
    BY <2>7, <2>8 DEF TypeOK
<1>3. ASSUME NEW p \in Processes, NEW x \in Ids, NEW want \in SUBSET Linkable(x), Import(p, x, want)
      PROVE  TypeOK'
  <2>1. want \in SUBSET Ids
    BY SidesAreKinds DEF Linkable
  <2>2. doc' \in Documents
    BY <1>3, <2>1 DEF Import, TypeOK, Documents
  <2>3. \A o \in Processes : request[o] # None => request[o] \in Request
    BY BusyHasRequest DEF Busy
  <2>4. request' \in [Processes -> Request \cup {None}]
    BY <1>3, <2>3, MeetsKeepsType DEF Import, TypeOK
  <2>5. requests' \in 0..MaxRequests /\ disturbed' \in BOOLEAN
    BY <1>3, MembershipAssumption DEF Import, MayBegin, TypeOK
  <2> QED
    BY <2>2, <2>4, <2>5 DEF TypeOK
<1>4. ASSUME NEW p \in Processes, Insert(p) \/ Pull(p) \/ Finish(p) \/ Fail(p)
      PROVE  TypeOK'
  <2>1. request[p] \in Request
    BY <1>4, BusyHasRequest DEF Insert, Pull, Finish, Fail
  <2>2. doc' \in Documents
    <3>1. request[p].want \in SUBSET Ids
      BY <2>1 DEF Request
    <3>2. \A y \in Ids : Exists(y) => doc[y] \in SUBSET Ids
      BY ExistsIsSet
    <3> QED
      BY <1>4, <3>1, <3>2 DEF Insert, Pull, Finish, Fail, TypeOK, Documents, Exists
  <2>3. \A at \in {"pull", "read"} : [request[p] EXCEPT !.at = at] \in Request
    BY <2>1 DEF Request
  <2>4. request' \in [Processes -> Request \cup {None}]
    BY <1>4, <2>3 DEF Insert, Pull, Finish, Fail, TypeOK
  <2>5. requests' = requests /\ disturbed' \in BOOLEAN
    BY <1>4 DEF Insert, Pull, Finish, Fail, TypeOK
  <2> QED
    BY <2>2, <2>4, <2>5 DEF TypeOK
<1>5. ASSUME NEW p \in Processes, Read(p)
      PROVE  TypeOK'
  <2> DEFINE copies == [y \in Ids |-> IF y \in request[p].side \cap request[p].want THEN doc[y] ELSE None]
             q == [request[p] EXCEPT !.copies = copies]
  <2>1. request[p] \in Request
    BY <1>5, BusyHasRequest DEF Read
  <2>2. copies \in Documents
    BY DEF TypeOK, Documents
  <2>3. q \in Request
    <3> HIDE DEF copies
    <3> QED
      BY <2>1, <2>2 DEF Request
  <2>4. request' = [request EXCEPT ![p] = Proceed(q)]
    BY <1>5 DEF Read
  <2>5. request' \in [Processes -> Request \cup {None}]
    <3> HIDE DEF q
    <3> QED
      BY <2>3, <2>4, ProceedKeepsType, OneRequestKeepsType
  <2>6. UNCHANGED <<doc, requests, disturbed>>
    BY <1>5 DEF Read
  <2> QED
    BY <2>5, <2>6 DEF TypeOK
<1>6. ASSUME NEW p \in Processes, NEW y \in Ids, WriteBack(p, y)
      PROVE  TypeOK'
  <2> DEFINE q == [request[p] EXCEPT !.copies[y] = None]
  <2>1. request[p] \in Request
    BY <1>6, BusyHasRequest DEF WriteBack
  <2>2. request[p].id \in Ids /\ request[p].copies[y] \in SUBSET Ids
    BY <1>6, <2>1 DEF WriteBack, Request, Documents
  <2>3. doc' \in Documents
    BY <1>6, <2>2 DEF WriteBack, Written, TypeOK, Documents
  <2>4. q \in Request
    BY <2>1 DEF Request, Documents
  <2>5. request' = [request EXCEPT ![p] = Proceed(q)]
    BY <1>6 DEF WriteBack
  <2>6. request' \in [Processes -> Request \cup {None}]
    <3> HIDE DEF q
    <3> QED
      BY <2>4, <2>5, ProceedKeepsType, OneRequestKeepsType
  <2>7. UNCHANGED <<requests, disturbed>>
    BY <1>6 DEF WriteBack
  <2> QED
    BY <2>3, <2>6, <2>7 DEF TypeOK
<1> QED
  BY <1>1, <1>2, <1>3, <1>4, <1>5, <1>6 DEF Next, Step

LEMMA InitHasTypes == Init => TypeOK
<1> SUFFICES ASSUME Init PROVE TypeOK
  OBVIOUS
<1>1. doc \in Documents
  BY DEF Init, Documents
<1>2. request \in [Processes -> Request \cup {None}]
  BY DEF Init
<1>3. requests \in 0..MaxRequests
  BY MembershipAssumption DEF Init
<1>4. disturbed \in BOOLEAN
  BY DEF Init
<1> QED
  BY <1>1, <1>2, <1>3, <1>4 DEF TypeOK

\* The variables keep their types, for any number of processes and documents.
THEOREM TypeCorrect == Spec => []TypeOK
BY InitHasTypes, StepKeepsTypes, PTL DEF Spec

-----------------------------------------------------------------------------
(***************************************************************************)
(* Kinds                                                                   *)
(***************************************************************************)
\* The end of being alone is no change of kind.
LEMMA AloneIsNoKind ==
    ASSUME NEW q \in Request, KindsOf(q)
    PROVE  KindsOf([q EXCEPT !.alone = FALSE, !.before = NoCopies])
BY DEF KindsOf, Request

LEMMA ProceedKeepsKinds ==
    ASSUME NEW q \in Request, KindsOf(q)
    PROVE  KindsOf(Proceed(q))
<1>1. Proceed(q).id = q.id /\ Proceed(q).want = q.want /\ Proceed(q).copies = q.copies
  BY DEF Proceed, Request
<1>2. \/ Proceed(q).side = q.side
      \/ Proceed(q).side = LastSide(q.id) /\ \A y \in Ids : q.copies[y] = None
  BY DEF Proceed, Request
<1> QED
  BY <1>1, <1>2 DEF KindsOf

\* Documents and requests go on listing documents of the kinds they have links to.
LEMMA StepKeepsKinds ==
    ASSUME TypeOK, TypeOK', DocumentKinds, RequestKinds, [Next]_vars
    PROVE  DocumentKinds' /\ RequestKinds'
<1>1. CASE UNCHANGED vars
  BY <1>1 DEF DocumentKinds, RequestKinds, vars, Exists, Busy
<1>2. ASSUME NEW p \in Processes, NEW x \in Ids, NEW want \in SUBSET Linkable(x), Begin(p, x, want)
      PROVE  DocumentKinds' /\ RequestKinds'
  <2> DEFINE q == [id |-> x, new |-> ~Exists(x), want |-> want,
                   at |-> IF Exists(x) THEN "pull" ELSE "insert",
                   side |-> FirstSide(x), copies |-> NoCopies,
                   alone |-> \A o \in Processes : ~Busy(o),
                   before |-> IF \A o \in Processes : ~Busy(o) THEN doc ELSE NoCopies]
  <2>1. KindsOf(q)
    BY DEF KindsOf, Linkable, Sides, NoCopies
  <2>2. ASSUME NEW o \in Processes, Busy(o)'
        PROVE  KindsOf(request'[o])
    <3>1. request'[o] = IF request[o] = None THEN [request EXCEPT ![p] = q][o]
                        ELSE [[request EXCEPT ![p] = q][o] EXCEPT !.alone = FALSE, !.before = NoCopies]
      BY <1>2 DEF Begin, Meets
    <3>2. request[p] = None
      BY <1>2 DEF Begin, MayBegin, Busy
    <3> HIDE DEF q
    <3>3. CASE o = p
      BY <2>1, <3>1, <3>2, <3>3 DEF TypeOK
    <3>4. CASE o # p /\ request[o] = None
      BY <2>2, <3>1, <3>4 DEF TypeOK, Busy
    <3>5. CASE o # p /\ request[o] # None
      <4>1. request'[o] = [request[o] EXCEPT !.alone = FALSE, !.before = NoCopies]
        BY <3>1, <3>5 DEF TypeOK
      <4> QED
        BY <3>5, <4>1, AloneIsNoKind, BusyHasRequest DEF RequestKinds, Busy
    <3> QED
      BY <3>3, <3>4, <3>5
  <2>3. doc' = doc
    BY <1>2 DEF Begin
  <2> QED
    BY <2>2, <2>3 DEF DocumentKinds, RequestKinds, Exists
<1>3. ASSUME NEW p \in Processes, NEW x \in Ids, NEW want \in SUBSET Linkable(x), Import(p, x, want)
      PROVE  DocumentKinds' /\ RequestKinds'
  <2>1. want \subseteq Sides(x)
    BY DEF Linkable, Sides
  <2>2. DocumentKinds'
    BY <1>3, <2>1 DEF Import, DocumentKinds, Exists, TypeOK, Documents
  <2>3. ASSUME NEW o \in Processes, Busy(o)'
        PROVE  KindsOf(request'[o])
    <3>1. request'[o] = IF request[o] = None THEN request[o] ELSE [request[o] EXCEPT !.alone = FALSE, !.before = NoCopies]
      BY <1>3 DEF Import, Meets
    <3> QED
      BY <2>3, <3>1, AloneIsNoKind, BusyHasRequest DEF RequestKinds, Busy
  <2> QED
    BY <2>2, <2>3 DEF RequestKinds
<1>4. ASSUME NEW p \in Processes, Insert(p) \/ Pull(p) \/ Finish(p) \/ Fail(p)
      PROVE  DocumentKinds' /\ RequestKinds'
  <2>1. request[p] \in Request /\ KindsOf(request[p])
    BY <1>4, BusyHasRequest DEF Insert, Pull, Finish, Fail, RequestKinds
  <2>2. DocumentKinds'
    BY <1>4, <2>1 DEF Insert, Pull, Finish, Fail, DocumentKinds, KindsOf, Exists, TypeOK, Documents
  <2>3. \A at \in {"pull", "read"} : KindsOf([request[p] EXCEPT !.at = at])
    BY <2>1 DEF Request, KindsOf
  <2>4. RequestKinds'
    BY <1>4, <2>3 DEF Insert, Pull, Finish, Fail, RequestKinds, Busy, TypeOK
  <2> QED
    BY <2>2, <2>4
<1>5. ASSUME NEW p \in Processes, Read(p)
      PROVE  DocumentKinds' /\ RequestKinds'
  <2> DEFINE copies == [y \in Ids |-> IF y \in request[p].side \cap request[p].want THEN doc[y] ELSE None]
             q == [request[p] EXCEPT !.copies = copies]
  <2>1. request[p] \in Request /\ KindsOf(request[p])
    BY <1>5, BusyHasRequest DEF Read, RequestKinds
  <2>2. \A y \in Ids : copies[y] # None => y \in request[p].side /\ copies[y] \subseteq Sides(y)
    BY DEF DocumentKinds, Exists
  <2>3. copies \in Documents
    BY DEF TypeOK, Documents
  <2>4. q \in Request /\ KindsOf(q)
    <3> HIDE DEF copies
    <3> QED
      BY <2>1, <2>2, <2>3 DEF Request, KindsOf
  <2>5. request' = [request EXCEPT ![p] = Proceed(q)] /\ doc' = doc
    BY <1>5 DEF Read
  <2> HIDE DEF q
  <2>6. KindsOf(Proceed(q))
    BY <2>4, ProceedKeepsKinds
  <2> QED
    BY <2>5, <2>6 DEF DocumentKinds, RequestKinds, Exists, Busy, TypeOK
<1>6. ASSUME NEW p \in Processes, NEW y \in Ids, WriteBack(p, y)
      PROVE  DocumentKinds' /\ RequestKinds'
  <2> DEFINE q == [request[p] EXCEPT !.copies[y] = None]
  <2>1. request[p] \in Request /\ KindsOf(request[p])
    BY <1>6, BusyHasRequest DEF WriteBack, RequestKinds
  <2>2. request[p].id \in Ids
    BY <2>1 DEF Request
  <2>3. y \in Sides(request[p].id) /\ request[p].copies[y] \subseteq Sides(y)
    BY <1>6, <2>1 DEF WriteBack, KindsOf, Sides
  <2>4. Written(request[p].id, request[p].copies[y]) \subseteq Sides(y)
    BY <2>2, <2>3, SidesAreKinds DEF Written
  <2>5. DocumentKinds'
    BY <1>6, <2>4 DEF WriteBack, DocumentKinds, Exists, TypeOK, Documents
  <2>6. q \in Request /\ KindsOf(q)
    BY <2>1 DEF Request, Documents, KindsOf
  <2>7. request' = [request EXCEPT ![p] = Proceed(q)]
    BY <1>6 DEF WriteBack
  <2> HIDE DEF q
  <2>8. KindsOf(Proceed(q))
    BY <2>6, ProceedKeepsKinds
  <2> QED
    BY <2>5, <2>7, <2>8 DEF RequestKinds, Busy, TypeOK
<1> QED
  BY <1>1, <1>2, <1>3, <1>4, <1>5, <1>6 DEF Next, Step

-----------------------------------------------------------------------------
(***************************************************************************)
(* What each call of a save makes of the documents                         *)
(***************************************************************************)
\* From the insert to the pull.
LEMMA InsertGoesOn ==
    ASSUME NEW d \in Documents, NEW q \in Request, KindsOf(q), OnItsWay(d, q), q.at = "insert"
    PROVE  OnItsWay([d EXCEPT ![q.id] = q.want], [q EXCEPT !.at = "pull"])
<1> DEFINE e == [d EXCEPT ![q.id] = q.want]
           r == [q EXCEPT !.at = "pull"]
<1>1. /\ r.id = q.id /\ r.new = q.new /\ r.want = q.want /\ r.at = "pull" /\ r.side = q.side
      /\ r.copies = q.copies /\ r.before = q.before
  BY DEF Request
<1>2. q.id \in Ids /\ q.want \in SUBSET Ids /\ q.want # None
  BY NoneIsNothing DEF Request
<1>3. e[q.id] = q.want /\ \A y \in Ids \ {q.id} : e[y] = d[y]
  BY <1>2 DEF Documents
<1>4. \A y \in Ids : q.copies[y] = None
  BY DEF OnItsWay, Progress
<1> HIDE DEF e, r
<1>5. Framed(e, r)
  BY <1>1, <1>3 DEF OnItsWay, Framed
<1>6. Own(e, r)
  BY <1>1, <1>2, <1>3 DEF OnItsWay, Own
<1>7. Progress(e, r)
  BY <1>1, <1>4 DEF OnItsWay, Own, Progress
<1> QED
  BY <1>5, <1>6, <1>7 DEF OnItsWay, e, r

\* The pull leaves no document of the side that lists the id.
LEMMA PullGoesOn ==
    ASSUME NEW d \in Documents, NEW q \in Request, KindsOf(q), OnItsWay(d, q), q.at = "pull"
    PROVE  OnItsWay([y \in Ids |-> IF y \in q.side /\ d[y] # None THEN d[y] \ {q.id} ELSE d[y]],
                    [q EXCEPT !.at = "read"])
<1> DEFINE e == [y \in Ids |-> IF y \in q.side /\ d[y] # None THEN d[y] \ {q.id} ELSE d[y]]
           r == [q EXCEPT !.at = "read"]
<1>1. /\ r.id = q.id /\ r.new = q.new /\ r.want = q.want /\ r.at = "read" /\ r.side = q.side
      /\ r.copies = q.copies /\ r.before = q.before
  BY DEF Request
<1>2. q.id \in Ids /\ q.want \in SUBSET Ids /\ q.id \notin q.side /\ q.side \subseteq Ids
  BY SidesAreKinds DEF Request, KindsOf, Sides
<1>3. \A y \in Ids : d[y] # None => d[y] \in SUBSET Ids /\ d[y] \ {q.id} \in SUBSET Ids
  BY DEF Documents
<1>4. \A y \in Ids : e[y] # None <=> d[y] # None
  BY <1>3, NoneIsNothing
<1>5. \A y \in Ids : d[y] # None => e[y] \ {q.id} = d[y] \ {q.id}
  OBVIOUS
<1>6. \A y \in q.side : d[y] # None => q.id \notin e[y]
  BY <1>2
<1>7. \A y \in Ids \ q.side : e[y] = d[y]
  OBVIOUS
<1> HIDE DEF e, r
<1>8. Framed(e, r)
  BY <1>1, <1>4, <1>5 DEF OnItsWay, Framed
<1>9. Own(e, r)
  BY <1>1, <1>2, <1>4, <1>7 DEF OnItsWay, Own
<1>10. Progress(e, r)
  <2>1. ASSUME q.side # FirstSide(q.id) PROVE Synced(e, r, FirstSide(q.id))
    <3>1. \A y \in FirstSide(q.id) : y \in Ids /\ y \notin q.side
      BY <1>2, <2>1, SidesAreKinds, MembershipAssumption DEF KindsOf
    <3> QED
      BY <1>1, <1>7, <2>1, <3>1 DEF OnItsWay, Progress, Synced
  <2> QED
    BY <1>1, <1>2, <1>4, <1>6, <2>1 DEF OnItsWay, Progress
<1> QED
  BY <1>8, <1>9, <1>10 DEF OnItsWay, e, r

\* When no copy is left the side is done, and the next begins or none is left.
LEMMA ProceedGoesOn ==
    ASSUME NEW d \in Documents, NEW q \in Request, q.at \in {"read", "write"},
           q.side \in {FirstSide(q.id), LastSide(q.id)},
           Framed(d, q), Own(d, q),
           q.side # FirstSide(q.id) => Synced(d, q, FirstSide(q.id)),
           \A y \in Ids : q.copies[y] # None => y \in q.want /\ d[y] = q.copies[y] /\ q.id \notin d[y],
           Synced(d, q, {y \in q.side : q.copies[y] = None})
    PROVE  OnItsWay(d, Proceed(q))
<1> DEFINE r == Proceed(q)
<1>1. /\ r.id = q.id /\ r.new = q.new /\ r.want = q.want
      /\ r.copies = q.copies /\ r.before = q.before /\ r.at # "insert"
  BY DEF Request, Proceed
<1>2. \/ r.at = "write" /\ r.side = q.side
      \/ r.at = "pull" /\ r.side = LastSide(q.id) /\ q.side # LastSide(q.id)
           /\ \A y \in Ids : q.copies[y] = None
      \/ r.at = "finish" /\ r.side = q.side /\ q.side = LastSide(q.id)
           /\ \A y \in Ids : q.copies[y] = None
  BY DEF Request, Proceed
<1>3. q.id \in Ids /\ q.side \subseteq Ids
  BY SidesAreKinds DEF Request
<1> HIDE DEF r
<1>4. Framed(d, r)
  BY <1>1 DEF Framed
<1>5. Own(d, r)
  BY <1>1 DEF Own
<1>6. Progress(d, r)
  <2>1. CASE r.at = "write"
    BY <1>1, <1>2, <2>1 DEF Progress, Synced
  <2>2. CASE r.at = "pull"
    <3>1. q.side = FirstSide(q.id) /\ {y \in q.side : q.copies[y] = None} = q.side
      BY <1>2, <1>3, <2>2
    <3>2. Synced(d, r, FirstSide(q.id))
      BY <1>1, <3>1 DEF Synced
    <3> QED
      BY <1>1, <1>2, <2>2, <3>2 DEF Progress
  <2>3. CASE r.at = "finish"
    <3>1. {y \in q.side : q.copies[y] = None} = q.side
      BY <1>2, <1>3, <2>3
    <3>2. Synced(d, r, r.side)
      BY <1>1, <1>2, <2>3, <3>1 DEF Synced
    <3>3. r.side # FirstSide(q.id) => Synced(d, r, FirstSide(q.id))
      BY <1>1, <1>2, <2>3 DEF Synced
    <3> QED
      BY <1>1, <1>2, <2>3, <3>2, <3>3 DEF Progress
  <2> QED
    BY <1>2, <2>1, <2>2, <2>3
<1> QED
  BY <1>4, <1>5, <1>6 DEF OnItsWay, r

\* The copies that are read are those of documents that shall list the id and do not.
LEMMA ReadGoesOn ==
    ASSUME NEW d \in Documents, NEW q \in Request, KindsOf(q), OnItsWay(d, q), q.at = "read"
    PROVE  OnItsWay(d, Proceed([q EXCEPT !.copies =
                          [y \in Ids |-> IF y \in q.side \cap q.want THEN d[y] ELSE None]]))
<1> DEFINE copies == [y \in Ids |-> IF y \in q.side \cap q.want THEN d[y] ELSE None]
           r == [q EXCEPT !.copies = copies]
<1>1. copies \in Documents
  BY DEF Documents
<1>2. \A y \in Ids : copies[y] = IF y \in q.side \cap q.want THEN d[y] ELSE None
  OBVIOUS
<1> HIDE DEF copies
<1>3. /\ r.id = q.id /\ r.new = q.new /\ r.want = q.want /\ r.at = q.at /\ r.side = q.side
      /\ r.copies = copies /\ r.before = q.before /\ r \in Request
  BY <1>1 DEF Request
<1>4. q.side \subseteq Ids /\ q.id \in Ids
  BY SidesAreKinds DEF Request, KindsOf
<1> HIDE DEF r
<1>5. \A y \in Ids : copies[y] # None => y \in q.side /\ y \in q.want /\ d[y] = copies[y] /\ q.id \notin d[y]
  BY <1>2 DEF OnItsWay, Progress
<1>6. Synced(d, r, {y \in r.side : r.copies[y] = None})
  BY <1>2, <1>3, <1>4 DEF OnItsWay, Own, Progress, Synced
<1>7. Framed(d, r) /\ Own(d, r)
  BY <1>3 DEF OnItsWay, Framed, Own
<1>8. r.side # FirstSide(r.id) => Synced(d, r, FirstSide(r.id))
  BY <1>3 DEF OnItsWay, Progress, Synced
<1> QED
  <2>1. r.side \in {FirstSide(r.id), LastSide(r.id)}
    BY <1>3 DEF KindsOf
  <2>2. OnItsWay(d, Proceed(r))
    BY <1>3, <1>5, <1>6, <1>7, <1>8, <2>1, ProceedGoesOn
  <2> QED
    BY <2>2 DEF r, copies

\* A document that is written back lists the id and is otherwise what it was.
LEMMA WriteBackGoesOn ==
    ASSUME NEW d \in Documents, NEW q \in Request, KindsOf(q), OnItsWay(d, q), q.at = "write",
           NEW y \in Ids, q.copies[y] # None
    PROVE  /\ OnItsWay([d EXCEPT ![y] = Written(q.id, q.copies[y])], Proceed([q EXCEPT !.copies[y] = None]))
           /\ q.id \notin q.copies[y]
<1> DEFINE e == [d EXCEPT ![y] = Written(q.id, q.copies[y])]
           r == [q EXCEPT !.copies[y] = None]
<1>1. /\ r.id = q.id /\ r.new = q.new /\ r.want = q.want /\ r.at = q.at /\ r.side = q.side
      /\ r.before = q.before /\ r \in Request
      /\ r.copies[y] = None /\ \A z \in Ids \ {y} : r.copies[z] = q.copies[z]
  BY DEF Request, Documents
<1>2. d[y] = q.copies[y] /\ q.id \notin d[y] /\ y \in q.want /\ y \in q.side
  BY DEF OnItsWay, Progress, KindsOf
<1>3. q.id \in Ids /\ q.side \subseteq Ids /\ y # q.id
  BY <1>2, SidesAreKinds DEF Request, KindsOf, Sides
<1>4. d[y] \in SUBSET Ids /\ d[y] # None
  BY <1>2 DEF Documents
<1>5. e[y] = d[y] \cup {q.id} /\ \A z \in Ids \ {y} : e[z] = d[z]
  BY <1>2 DEF Written, Documents
<1>6. e[y] # None /\ e \in Documents
  BY <1>3, <1>4, <1>5, NoneIsNothing DEF Documents
<1> HIDE DEF e, r
<1>7. Framed(e, r)
  BY <1>1, <1>4, <1>5, <1>6 DEF OnItsWay, Framed
<1>8. Own(e, r)
  BY <1>1, <1>3, <1>5, <1>6 DEF OnItsWay, Own
<1>9. r.side # FirstSide(r.id) => Synced(e, r, FirstSide(r.id))
  <2> SUFFICES ASSUME q.side # FirstSide(q.id), NEW z \in FirstSide(q.id)
               PROVE  z \in Ids /\ z # y
    BY <1>1, <1>5 DEF OnItsWay, Progress, Synced
  <2> QED
    BY <1>2, <1>3, SidesAreKinds, MembershipAssumption DEF KindsOf
<1>10. \A z \in Ids : r.copies[z] # None => z \in r.want /\ e[z] = r.copies[z] /\ r.id \notin e[z]
  BY <1>1, <1>5 DEF OnItsWay, Progress
<1>11. Synced(e, r, {z \in r.side : r.copies[z] = None})
  <2>1. \A z \in r.side : r.copies[z] = None => z = y \/ q.copies[z] = None
    BY <1>1, <1>3
  <2> QED
    BY <1>1, <1>2, <1>3, <1>5, <2>1 DEF OnItsWay, Progress, Synced
<1>12. OnItsWay(e, Proceed(r))
  <2>1. r.side \in {FirstSide(r.id), LastSide(r.id)}
    BY <1>1 DEF KindsOf
  <2> QED
    BY <1>1, <1>6, <1>7, <1>8, <1>9, <1>10, <1>11, <2>1, ProceedGoesOn
<1> QED
  BY <1>2, <1>12 DEF e, r

-----------------------------------------------------------------------------
(***************************************************************************)
(* Undisturbed requests                                                    *)
(***************************************************************************)
\* What a call by p has to show for AloneInv.
LEMMA OneCallKeepsAlone ==
    ASSUME AloneInv, NEW p \in Processes, Busy(p),
           \A o \in Processes \ {p} : request'[o] = request[o],
           Busy(p)' /\ request'[p].alone => request[p].alone /\ OnItsWay(doc', request'[p])
    PROVE  AloneInv'
<1> SUFFICES ASSUME NEW o \in Processes, Busy(o)', request'[o].alone
             PROVE  /\ \A r \in Processes \ {o} : ~Busy(r)'
                    /\ OnItsWay(doc', request'[o])
  BY DEF AloneInv
<1>1. CASE o = p
  BY <1>1 DEF AloneInv, Busy
<1>2. CASE o # p
  BY <1>2 DEF AloneInv, Busy
<1> QED
  BY <1>1, <1>2

\* What Begin and Import make of requests under way is never alone.
LEMMA MetIsNotAlone ==
    ASSUME NEW requestNow, NEW o \in Processes, TypeOK, request[o] # None, requestNow[o] = request[o]
    PROVE  ~Meets(requestNow)[o].alone
<1>1. request[o] \in Request
  BY BusyHasRequest DEF Busy
<1>2. Meets(requestNow)[o] = [request[o] EXCEPT !.alone = FALSE, !.before = NoCopies]
  BY DEF Meets
<1> QED
  BY <1>1, <1>2 DEF Request

\* A request that is alone stays on its way, and stays alone or ends.
LEMMA StepKeepsAlone ==
    ASSUME TypeOK, RequestKinds, AloneInv, [Next]_vars
    PROVE  AloneInv'
<1>1. CASE UNCHANGED vars
  BY <1>1 DEF AloneInv, vars, Busy
<1>2. ASSUME NEW p \in Processes, NEW x \in Ids, NEW want \in SUBSET Linkable(x), Begin(p, x, want)
      PROVE  AloneInv'
  <2> DEFINE q == [id |-> x, new |-> ~Exists(x), want |-> want,
                   at |-> IF Exists(x) THEN "pull" ELSE "insert",
                   side |-> FirstSide(x), copies |-> NoCopies,
                   alone |-> \A o \in Processes : ~Busy(o),
                   before |-> IF \A o \in Processes : ~Busy(o) THEN doc ELSE NoCopies]
  <2>1. request[p] = None /\ request' = Meets([request EXCEPT ![p] = q]) /\ doc' = doc
    BY <1>2 DEF Begin, MayBegin, Busy
  <2>2. request'[p] = q
    BY <2>1 DEF Meets, TypeOK
  <2>3. \A o \in Processes \ {p} : request[o] # None => ~request'[o].alone
    <3> HIDE DEF q
    <3> QED
      BY <2>1, MetIsNotAlone DEF TypeOK
  <2>4. \A o \in Processes \ {p} : request[o] = None => request'[o] = None
    BY <2>1 DEF Meets, TypeOK
  <2>5. q.alone => OnItsWay(doc, q)
    <3> SUFFICES ASSUME q.alone PROVE OnItsWay(doc, q)
      OBVIOUS
    <3>1. q.before = doc
      OBVIOUS
    <3>2. Framed(doc, q)
      BY <3>1 DEF Framed
    <3>3. Own(doc, q)
      BY DEF Own, Exists, Linkable
    <3>4. Progress(doc, q)
      BY DEF Progress, NoCopies
    <3> QED
      BY <3>2, <3>3, <3>4 DEF OnItsWay
  <2>6. q.alone => \A o \in Processes \ {p} : request[o] = None
    BY DEF Busy
  <2> HIDE DEF q
  <2> QED
    BY <2>1, <2>2, <2>3, <2>4, <2>5, <2>6 DEF AloneInv, Busy
<1>3. ASSUME NEW p \in Processes, NEW x \in Ids, NEW want \in SUBSET Linkable(x), Import(p, x, want)
      PROVE  AloneInv'
  <2>1. request' = Meets(request)
    BY <1>3 DEF Import
  <2>2. \A o \in Processes : request[o] # None => ~request'[o].alone
    BY <2>1, MetIsNotAlone
  <2>3. \A o \in Processes : request[o] = None => request'[o] = None
    BY <2>1 DEF Meets
  <2> QED
    BY <2>2, <2>3 DEF AloneInv, Busy
<1>4. ASSUME NEW p \in Processes, Finish(p) \/ Fail(p)
      PROVE  AloneInv'
  <2>1. Busy(p) /\ request' = [request EXCEPT ![p] = None]
    BY <1>4 DEF Finish, Fail
  <2>2. ~Busy(p)' /\ \A o \in Processes \ {p} : request'[o] = request[o]
    BY <2>1 DEF TypeOK, Busy
  <2> QED
    BY <2>1, <2>2, OneCallKeepsAlone
<1>5. ASSUME NEW p \in Processes, Insert(p)
      PROVE  AloneInv'
  <2> DEFINE q == request[p]
  <2>1. Busy(p) /\ q \in Request /\ KindsOf(q) /\ q.at = "insert"
    BY <1>5, BusyHasRequest DEF Insert, RequestKinds
  <2>2. request'[p] = [q EXCEPT !.at = "pull"] /\ \A o \in Processes \ {p} : request'[o] = request[o]
    BY <1>5 DEF Insert, TypeOK
  <2>3. doc' = [doc EXCEPT ![q.id] = q.want]
    BY <1>5 DEF Insert
  <2>4. request'[p].alone = q.alone
    BY <2>1, <2>2 DEF Request
  <2>5. q.alone => OnItsWay(doc', request'[p])
    BY <2>1, <2>2, <2>3, InsertGoesOn DEF AloneInv, TypeOK
  <2> QED
    BY <2>1, <2>2, <2>4, <2>5, OneCallKeepsAlone
<1>6. ASSUME NEW p \in Processes, Pull(p)
      PROVE  AloneInv'
  <2> DEFINE q == request[p]
  <2>1. Busy(p) /\ q \in Request /\ KindsOf(q) /\ q.at = "pull"
    BY <1>6, BusyHasRequest DEF Pull, RequestKinds
  <2>2. request'[p] = [q EXCEPT !.at = "read"] /\ \A o \in Processes \ {p} : request'[o] = request[o]
    BY <1>6 DEF Pull, TypeOK
  <2>3. doc' = [y \in Ids |-> IF y \in q.side /\ doc[y] # None THEN doc[y] \ {q.id} ELSE doc[y]]
    BY <1>6 DEF Pull, Exists
  <2>4. request'[p].alone = q.alone
    BY <2>1, <2>2 DEF Request
  <2>5. q.alone => OnItsWay(doc', request'[p])
    BY <2>1, <2>2, <2>3, PullGoesOn DEF AloneInv, TypeOK
  <2> QED
    BY <2>1, <2>2, <2>4, <2>5, OneCallKeepsAlone
<1>7. ASSUME NEW p \in Processes, Read(p)
      PROVE  AloneInv'
  <2> DEFINE q == request[p]
             r == [q EXCEPT !.copies = [y \in Ids |-> IF y \in q.side \cap q.want THEN doc[y] ELSE None]]
  <2>1. Busy(p) /\ q \in Request /\ KindsOf(q) /\ q.at = "read"
    BY <1>7, BusyHasRequest DEF Read, RequestKinds
  <2>2. request' = [request EXCEPT ![p] = Proceed(r)] /\ doc' = doc
    BY <1>7 DEF Read
  <2>3. q.alone => OnItsWay(doc, Proceed(r))
    BY <2>1, ReadGoesOn DEF AloneInv, TypeOK
  <2>4. Proceed(r).alone = q.alone
    BY <2>1 DEF Request, Proceed
  <2> HIDE DEF r
  <2>5. request'[p] = Proceed(r) /\ \A o \in Processes \ {p} : request'[o] = request[o]
    BY <2>2 DEF TypeOK
  <2> QED
    BY <2>1, <2>2, <2>3, <2>4, <2>5, OneCallKeepsAlone
<1>8. ASSUME NEW p \in Processes, NEW y \in Ids, WriteBack(p, y)
      PROVE  AloneInv'
  <2> DEFINE q == request[p]
             r == [q EXCEPT !.copies[y] = None]
  <2>1. Busy(p) /\ q \in Request /\ KindsOf(q) /\ q.at = "write" /\ q.copies[y] # None
    BY <1>8, BusyHasRequest DEF WriteBack, RequestKinds
  <2>2. request' = [request EXCEPT ![p] = Proceed(r)]
    BY <1>8 DEF WriteBack
  <2>3. q.alone => /\ OnItsWay([doc EXCEPT ![y] = Written(q.id, q.copies[y])], Proceed(r))
                   /\ q.id \notin q.copies[y]
    BY <2>1, WriteBackGoesOn DEF AloneInv, TypeOK
  <2>4. q.id \notin q.copies[y] => doc' = [doc EXCEPT ![y] = Written(q.id, q.copies[y])]
    BY <1>8 DEF WriteBack
  <2>5. Proceed(r).alone = q.alone
    BY <2>1 DEF Request, Proceed
  <2> HIDE DEF r
  <2>6. request'[p] = Proceed(r) /\ \A o \in Processes \ {p} : request'[o] = request[o]
    BY <2>2 DEF TypeOK
  <2> QED
    BY <2>1, <2>3, <2>4, <2>5, <2>6, OneCallKeepsAlone
<1> QED
  BY <1>1, <1>2, <1>3, <1>4, <1>5, <1>6, <1>7, <1>8 DEF Next, Step

\* What a request that was alone leaves: its document is as wanted, the documents of
\* both sides say the same, and the links of all others are what they were.
LEMMA FinishLeaves ==
    ASSUME TypeOK, DocumentKinds, RequestKinds, AloneInv,
           NEW p \in Processes, Finish(p), request[p].alone,
           NEW x \in Ids, request[p].id = x
    PROVE  /\ \A y \in Ids : AgreeOn(x, y)'
           /\ \A y \in Ids \ {x} : Exists(y)' <=> request[p].before[y] # None
           /\ \A y, z \in Ids \ {x} :
                 Lists(y, z)' <=> request[p].before[y] # None /\ z \in request[p].before[y]
<1> DEFINE q == request[p]
<1>1. Busy(p) /\ q \in Request /\ KindsOf(q) /\ q.at = "finish" /\ OnItsWay(doc, q)
  BY BusyHasRequest DEF Finish, RequestKinds, AloneInv
<1>2. x = q.id /\ q.want \in SUBSET Ids /\ q.want \subseteq Sides(x)
  BY <1>1 DEF Request, KindsOf
<1>3. doc[x] # None /\ (q.new => doc[x] = q.want)
  BY <1>1 DEF OnItsWay, Own
<1>4. doc'[x] = q.want /\ \A y \in Ids \ {x} : doc'[y] = doc[y]
  BY <1>2, <1>3 DEF Finish, TypeOK, Documents
<1>5. \A y \in Ids : Lists(x, y)' <=> y \in q.want
  BY <1>2, <1>4, NoneIsNothing DEF Lists, Exists
<1>6. \A y \in Sides(x) : doc[y] # None => (x \in doc[y] <=> y \in q.want)
  BY <1>1 DEF OnItsWay, Progress, Synced, Sides
<1>7. ASSUME NEW y \in Ids PROVE AgreeOn(x, y)'
  <2>1. CASE y = x
    BY <2>1 DEF AgreeOn
  <2>2. CASE y # x /\ y \in Sides(x)
    BY <1>3, <1>4, <1>5, <1>6, <2>2 DEF AgreeOn, Lists, Exists
  <2>3. CASE y # x /\ y \notin Sides(x)
    <3>1. x \notin Sides(y)
      BY <1>2, <2>3, SidesAreKinds
    <3> QED
      BY <1>2, <1>4, <1>5, <2>3, <3>1 DEF AgreeOn, Lists, Exists, DocumentKinds
  <2> QED
    BY <2>1, <2>2, <2>3
<1>9. \A y \in Ids \ {x} : Exists(y)' <=> q.before[y] # None
  BY <1>1, <1>2, <1>4 DEF OnItsWay, Framed, Exists
<1>8. ASSUME NEW y \in Ids \ {x}, NEW z \in Ids \ {x}
      PROVE  Lists(y, z)' <=> q.before[y] # None /\ z \in q.before[y]
  <2>1. /\ doc[y] # None <=> q.before[y] # None
        /\ doc[y] # None => doc[y] \ {x} = q.before[y] \ {x}
    BY <1>1 DEF OnItsWay, Framed
  <2>2. Lists(y, z)' <=> doc[y] # None /\ z \in doc[y]
    BY <1>4 DEF Lists, Exists
  <2> QED
    BY <2>1, <2>2
<1> QED
  BY <1>7, <1>8, <1>9

\* Undisturbed requests start from links that agree, and end in links that agree.
LEMMA StepKeepsAgreement ==
    ASSUME TypeOK, DocumentKinds, RequestKinds, AloneInv, UndisturbedInv, LinksAgree, [Next]_vars
    PROVE  UndisturbedInv' /\ LinksAgree'
<1>1. CASE UNCHANGED vars
  BY <1>1 DEF UndisturbedInv, LinksAgree, AgreeOn, Lists, Exists, Busy, vars
<1>2. ASSUME NEW p \in Processes, NEW x \in Ids, NEW want \in SUBSET Linkable(x), Begin(p, x, want)
      PROVE  UndisturbedInv' /\ LinksAgree'
  <2> DEFINE q == [id |-> x, new |-> ~Exists(x), want |-> want,
                   at |-> IF Exists(x) THEN "pull" ELSE "insert",
                   side |-> FirstSide(x), copies |-> NoCopies,
                   alone |-> \A o \in Processes : ~Busy(o),
                   before |-> IF \A o \in Processes : ~Busy(o) THEN doc ELSE NoCopies]
  <2>1. request[p] = None /\ request' = Meets([request EXCEPT ![p] = q])
    BY <1>2 DEF Begin, MayBegin, Busy
  <2>2. request'[p] = q
    BY <2>1 DEF Meets, TypeOK
  <2>3. \A o \in Processes \ {p} : request[o] = None => request'[o] = None
    BY <2>1 DEF Meets, TypeOK
  <2>4. Busy(p)'
    <3>1. want \in SUBSET Ids /\ FirstSide(x) \in {Users, Groups, Spaces} /\ NoCopies \in Documents
      BY SidesAreKinds DEF Linkable, NoCopies, Documents
    <3>2. q \in Request
      BY <3>1 DEF Request, TypeOK, Exists
    <3> HIDE DEF q
    <3> QED
      BY <2>2, <3>2, NoneIsNothing DEF Busy
  <2>5. LinksAgree'
    BY <2>4 DEF LinksAgree
  <2>6. ASSUME ~disturbed' PROVE \A o \in Processes : Busy(o)' => request'[o].alone /\ AgreedBefore(request'[o])
    <3>1. ~disturbed /\ \A o \in Processes : ~Busy(o)
      BY <1>2, <2>6 DEF Begin
    <3>2. q.alone /\ q.id = x /\ q.before = doc
      BY <3>1
    <3>3. \A y, z \in Ids : AgreeOn(y, z)
      BY <3>1 DEF LinksAgree
    <3>4. AgreedBefore(q)
      <4> HIDE DEF q
      <4> QED
        BY <3>2, <3>3 DEF AgreedBefore, AgreeOn, Lists, Exists
    <3> HIDE DEF q
    <3> QED
      BY <2>2, <2>3, <3>1, <3>2, <3>4 DEF Busy
  <2> QED
    BY <2>5, <2>6 DEF UndisturbedInv
<1>3. ASSUME NEW p \in Processes, NEW x \in Ids, NEW want \in SUBSET Linkable(x), Import(p, x, want)
      PROVE  UndisturbedInv' /\ LinksAgree'
  BY <1>3 DEF Import, UndisturbedInv, LinksAgree
<1>4. ASSUME NEW p \in Processes, Fail(p)
      PROVE  UndisturbedInv' /\ LinksAgree'
  BY <1>4 DEF Fail, UndisturbedInv, LinksAgree
<1>5. ASSUME NEW p \in Processes, Busy(p), Busy(p)', disturbed' = disturbed,
             \A o \in Processes \ {p} : request'[o] = request[o],
             request'[p].id = request[p].id, request'[p].alone = request[p].alone,
             request'[p].before = request[p].before
      PROVE  UndisturbedInv' /\ LinksAgree'
  <2>1. LinksAgree'
    BY <1>5 DEF LinksAgree
  <2>2. ASSUME ~disturbed', NEW o \in Processes, Busy(o)'
        PROVE  request'[o].alone /\ AgreedBefore(request'[o])
    <3>1. CASE o = p
      BY <1>5, <2>2, <3>1 DEF UndisturbedInv, AgreedBefore
    <3>2. CASE o # p
      BY <1>5, <2>2, <3>2 DEF UndisturbedInv, Busy
    <3> QED
      BY <3>1, <3>2
  <2> QED
    BY <2>1, <2>2 DEF UndisturbedInv
<1>6. ASSUME NEW p \in Processes, Insert(p) \/ Pull(p)
      PROVE  UndisturbedInv' /\ LinksAgree'
  <2>1. request[p] \in Request
    BY <1>6, BusyHasRequest DEF Insert, Pull
  <2>2. PICK at \in {"pull", "read"} : request' = [request EXCEPT ![p] = [request[p] EXCEPT !.at = at]]
    BY <1>6 DEF Insert, Pull
  <2>3. /\ request'[p] = [request[p] EXCEPT !.at = at]
        /\ \A o \in Processes \ {p} : request'[o] = request[o]
    BY <2>2 DEF TypeOK
  <2>4. [request[p] EXCEPT !.at = at] \in Request
    BY <2>1 DEF Request
  <2>5. Busy(p) /\ Busy(p)' /\ disturbed' = disturbed
    BY <1>6, <2>3, <2>4, NoneIsNothing DEF Insert, Pull, Busy
  <2>6. /\ request'[p].id = request[p].id /\ request'[p].alone = request[p].alone
        /\ request'[p].before = request[p].before
    BY <2>1, <2>3 DEF Request
  <2> QED
    BY <1>5, <2>3, <2>5, <2>6
<1>7. ASSUME NEW p \in Processes, NEW copies \in Documents, Busy(p), disturbed' = disturbed,
             request' = [request EXCEPT ![p] = Proceed([request[p] EXCEPT !.copies = copies])]
      PROVE  UndisturbedInv' /\ LinksAgree'
  <2> DEFINE r == [request[p] EXCEPT !.copies = copies]
  <2>1. request[p] \in Request
    BY <1>7, BusyHasRequest
  <2>2. /\ r \in Request /\ r.id = request[p].id /\ r.alone = request[p].alone
        /\ r.before = request[p].before
    BY <2>1 DEF Request
  <2> HIDE DEF r
  <2>3. Proceed(r) \in Request
    BY <2>2, ProceedKeepsType
  <2>4. Proceed(r).id = r.id /\ Proceed(r).alone = r.alone /\ Proceed(r).before = r.before
    BY <2>2 DEF Request, Proceed
  <2>5. request'[p] = Proceed(r) /\ \A o \in Processes \ {p} : request'[o] = request[o]
    BY <1>7 DEF TypeOK, r
  <2>6. Busy(p)'
    BY <2>3, <2>5, NoneIsNothing DEF Busy
  <2> QED
    BY <1>5, <1>7, <2>2, <2>4, <2>5, <2>6
<1>8. ASSUME NEW p \in Processes, Read(p)
      PROVE  UndisturbedInv' /\ LinksAgree'
  <2> DEFINE copies == [y \in Ids |-> IF y \in request[p].side \cap request[p].want THEN doc[y] ELSE None]
  <2>1. copies \in Documents
    BY DEF TypeOK, Documents
  <2>2. /\ Busy(p) /\ disturbed' = disturbed
        /\ request' = [request EXCEPT ![p] = Proceed([request[p] EXCEPT !.copies = copies])]
    BY <1>8 DEF Read
  <2> HIDE DEF copies
  <2> QED
    BY <1>7, <2>1, <2>2
<1>9. ASSUME NEW p \in Processes, NEW y \in Ids, WriteBack(p, y)
      PROVE  UndisturbedInv' /\ LinksAgree'
  <2> DEFINE copies == [request[p].copies EXCEPT ![y] = None]
  <2>1. copies \in Documents
    BY <1>9, BusyHasRequest DEF WriteBack, Request, Documents
  <2>2. /\ Busy(p) /\ disturbed' = disturbed
        /\ request' = [request EXCEPT ![p] = Proceed([request[p] EXCEPT !.copies = copies])]
    BY <1>9 DEF WriteBack
  <2> HIDE DEF copies
  <2> QED
    BY <1>7, <2>1, <2>2
<1>10. ASSUME NEW p \in Processes, Finish(p)
       PROVE  UndisturbedInv' /\ LinksAgree'
  <2> DEFINE q == request[p]
  <2>1. Busy(p) /\ disturbed' = disturbed /\ request' = [request EXCEPT ![p] = None]
    BY <1>10 DEF Finish
  <2>2. ~Busy(p)' /\ \A o \in Processes \ {p} : request'[o] = request[o]
    BY <2>1 DEF TypeOK, Busy
  <2>3. UndisturbedInv'
    BY <2>1, <2>2 DEF UndisturbedInv, Busy
  <2>4. ASSUME ~disturbed', NEW x \in Ids, NEW y \in Ids PROVE AgreeOn(x, y)'
    <3>1. q.alone /\ AgreedBefore(q)
      BY <2>1, <2>4 DEF UndisturbedInv
    <3> PICK s \in Ids : q.id = s
      BY <2>1, BusyHasRequest DEF Request
    <3>2. /\ \A z \in Ids : AgreeOn(s, z)'
          /\ \A z \in Ids \ {s} : Exists(z)' <=> q.before[z] # None
          /\ \A z, w \in Ids \ {s} : Lists(z, w)' <=> q.before[z] # None /\ w \in q.before[z]
      BY <1>10, <3>1, FinishLeaves
    <3>3. CASE x = s
      BY <3>2, <3>3
    <3>4. CASE y = s
      BY <3>2, <3>4 DEF AgreeOn
    <3>5. CASE x # s /\ y # s
      BY <3>1, <3>2, <3>5 DEF AgreedBefore, AgreeOn
    <3> QED
      BY <3>3, <3>4, <3>5
  <2> QED
    BY <2>3, <2>4 DEF LinksAgree
<1> QED
  BY <1>1, <1>2, <1>3, <1>4, <1>6, <1>8, <1>9, <1>10 DEF Next, Step

-----------------------------------------------------------------------------
(***************************************************************************)
(* The theorems                                                            *)
(***************************************************************************)
\* Empty documents agree.
LEMMA InitHasLinkInv == Init => LinkInv
<1> SUFFICES ASSUME Init PROVE LinkInv
  OBVIOUS
<1>1. TypeOK
  BY InitHasTypes
<1>2. \A p \in Processes : ~Busy(p)
  BY DEF Init, Busy
<1>3. \A x, y \in Ids : ~Lists(x, y)
  BY DEF Init, Lists, Exists
<1>4. DocumentKinds
  BY DEF Init, DocumentKinds, Exists
<1> QED
  BY <1>1, <1>2, <1>3, <1>4 DEF LinkInv, RequestKinds, AloneInv, UndisturbedInv, LinksAgree, AgreeOn

LEMMA StepKeepsLinkInv == LinkInv /\ [Next]_vars => LinkInv'
<1> SUFFICES ASSUME LinkInv, [Next]_vars PROVE LinkInv'
  OBVIOUS
<1>1. TypeOK'
  BY StepKeepsTypes DEF LinkInv
<1>2. DocumentKinds' /\ RequestKinds'
  BY <1>1, StepKeepsKinds DEF LinkInv
<1>3. AloneInv'
  BY StepKeepsAlone DEF LinkInv
<1>4. UndisturbedInv' /\ LinksAgree'
  BY StepKeepsAgreement DEF LinkInv
<1> QED
  BY <1>1, <1>2, <1>3, <1>4 DEF LinkInv

\* The inductive invariant holds, whatever meets, fails or is imported.
THEOREM LinkInvHolds == Spec => []LinkInv
BY InitHasLinkInv, StepKeepsLinkInv, PTL DEF Spec

\* As long as saves of users, groups and spaces neither fail nor overlap and nothing is
\* imported, the two sides of every link agree between saves (routers/admin.py).
THEOREM LinksAlwaysAgree == Spec => []LinksAgree
<1>1. LinkInv => LinksAgree
  BY DEF LinkInv
<1> QED
  BY <1>1, LinkInvHolds, PTL

\* A save that goes through alone leaves both sides of its document's links to
\* documents that exist in agreement, whatever the documents said before (routers/admin.py).
THEOREM AloneSavesRepair == Spec => SaveRepairs
<1>1. LinkInv /\ [Next]_vars =>
          [\A p \in Processes, x \in Ids :
              Finish(p) /\ request[p].alone /\ request[p].id = x =>
                  \A y \in Ids : AgreeOn(x, y)']_vars
  BY FinishLeaves DEF LinkInv
<1> QED
  BY <1>1, LinkInvHolds, PTL DEF Spec, SaveRepairs

\* A save that goes through alone changes no link between two other documents.
THEOREM AloneSavesTouchTheirLinksOnly == Spec => SaveTouchesItsLinksOnly
<1>1. LinkInv /\ [Next]_vars =>
          [\A p \in Processes :
              Finish(p) /\ request[p].alone =>
                  \A x, y \in Ids \ {request[p].id} :
                      Lists(x, y)' <=>
                          request[p].before[x] # None /\ y \in request[p].before[x]]_vars
  <2> SUFFICES ASSUME LinkInv, NEW p \in Processes, Finish(p), request[p].alone
               PROVE  \A x, y \in Ids \ {request[p].id} :
                          Lists(x, y)' <=> request[p].before[x] # None /\ y \in request[p].before[x]
    OBVIOUS
  <2>1. request[p].id \in Ids
    BY BusyHasRequest DEF Finish, LinkInv, Request
  <2> QED
    BY <2>1, FinishLeaves DEF LinkInv
<1> QED
  BY <1>1, LinkInvHolds, PTL DEF Spec, SaveTouchesItsLinksOnly

=============================================================================
