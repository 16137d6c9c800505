-------------------------- MODULE GroupMembership --------------------------
(***************************************************************************)
(* Who belongs to which user group and which group may use which space.    *)
(* Both relations are stored twice: a user and a space list their groups,  *)
(* a group lists its users and its spaces.  Saving one document            *)
(* (routers/admin.py) stores it and brings the other side in line in       *)
(* several calls of the store: its id is pulled from every document of the *)
(* other kind, the documents it should be in are read, and each is written *)
(* back whole with the id added.  A handler has no await, so the requests  *)
(* of one process come one after the other; those of several processes     *)
(* interleave call by call, and any call may fail.  The imports of         *)
(* routers/metadata.py store one document and synchronise nothing.         *)
(*                                                                         *)
(* doc[x] is the set of all ids the document x lists.  All documents are   *)
(* of one tenant.  The fields alone and before of a request, and           *)
(* disturbed, are history that no code keeps.                              *)
(***************************************************************************)
EXTENDS Naturals

CONSTANTS
    Processes,     \* the processes that serve requests
    Users, Groups, Spaces,
    None,          \* no such document yet, no request under way
    MaxRequests    \* bound: how many requests are made

Ids == Users \cup Groups \cup Spaces

\* What a store may hold, and a save on its way.
Documents == [Ids -> (SUBSET Ids) \cup {None}]

Request ==
    [id: Ids, new: BOOLEAN, want: SUBSET Ids,
     at: {"insert", "pull", "read", "write", "finish"}, side: {Users, Groups, Spaces},
     copies: Documents, alone: BOOLEAN, before: Documents]

ASSUME MembershipAssumption ==
    /\ Users \cap Groups = {} /\ Users \cap Spaces = {} /\ Groups \cap Spaces = {}
    /\ Users # {} /\ Groups # {} /\ Spaces # {}
    /\ None \notin Request /\ \A S \in SUBSET Ids : S # None
    /\ MaxRequests \in Nat

VARIABLES
    doc,        \* the stored documents, by id
    request,    \* the save each process is in the middle of
    requests,   \* how many requests were made
    disturbed   \* history: a save has failed or met another, or there was an import

vars == <<doc, request, requests, disturbed>>

-----------------------------------------------------------------------------
Exists(x) == doc[x] # None
Busy(p) == request[p] # None

\* The kinds of documents that list x are synchronised in this order.
FirstSide(x) == IF x \in Groups THEN Spaces ELSE Groups
LastSide(x)  == IF x \in Groups THEN Users ELSE Groups

\* What a client or an import may put into document x: any ids of the other kinds.
\* Nothing checks that the documents they name exist.
Linkable(x) == FirstSide(x) \cup LastSide(x)

NoCopies == [y \in Ids |-> None]

\* Where a request goes when a call has returned.
Proceed(q) ==
    IF \E y \in Ids : q.copies[y] # None THEN [q EXCEPT !.at = "write"]
    ELSE IF q.side # LastSide(q.id) THEN [q EXCEPT !.at = "pull", !.side = LastSide(q.id)]
    ELSE [q EXCEPT !.at = "finish"]

Init ==
    /\ \E S \in SUBSET Ids : doc = [x \in Ids |-> IF x \in S THEN {} ELSE None]
    /\ request = [p \in Processes |-> None]
    /\ requests = 0
    /\ disturbed = FALSE

-----------------------------------------------------------------------------
(***************************************************************************)
(* A save: save_user, save_user_group, update_user_group, save_space and   *)
(* update_space.                                                           *)
(***************************************************************************)

\* Nobody else is about to create x: its id is generated.
MayBegin(p, x) ==
    /\ ~Busy(p)
    /\ requests < MaxRequests
    /\ requests' = requests + 1
    /\ Exists(x) \/ \A q \in Processes : Busy(q) => request[q].id # x

\* History: when requests meet none of them is alone any more, and what was before is
\* of no interest.
Meets(requestNow) ==
    [q \in Processes |->
        IF request[q] = None THEN requestNow[q]
        ELSE [requestNow[q] EXCEPT !.alone = FALSE, !.before = NoCopies]]

Begin(p, x, want) ==
    LET alone == \A q \in Processes : ~Busy(q)
    IN  /\ MayBegin(p, x)
        /\ request' = Meets([request EXCEPT ![p] =
               [id |-> x, new |-> ~Exists(x), want |-> want,
                at |-> IF Exists(x) THEN "pull" ELSE "insert",
                side |-> FirstSide(x), copies |-> NoCopies,
                alone |-> alone, before |-> IF alone THEN doc ELSE NoCopies]])
        /\ disturbed' = (disturbed \/ ~alone)
        /\ UNCHANGED doc

\* A new document is stored before the others are synchronised, ...
Insert(p) ==
    /\ Busy(p) /\ request[p].at = "insert"
    /\ doc' = [doc EXCEPT ![request[p].id] = request[p].want]
    /\ request' = [request EXCEPT ![p].at = "pull"]
    /\ UNCHANGED <<requests, disturbed>>

\* Mutant of Pull: only the documents that will get the id back are cleaned.
PullWanted(p) ==
    LET x == request[p].id
    IN  /\ Busy(p) /\ request[p].at = "pull"
        /\ doc' = [y \in Ids |-> IF y \in request[p].side \cap request[p].want /\ Exists(y)
                                 THEN doc[y] \ {x} ELSE doc[y]]
        /\ request' = [request EXCEPT ![p].at = "read"]
        /\ UNCHANGED <<requests, disturbed>>

\* pull_update: one call takes the id out of every document of the kind.
Pull(p) ==
    LET x == request[p].id
    IN  /\ Busy(p) /\ request[p].at = "pull"
        /\ doc' = [y \in Ids |-> IF y \in request[p].side /\ Exists(y)
                                 THEN doc[y] \ {x} ELSE doc[y]]
        /\ request' = [request EXCEPT ![p].at = "read"]
        /\ UNCHANGED <<requests, disturbed>>

\* get_user_group_list_by_ids and its like: the documents that shall list x, as far as
\* there are any.
Read(p) ==
    /\ Busy(p) /\ request[p].at = "read"
    /\ LET q == request[p]
           copies == [y \in Ids |-> IF y \in q.side \cap q.want THEN doc[y] ELSE None]
       IN  request' = [request EXCEPT ![p] = Proceed([q EXCEPT !.copies = copies])]
    /\ UNCHANGED <<doc, requests, disturbed>>

\* Mutant of Written: a list that is not empty is replaced.
WrittenAlone(x, copy) == {x}

\* Only the id is appended to the copy.
Written(x, copy) == copy \cup {x}

\* One copy is written back whole.  A space's group that lists it already, because
\* another request has put it in after the pull, is not written.
WriteBack(p, y) ==
    /\ Busy(p) /\ request[p].at = "write" /\ request[p].copies[y] # None
    /\ LET q == request[p]
       IN  /\ doc' = IF q.id \in Spaces /\ q.id \in q.copies[y] THEN doc
                     ELSE [doc EXCEPT ![y] = Written(q.id, q.copies[y])]
           /\ request' = [request EXCEPT ![p] = Proceed([q EXCEPT !.copies[y] = None])]
    /\ UNCHANGED <<requests, disturbed>>

\* Mutant of Finish: the document as it was read is stored.
FinishStale(p) ==
    /\ Busy(p) /\ request[p].at = "finish"
    /\ doc' = IF request[p].new THEN doc
              ELSE [doc EXCEPT ![request[p].id] = request[p].before[request[p].id]]
    /\ request' = [request EXCEPT ![p] = None]
    /\ UNCHANGED <<requests, disturbed>>

\* ... an existing one after them.
Finish(p) ==
    /\ Busy(p) /\ request[p].at = "finish"
    /\ doc' = IF request[p].new THEN doc
              ELSE [doc EXCEPT ![request[p].id] = request[p].want]
    /\ request' = [request EXCEPT ![p] = None]
    /\ UNCHANGED <<requests, disturbed>>

\* A call of the store raises, or the process dies: what is written stays.
Fail(p) ==
    /\ Busy(p) /\ request[p].at # "insert"
    /\ request' = [request EXCEPT ![p] = None]
    /\ disturbed' = TRUE
    /\ UNCHANGED <<doc, requests>>

\* import_user, import_user_group, import_space: inserted or replaced, and no more.
Import(p, x, want) ==
    /\ MayBegin(p, x)
    /\ doc' = [doc EXCEPT ![x] = want]
    /\ request' = Meets(request)
    /\ disturbed' = TRUE

Step(p) ==
    \/ Insert(p) \/ Pull(p) \/ Read(p) \/ Finish(p) \/ Fail(p)
    \/ \E y \in Ids : WriteBack(p, y)
    \/ \E x \in Ids : \E want \in SUBSET Linkable(x) : Begin(p, x, want) \/ Import(p, x, want)

Next == \E p \in Processes : Step(p)

Spec == Init /\ [][Next]_vars

-----------------------------------------------------------------------------
(***************************************************************************)
(* Properties                                                              *)
(***************************************************************************)
\* The values the variables take.
TypeOK ==
    /\ doc \in Documents
    /\ request \in [Processes -> Request \cup {None}]
    /\ requests \in 0..MaxRequests
    /\ disturbed \in BOOLEAN

Lists(x, y) == Exists(x) /\ y \in doc[x]

\* Do the documents x and y say the same about each other?  A document that does not
\* exist says nothing: a list may name it, and then the link has one side only.
AgreeOn(x, y) == Exists(x) /\ Exists(y) => (Lists(x, y) <=> Lists(y, x))

\* When no save has failed or overlapped with another and nothing was imported,
\* then between two saves the two sides of both relations agree about any two documents
\* that exist, one that was listed before it was created included: the spaces a user
\* sees through its groups are those the groups were given.
LinksAgree ==
    ~disturbed /\ (\A p \in Processes : ~Busy(p)) => \A x, y \in Ids : AgreeOn(x, y)

\* Whatever earlier failures, overlaps and imports have left, a save that goes
\* through undisturbed leaves the two sides in agreement about its document, with every
\* other that exists: saving a document again repairs it.
SaveRepairs ==
    [][\A p \in Processes, x \in Ids :
          Finish(p) /\ request[p].alone /\ request[p].id = x =>
              \A y \in Ids : AgreeOn(x, y)']_vars

\* Such a save says nothing about other links: every other document lists what it
\* listed when the save began, the saved document apart.
SaveTouchesItsLinksOnly ==
    [][\A p \in Processes :
          Finish(p) /\ request[p].alone =>
              \A x, y \in Ids \ {request[p].id} :
                  Lists(x, y)' <=>
                      request[p].before[x] # None /\ y \in request[p].before[x]]_vars

=============================================================================
