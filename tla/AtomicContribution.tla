------------------------- MODULE AtomicContribution -------------------------
(***************************************************************************)
(* What the write actions of the pipeline engine promise to the author of  *)
(* a pipeline, before stores, versions and retries: every action run adds  *)
(* its contribution to the topic in one atomic step, or gives up and adds  *)
(* nothing.  It is decided once, and never both.                           *)
(***************************************************************************)
EXTENDS Naturals

CONSTANT Workers

VARIABLES
    status,   \* what became of each run
    counted   \* how often the topic holds the contribution of each run

Init ==
    /\ status = [w \in Workers |-> "pending"]
    /\ counted = [w \in Workers |-> 0]

Apply(w) ==
    /\ status[w] = "pending"
    /\ status' = [status EXCEPT ![w] = "applied"]
    /\ counted' = [counted EXCEPT ![w] = @ + 1]

GiveUp(w) ==
    /\ status[w] = "pending"
    /\ status' = [status EXCEPT ![w] = "rejected"]
    /\ UNCHANGED counted

Next == \E w \in Workers : Apply(w) \/ GiveUp(w)

Spec == Init /\ [][Next]_<<status, counted>>
=============================================================================
