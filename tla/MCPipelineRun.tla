--------------------------- MODULE MCPipelineRun ---------------------------
(***************************************************************************)
(* PipelineRun for TLC.  Clients push into "raw"; its pipeline writes into *)
(* "mid" whatever a program of up to three writes can; the pipelines of    *)
(* "mid" write on into "out"; one is disabled; one hangs on the monitor    *)
(* topic and writes into "mid" as well.                                    *)
(***************************************************************************)
EXTENDS PipelineRun, SequencesExt

Entry == "raw"
Log   == "raw_pipeline_monitor"

List == <<
    [topic |-> "raw", type |-> "insert-or-merge", enabled |-> TRUE],
    [topic |-> "mid", type |-> "insert",          enabled |-> TRUE],
    [topic |-> "mid", type |-> "insert-or-merge", enabled |-> TRUE],
    [topic |-> "out", type |-> "update",          enabled |-> FALSE],
    [topic |-> Log,   type |-> "insert",          enabled |-> TRUE] >>

W(topic, type, pk) == [topic |-> topic, type |-> type, pk |-> pk]

Ins3 == W("mid", "insert", 3)
Upd1 == W("mid", "update", 1)
Upd2 == W("mid", "update", 2)
Out1 == W("out", "update", 1)

\* The other pipelines have one program each.
With(entry) == <<entry, <<W("out", "insert", 4)>>, <<Out1>>, <<>>, <<W("mid", "insert", 5)>>>>

\* The entry pipeline writes any two rows, or updates rows again and again.
AllPrograms ==
    {With(entry) : entry \in BoundedSeq({Ins3, Upd1, Upd2, Out1}, 2) \cup
        {<<Upd1, Upd2, Upd1>>, <<Upd1, Upd1, Upd2>>, <<Ins3, Upd1, Ins3>>, <<Upd1, Out1, Upd2>>}}

OneProgram == {With(<<Upd1, Ins3>>)}

System == {Log}
=============================================================================
