-------------------------- MODULE MCPipelineCache --------------------------
(* PipelineCache for TLC: replicas and ids are interchangeable.            *)
EXTENDS PipelineCache, TLC

Symmetry == Permutations(Replicas) \cup Permutations(PipelineIds)
            \cup Permutations(TopicIds)
=============================================================================
