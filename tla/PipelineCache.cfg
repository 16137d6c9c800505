SPECIFICATION Spec
CONSTANTS
    Replicas = {r1, r2}
    PipelineIds = {p1}
    TopicIds = {t1, t2}
    None = None
    MaxChanges = 4
SYMMETRY Symmetry
INVARIANTS
    ByIdIsFresh
    ByTopicIsFresh
