CONSTANTS
    Assumed <- MCAssumed
    Configs <- MCConfigs
    Dtypes = {"float32", "bfloat16"}
SPECIFICATION Spec
CHECK_DEADLOCK FALSE
INVARIANTS
    RealCheckpointRuns
