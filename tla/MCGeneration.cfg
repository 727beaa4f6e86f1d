\* The system stops when the sequence is generated.
CONSTANTS
    a = a
    b = b
    Vocab = {a, b}
    NumLayers = 2
    PromptLens = {1, 2, 3}
    MaxNews = {0, 1, 4}
    Callers = {"generate", "scheduler"}
SPECIFICATION Spec
CHECK_DEADLOCK FALSE
INVARIANTS
    GenerateMatchesForward
    CacheMatchesForward
    ScheduledMatchesRepeated
