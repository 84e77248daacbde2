\* Four branches into the two inputs of a merge: a new entry over one in use.
CONSTANTS
    Nodes = {"t", "a", "b", "c", "d", "m", "k"}
    Outputs = {1, 2}
    Inputs = {1, 2}
    Graphs <- Workflows
    MaxRuns = 3
    MaxRestarts = 0
    Missing = Missing
    None = None
SPECIFICATION Spec
CHECK_DEADLOCK FALSE
INVARIANT NothingOverwritten
