\* A last node that returns nothing, or is filtered out, passes over what waits.
CONSTANTS
    Nodes = {"t", "a", "b", "c", "d", "m", "k"}
    Outputs = {1, 2}
    Inputs = {1, 2}
    Graphs <- Workflows
    MaxRuns = 3
    MaxRestarts = 0
    Missing = Missing
    None = None
SPECIFICATION Spec
CHECK_DEADLOCK FALSE
INVARIANT NothingReadyIsLeft
