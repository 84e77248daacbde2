\* Merges, a loop and a switch; every outcome of every node; one restart.
CONSTANTS
    Nodes = {"t", "a", "b", "c", "d", "m", "k"}
    Outputs = {1, 2}
    Inputs = {1, 2}
    Graphs <- Workflows
    MaxRuns = 3
    MaxRestarts = 1
    Missing = Missing
    None = None
SPECIFICATION LiveSpec
CHECK_DEADLOCK FALSE
INVARIANT TypeOK
INVARIANT Conserved
INVARIANT LeftOnlyByNeed
INVARIANT ReportedOnce
PROPERTY MissingInputNeverArrives
PROPERTY RunEnds
