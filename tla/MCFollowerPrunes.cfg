\* Pruning goes on after a stepdown.
CONSTANTS
    Executions = {e1}
    Workflows = {w1}
    MaxChanges = 2
    MaxCommands = 0
    MaxWaits = 1
    None = None
SPECIFICATION Spec
CHECK_DEADLOCK FALSE
INVARIANT FollowerDoesNotPrune
