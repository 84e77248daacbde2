\* A workflow that fails on takeover is deactivated by its first retry.
CONSTANTS
    Executions = {e1}
    Workflows = {w1}
    MaxChanges = 2
    MaxCommands = 0
    MaxWaits = 1
    None = None
SPECIFICATION Spec
CHECK_DEADLOCK FALSE
PROPERTY RetriedIndefinitely
