\* A main that steps down twice with an execution, and once with two workflows
\* or with two commands of users and errors of a trigger.
CONSTANTS
    Executions = {e1}
    Workflows = {w1, w2}
    MaxChanges = 2
    MaxCommands = 2
    MaxWaits = 1
    None = None
SPECIFICATION MCSpec
CHECK_DEADLOCK FALSE
INVARIANT TypeOK
INVARIANT FollowerResumesNothing
INVARIANT FollowerRunsNoTriggers
INVARIANT LeaderRunsActiveWorkflows
PROPERTY WaitingIsResumed
