SPECIFICATION FairSpec
CONSTANTS
    Tasks = {a, b}
    Submitters = {s1, s2}
    Owner = owner
    Codes = {7}
    NoTask = NoTask
    MaxAccepted = 2
INVARIANTS
    ListIsGuarded
    ListIsQueue
    OneSubmission
    CompletedCode
    ShutdownQuiesces
PROPERTIES
    ImplementsExecutor
    AcceptedRuns
    ShutdownReturns
CHECK_DEADLOCK FALSE
