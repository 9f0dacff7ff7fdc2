SPECIFICATION Spec
CONSTANTS
    Callers = {main, other}
    Owner = main
    Results = {r1, r2}
    Ok = Ok
    NoResult = NoResult
INVARIANTS
    ResultAfterJoin
