\* An inline shell may hide a script: two rules and two inline shells for each script, an observer that may throw.
CONSTANTS
    MAX_RECURSE_DEPTH = 1
    Policies <- MixedPolicies
    MaxRules = 2
    MaxCalls = 2
    Observers = 1
SPECIFICATION Spec
INVARIANTS TypeOK DenyShortCircuits AskSurvives ErrorsSurvive NotesInOrder FirstAskWins DeadEngineDeniesAboveLimit
CHECK_DEADLOCK FALSE
