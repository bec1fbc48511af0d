\* One call rule or pipe, redirect, path or file rule, on small scripts.
CONSTANTS
    DYNAMIC = DYNAMIC
    PARTIAL = PARTIAL
    Values <- MCValues
    Names <- MCNames
    Rules <- MCRules
    Scripts <- MCScripts
SPECIFICATION Spec
INVARIANTS TypeOK SilenceIsCertain MatchIsCertain DoubtIsReal DefiniteMatchWins AliasesAreInterchangeable
CHECK_DEADLOCK FALSE
