\* The same rules and scripts.
CONSTANTS
    DYNAMIC = DYNAMIC
    PARTIAL = PARTIAL
    Values <- MCValues
    Names <- MCNames
    Rules <- MCRules
    Scripts <- MCScripts
SPECIFICATION Spec
INVARIANTS MovedSourceIsCaught
CHECK_DEADLOCK FALSE
